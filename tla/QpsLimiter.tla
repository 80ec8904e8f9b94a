----------------------------- MODULE QpsLimiter -----------------------------
(***************************************************************************)
(* The QPS strategy of Limiter, shutils/dag/lib/limiter.py: a bucket of    *)
(* tokens that time refills.                                               *)
(*                                                                         *)
(* The unit of time is the one in which the bucket gains one unit, so that *)
(* delta * tokens_per_sec is delta; a call costs Cost units, that is       *)
(* period / limit ticks, and the bucket holds limit calls.  With a limit   *)
(* of zero the rate is zero too: time gives an empty bucket nothing.       *)
(***************************************************************************)
EXTENDS Integers, Sequences

CONSTANTS
  Agent,    \* threads and coroutines that share the limiter
  Cost,     \* the ticks it takes to refill one token
  Limits,   \* the limits a Limiter may be made with
  Timeouts, \* how agents ask: acquire with a timeout, or with
  Never,    \*   None, or
  Once,     \*   try_acquire
  MaxTime   \* bound: the clock stops here

ASSUME QpsAssumption ==
  /\ Cost \in Nat \ {0}
  /\ Limits \subseteq Nat
  /\ Timeouts \subseteq Nat \cup {Never, Once} /\ Never \notin Nat /\ Once \notin Nat
  /\ MaxTime \in Nat

VARIABLES
  limit,        \* Limiter.limit: the tokens a full bucket holds
  clock,        \* time.monotonic()
  tokens,       \* Limiter.tokens, in units
  last_update,  \* Limiter.last_update
  call,         \* where each agent is in acquire, and its local variables
  grants        \* history: the now of every successful attempt

qpsVars == <<limit, clock, tokens, last_update, call, grants>>

capacity == limit * Cost

NoCall == [at |-> "idle", now |-> 0, start_time |-> 0, timeout |-> Never, wake |-> 0]

QpsInit ==
  /\ limit \in Limits
  /\ clock = 0 /\ tokens = capacity /\ last_update = 0
  /\ call = [a \in Agent |-> NoCall]
  /\ grants = <<>>

Tick ==
  /\ clock < MaxTime
  /\ clock' = clock + 1
  /\ UNCHANGED <<limit, tokens, last_update, call, grants>>

(* acquire, acquire_async and try_acquire. *)
AcquireQps(a) ==
  /\ call[a].at = "idle"
  /\ \E t \in Timeouts :
       call' = [call EXCEPT ![a].at = "try", ![a].start_time = clock, ![a].timeout = t]
  /\ UNCHANGED <<limit, clock, tokens, last_update, grants>>

(* The clock is read before the lock is taken: at the lock, another agent  *)
(* may come first with a later time.                                       *)
ReadClock(a) ==
  /\ call[a].at = "try"
  /\ call' = [call EXCEPT ![a].at = "lock", ![a].now = clock]
  /\ UNCHANGED <<limit, clock, tokens, last_update, grants>>

AtMost(x, y) == IF x <= y THEN x ELSE y

(* delta * tokens_per_sec *)
Gain(delta) == IF limit = 0 THEN 0 ELSE delta

(* Mutant: time that ran backwards is ignored. *)
RefilledForward(delta) == AtMost(capacity, tokens + (IF delta > 0 THEN Gain(delta) ELSE 0))

(* The tokens after delta ticks.  delta may be negative, and takes back    *)
(* what moving last_update backwards would add a second time.              *)
Refilled(delta) == AtMost(capacity, tokens + Gain(delta))

(* _try_acquire_qps, under the lock. *)
TryAcquireQps(a) ==
  LET now == call[a].now
      refilled == Refilled(now - last_update)
  IN  /\ call[a].at = "lock"
      /\ last_update' = now
      /\ \/ /\ refilled >= Cost
            /\ tokens' = refilled - Cost
            /\ grants' = Append(grants, now)
            /\ call' = [call EXCEPT ![a] = NoCall]
         \/ /\ refilled < Cost
            /\ tokens' = refilled
            /\ grants' = grants
            /\ call' = [call EXCEPT ![a].at = "refused"]
      /\ UNCHANGED <<limit, clock>>

Elapsed(a) == clock - call[a].start_time

TimeIsUp(a) == call[a].timeout \notin {Never, Once} /\ Elapsed(a) > call[a].timeout

(* try_acquire makes one attempt, acquire stops after its timeout. *)
GiveUp(a) ==
  /\ call[a].at = "refused" /\ (call[a].timeout = Once \/ TimeIsUp(a))
  /\ call' = [call EXCEPT ![a] = NoCall]
  /\ UNCHANGED <<limit, clock, tokens, last_update, grants>>

Waits(a) == call[a].at = "refused" /\ call[a].timeout # Once /\ ~TimeIsUp(a)

(* _calc_qps_wait_time divides by the rate, which is 0 for a limit of 0. *)
WaitFails(a) ==
  /\ Waits(a) /\ limit = 0
  /\ call' = [call EXCEPT ![a].at = "error"]
  /\ UNCHANGED <<limit, clock, tokens, last_update, grants>>

(* _calc_qps_wait_time, under the lock: what is missing to one token. *)
Needed == IF tokens >= Cost THEN 0 ELSE Cost - tokens

(* The wait is not longer than the timeout allows; an acquire with a       *)
(* timeout that finds nothing to wait for gives up.                        *)
Sleep(a) ==
  LET timed == call[a].timeout # Never
      wait == IF timed THEN AtMost(Needed, call[a].timeout - Elapsed(a)) ELSE Needed
  IN  /\ Waits(a) /\ limit > 0
      /\ call' = IF timed /\ wait <= 0
                 THEN [call EXCEPT ![a] = NoCall]
                 ELSE [call EXCEPT ![a].at = "sleep", ![a].wake = clock + wait]
      /\ UNCHANGED <<limit, clock, tokens, last_update, grants>>

Awake(a) ==
  /\ call[a].at = "sleep" /\ clock >= call[a].wake
  /\ call' = [call EXCEPT ![a].at = "try"]
  /\ UNCHANGED <<limit, clock, tokens, last_update, grants>>

QpsNext ==
  \/ Tick
  \/ \E a \in Agent :
       \/ AcquireQps(a) \/ ReadClock(a) \/ TryAcquireQps(a) \/ GiveUp(a) \/ WaitFails(a)
       \/ Sleep(a) \/ Awake(a)

QpsSpec == QpsInit /\ [][QpsNext]_qpsVars
-----------------------------------------------------------------------------
(* Between any two grants lie no more grants than the full bucket and the  *)
(* time between them pay for, whatever the order in which the agents get   *)
(* the lock with the times they read before it.                            *)
BurstBound ==
  \A i, j \in 1 .. Len(grants) :
    i <= j => (j - i + 1) * Cost <= capacity + (grants[j] - grants[i])
=============================================================================
