----------------------------- MODULE RateWindow -----------------------------
(***************************************************************************)
(* RateLimiter and RateLimiterDecorator, shutils/rate_limiter.py: a window *)
(* of length period in which calls calls are allowed.  The clock is read   *)
(* under the lock.  A period of 0 switches the limiter off and is left     *)
(* out.                                                                    *)
(***************************************************************************)
EXTENDS Integers, Sequences

CONSTANTS
  Thread,     \* callers of the decorated function
  calls,
  period,
  Sleeper,    \* the threads whose decorator has sleep_and_retry
  MaxClock    \* bound: the clock stops here

ASSUME WindowAssumption ==
  /\ calls \in Nat \ {0} /\ period \in Nat \ {0} /\ MaxClock \in Nat /\ Sleeper \subseteq Thread

VARIABLES
  instant,      \* RateLimiter.now()
  window,       \* RateLimiter.tokens: the calls counted in this window
  last_refill,  \* RateLimiter.last_refill
  until,        \* when the sleep of each thread in the wrapper ends, or Out
  allowed       \* history: the times of the calls that were let through

windowVars == <<instant, window, last_refill, until, allowed>>

Out == -1

WindowInit ==
  /\ instant = 0 /\ window = 0 /\ last_refill = 0
  /\ until = [t \in Thread |-> Out]
  /\ allowed = <<>>

ClockTicks ==
  /\ instant < MaxClock
  /\ instant' = instant + 1
  /\ UNCHANGED <<window, last_refill, until, allowed>>

(* Mutant: the window restarts a tick early. *)
OverEarly == instant - last_refill >= period - 1

Over == instant - last_refill >= period

(* The wrapper, after a refusal: it sleeps for the rest of the window and  *)
(* tries again, or raises RateLimitException.                              *)
Retry(t) == IF t \in Sleeper THEN last_refill + period ELSE Out

(* __cal by thread t.  Refused calls are counted too, which is why the     *)
(* count is capped here at the first value that means "full".              *)
Cal(t) ==
  LET counted == (IF Over THEN 0 ELSE window) + 1
  IN  /\ until[t] <= instant
      /\ last_refill' = IF Over THEN instant ELSE last_refill
      /\ window' = IF counted > calls THEN calls + 1 ELSE counted
      /\ \/ /\ counted <= calls
            /\ allowed' = Append(allowed, instant)
            /\ until' = [until EXCEPT ![t] = Out]
         \/ /\ counted > calls
            /\ allowed' = allowed
            /\ until' = [until EXCEPT ![t] = Retry(t)]
      /\ UNCHANGED instant

WindowNext == ClockTicks \/ \E t \in Thread : Cal(t)

WindowSpec == WindowInit /\ [][WindowNext]_windowVars
-----------------------------------------------------------------------------
(* Windows back to back let 2 * calls calls through within one period, and *)
(* never one more.                                                         *)
TwoWindows ==
  \A i \in 1 .. Len(allowed) :
    i + 2 * calls <= Len(allowed) => allowed[i + 2 * calls] - allowed[i] > period
=============================================================================
