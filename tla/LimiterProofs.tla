---------------------------- MODULE LimiterProofs ----------------------------
(***************************************************************************)
(* The limiters, proved for every number of agents and slots, every limit  *)
(* and every period, with no bound on time.                                *)
(*                                                                         *)
(* The token bucket keeps BurstBound.  BurstBound is not inductive: it     *)
(* does not say what the bucket holds.  Paid does: since each grant, the   *)
(* tokens that were taken and those that are left are no more than a full  *)
(* bucket and what last_update, not the clock, has moved.                  *)
(*                                                                         *)
(* The slots of TaskCall are counted exactly, and no wakeup is lost.       *)
(* SleepersCovered is not inductive: a notify may choose an agent whose    *)
(* wait has expired and wake nobody.  Answered counts those agents as well *)
(* as the ones about to look.                                              *)
(*                                                                         *)
(* The fixed windows of RateWindow keep TwoWindows, because a call that is *)
(* calls + 1 or more before the current window lies in a window before the *)
(* previous one.                                                           *)
(***************************************************************************)
EXTENDS QpsLimiter, TaskCall, RateWindow, FiniteSetTheorems, TLAPS

-----------------------------------------------------------------------------
(* The token bucket.                                                       *)

CallRecord ==
  [at : {"idle", "try", "lock", "refused", "sleep", "error"}, now : Nat, start_time : Nat,
   timeout : Nat \cup {Never, Once}, wake : Int]

QpsType ==
  /\ limit \in Nat
  /\ clock \in Nat
  /\ tokens \in Int
  /\ last_update \in Nat
  /\ grants \in Seq(Nat)
  /\ call \in [Agent -> CallRecord]

Paid ==
  /\ tokens <= capacity
  /\ limit = 0 => grants = <<>>
  /\ limit > 0 => \A i \in 1 .. Len(grants) :
       (Len(grants) - i + 1) * Cost + tokens <= capacity + (last_update - grants[i])

QpsInv == QpsType /\ Paid /\ BurstBound

(* One more call costs Cost more units. *)
LEMMA OneMore ==
  ASSUME NEW n \in Int
  PROVE  (n + 1) * Cost = n * Cost + Cost
BY QpsAssumption

(* The bucket holds a natural number of units, none if the limit is 0. *)
LEMMA CapacityType ==
  ASSUME limit \in Nat
  PROVE  capacity \in Nat /\ (limit = 0 => capacity = 0)
BY QpsAssumption DEF capacity

(* A Limiter is made with a full bucket and no grants. *)
LEMMA QpsStarts == QpsInit => QpsInv
<1> SUFFICES ASSUME QpsInit PROVE QpsInv
  OBVIOUS
<1>1. limit \in Nat /\ grants = <<>>
  BY QpsAssumption DEF QpsInit
<1>2. capacity \in Nat
  BY <1>1, CapacityType
<1>3. QpsType
  BY <1>1, <1>2 DEF QpsInit, QpsType, NoCall, CallRecord
<1>4. Paid
  BY <1>1, <1>2 DEF QpsInit, Paid
<1>5. BurstBound
  BY <1>1 DEF BurstBound
<1> QED BY <1>3, <1>4, <1>5 DEF QpsInv

(* Steps that leave the bucket, its time and the grants alone keep what    *)
(* was paid.                                                               *)
LEMMA OtherStep ==
  ASSUME QpsInv, QpsType', UNCHANGED <<limit, tokens, last_update, grants>>
  PROVE  QpsInv'
BY DEF QpsInv, Paid, BurstBound, capacity

(* What a refill gives is at most a full bucket and at most what the time  *)
(* since last_update brings, also when that time is negative.              *)
LEMMA RefillBounds ==
  ASSUME QpsType, Paid, NEW delta \in Int
  PROVE  /\ Refilled(delta) \in Int
         /\ Refilled(delta) <= capacity
         /\ limit > 0 => Refilled(delta) <= tokens + delta
<1>1. capacity \in Nat
  BY CapacityType DEF QpsType
<1> QED BY <1>1 DEF QpsType, Paid, Refilled, AtMost, Gain

(* An attempt under the lock keeps the types. *)
LEMMA TryType ==
  ASSUME QpsInv, NEW a \in Agent, TryAcquireQps(a)
  PROVE  QpsType'
<1> USE DEF QpsInv, QpsType, CallRecord
<1>1. call[a].now \in Nat
  OBVIOUS
<1>2. Refilled(call[a].now - last_update) \in Int
  BY <1>1, RefillBounds
<1>3. call' \in [Agent -> CallRecord]
  <2>1. \/ call' = [call EXCEPT ![a] = NoCall]
        \/ call' = [call EXCEPT ![a].at = "refused"]
    BY DEF TryAcquireQps
  <2>2. CASE call' = [call EXCEPT ![a] = NoCall]
    BY <2>2 DEF NoCall
  <2>3. CASE call' = [call EXCEPT ![a].at = "refused"]
    BY <2>3
  <2> QED BY <2>1, <2>2, <2>3
<1>4. /\ limit' \in Nat /\ clock' \in Nat /\ last_update' \in Nat
      /\ tokens' \in Int /\ grants' \in Seq(Nat)
  <2> DEFINE r == Refilled(call[a].now - last_update)
  <2>1. /\ last_update' = call[a].now /\ limit' = limit /\ clock' = clock
        /\ tokens' \in {r - Cost, r}
        /\ grants' \in {Append(grants, call[a].now), grants}
    BY DEF TryAcquireQps
  <2> HIDE DEF r
  <2>2. r \in Int
    BY <1>2 DEF r
  <2>3. r - Cost \in Int
    BY <2>2, QpsAssumption
  <2>4. Append(grants, call[a].now) \in Seq(Nat)
    BY <1>1
  <2>5. tokens' \in Int
    BY <2>1, <2>2, <2>3
  <2> QED BY <1>1, <2>1, <2>4, <2>5
<1> QED BY <1>3, <1>4

(* A refused attempt moves last_update and adds no more than that. *)
LEMMA RefusedPaid ==
  ASSUME QpsInv, QpsType', NEW now \in Nat,
         last_update' = now, tokens' = Refilled(now - last_update),
         grants' = grants, limit' = limit
  PROVE  QpsInv'
<1> DEFINE r == Refilled(now - last_update)
<1>1. QpsType /\ Paid /\ BurstBound
  BY DEF QpsInv
<1>2. r \in Int /\ r <= capacity /\ (limit > 0 => r <= tokens + (now - last_update))
  BY <1>1, RefillBounds DEF QpsType
<1>3. capacity' = capacity
  BY DEF capacity
<1>4. capacity \in Nat
  BY <1>1, CapacityType DEF QpsType
<1>5. BurstBound'
  BY <1>1, <1>3 DEF BurstBound
<1>6. ASSUME limit > 0, NEW i \in 1 .. Len(grants)
      PROVE  (Len(grants) - i + 1) * Cost + r <= capacity + (now - grants[i])
  <2> DEFINE c == (Len(grants) - i + 1) * Cost
  <2>1. c \in Int /\ grants[i] \in Nat /\ last_update \in Nat /\ tokens \in Int
    BY <1>1, QpsAssumption DEF QpsType
  <2>2. c + tokens <= capacity + (last_update - grants[i])
    BY <1>1, <1>6 DEF Paid
  <2> HIDE DEF c, r
  <2>3. c + r <= capacity + (now - grants[i])
    BY <2>1, <2>2, <1>2, <1>4, <1>6
  <2> QED BY <2>3 DEF c
<1>7. Paid'
  BY <1>1, <1>2, <1>3, <1>6 DEF Paid
<1> QED BY <1>5, <1>7 DEF QpsInv

(* A grant takes Cost units from what the refill gave. *)
LEMMA GrantedPaid ==
  ASSUME QpsInv, QpsType', NEW now \in Nat,
         last_update' = now, Refilled(now - last_update) >= Cost,
         tokens' = Refilled(now - last_update) - Cost,
         grants' = Append(grants, now), limit' = limit
  PROVE  QpsInv'
<1> DEFINE r == Refilled(now - last_update)
           n == Len(grants)
<1>1. QpsType /\ Paid /\ BurstBound
  BY DEF QpsInv
<1>2. r \in Int /\ r <= capacity /\ (limit > 0 => r <= tokens + (now - last_update))
  BY <1>1, RefillBounds DEF QpsType
<1>3. capacity' = capacity
  BY DEF capacity
<1>4. capacity \in Nat /\ (limit = 0 => capacity = 0)
  BY <1>1, CapacityType DEF QpsType
<1>5. limit > 0
  BY <1>1, <1>2, <1>4, QpsAssumption DEF QpsType
<1>6. /\ n \in Nat /\ Len(grants') = n + 1 /\ grants'[n + 1] = now
      /\ \A i \in 1 .. n : grants'[i] = grants[i] /\ grants[i] \in Nat
  BY <1>1 DEF QpsType
<1>7. ASSUME NEW i \in 1 .. n + 1
      PROVE  (n + 1 - i + 1) * Cost + (r - Cost) <= capacity + (now - grants'[i])
  <2>1. CASE i = n + 1
    <3>1. (n + 1 - i + 1) * Cost = Cost
      BY <2>1, <1>6, QpsAssumption
    <3> HIDE DEF r, n
    <3> QED BY <3>1, <2>1, <1>2, <1>4, <1>6, QpsAssumption
  <2>2. CASE i \in 1 .. n
    <3> DEFINE c == (n - i + 1) * Cost
    <3>1. c \in Int /\ last_update \in Nat /\ tokens \in Int
      BY <1>1, <1>6, QpsAssumption DEF QpsType
    <3>2. c + tokens <= capacity + (last_update - grants[i])
      BY <1>1, <1>5, <2>2 DEF Paid
    <3>3. (n + 1 - i + 1) * Cost = c + Cost
      <4>1. n - i + 1 \in Int /\ n + 1 - i + 1 = (n - i + 1) + 1
        BY <1>6
      <4> QED BY <4>1, OneMore
    <3> HIDE DEF c, r, n
    <3> QED BY <3>1, <3>2, <3>3, <2>2, <1>2, <1>4, <1>5, <1>6, QpsAssumption
  <2> QED BY <2>1, <2>2, <1>6
<1>8. Paid'
  <2>1. tokens' <= capacity'
    BY <1>2, <1>3, <1>4, QpsAssumption
  <2>2. \A i \in 1 .. Len(grants') :
          (Len(grants') - i + 1) * Cost + tokens' <= capacity' + (last_update' - grants'[i])
    <3> SUFFICES ASSUME NEW i \in 1 .. n + 1
                 PROVE  (Len(grants') - i + 1) * Cost + tokens' <=
                          capacity' + (last_update' - grants'[i])
      BY <1>6
    <3>1. Len(grants') - i + 1 = n + 1 - i + 1
      BY <1>6
    <3>2. tokens' = r - Cost
      OBVIOUS
    <3> HIDE DEF n, r
    <3> QED BY <3>1, <3>2, <1>3, <1>7
  <2> QED BY <2>1, <2>2, <1>5 DEF Paid
<1>9. BurstBound'
  <2> SUFFICES ASSUME NEW i \in 1 .. n + 1, NEW j \in 1 .. n + 1, i <= j
               PROVE  (j - i + 1) * Cost <= capacity + (grants'[j] - grants'[i])
    <3> HIDE DEF n
    <3> QED BY <1>3, <1>6 DEF BurstBound
  <2>1. CASE j = n + 1
    <3> DEFINE c == (n + 1 - i + 1) * Cost
               g == grants'[i]
    <3>1. c \in Int /\ g \in Nat
      BY <1>6, QpsAssumption
    <3>2. c + (r - Cost) <= capacity + (now - g)
      BY <1>7
    <3>3. j - i + 1 = n + 1 - i + 1 /\ grants'[j] = now
      BY <2>1, <1>6
    <3>4. r >= Cost /\ Cost \in Nat
      BY QpsAssumption
    <3> HIDE DEF c, r, n, g
    <3>5. c <= capacity + (now - g)
      BY <3>1, <3>2, <3>4, <1>2, <1>4
    <3> QED BY <3>3, <3>5 DEF c, g
  <2>2. CASE j \in 1 .. n
    <3>1. i \in 1 .. n
      BY <2>2, <1>6
    <3> QED BY <3>1, <2>2, <1>1, <1>6 DEF BurstBound
  <2> QED BY <2>1, <2>2, <1>6
<1> QED BY <1>8, <1>9 DEF QpsInv

(* Every step keeps the invariant. *)
LEMMA QpsSteps == QpsInv /\ [QpsNext]_qpsVars => QpsInv'
<1> SUFFICES ASSUME QpsInv, [QpsNext]_qpsVars PROVE QpsInv'
  OBVIOUS
<1> USE DEF QpsInv, QpsType, CallRecord
<1>1. CASE Tick
  BY <1>1, OtherStep DEF Tick
<1>2. ASSUME NEW a \in Agent, AcquireQps(a) PROVE QpsInv'
  <2>1. PICK t \in Timeouts :
          call' = [call EXCEPT ![a].at = "try", ![a].start_time = clock, ![a].timeout = t]
    BY <1>2 DEF AcquireQps
  <2>2. t \in Nat \cup {Never, Once}
    BY QpsAssumption
  <2>3. QpsType'
    <3>1. call' = [call EXCEPT ![a] = [@ EXCEPT !.at = "try", !.start_time = clock, !.timeout = t]]
      BY <2>1
    <3>2. [call[a] EXCEPT !.at = "try", !.start_time = clock, !.timeout = t] \in CallRecord
      BY <2>2
    <3>3. call' \in [Agent -> CallRecord]
      <4> HIDE DEF CallRecord
      <4> QED BY <3>1, <3>2
    <3> QED BY <1>2, <3>3 DEF AcquireQps
  <2> QED BY <1>2, <2>3, OtherStep DEF AcquireQps
<1>3. ASSUME NEW a \in Agent, ReadClock(a) PROVE QpsInv'
  BY <1>3, OtherStep DEF ReadClock
<1>4. ASSUME NEW a \in Agent, TryAcquireQps(a) PROVE QpsInv'
  <2>1. QpsType' /\ call[a].now \in Nat
    BY <1>4, TryType
  <2> QED BY <1>4, <2>1, RefusedPaid, GrantedPaid DEF TryAcquireQps
<1>5. ASSUME NEW a \in Agent, GiveUp(a) PROVE QpsInv'
  BY <1>5, OtherStep DEF GiveUp, NoCall
<1>6. ASSUME NEW a \in Agent, WaitFails(a) PROVE QpsInv'
  BY <1>6, OtherStep DEF WaitFails
<1>7. ASSUME NEW a \in Agent, Sleep(a) PROVE QpsInv'
  <2> DEFINE wait == IF call[a].timeout # Never
                     THEN AtMost(Needed, call[a].timeout - Elapsed(a)) ELSE Needed
  <2>1. Needed \in Int
    BY QpsAssumption DEF Needed
  <2>2. call[a].timeout # Never => call[a].timeout \in Nat
    BY <1>7, QpsAssumption DEF Sleep, Waits
  <2>3. wait \in Int
    BY <2>1, <2>2 DEF AtMost, Elapsed
  <2>4. QpsType'
    <3> HIDE DEF wait
    <3>1. call' \in [Agent -> CallRecord]
      <4>1. \/ call' = [call EXCEPT ![a] = NoCall]
            \/ call' = [call EXCEPT ![a].at = "sleep", ![a].wake = clock + wait]
        BY <1>7 DEF Sleep, wait
      <4>2. CASE call' = [call EXCEPT ![a] = NoCall]
        BY <4>2 DEF NoCall
      <4>3. CASE call' = [call EXCEPT ![a].at = "sleep", ![a].wake = clock + wait]
        <5>1. clock + wait \in Int
          BY <2>3
        <5> QED BY <4>3, <5>1
      <4> QED BY <4>1, <4>2, <4>3
    <3> QED BY <1>7, <3>1 DEF Sleep
  <2> QED BY <1>7, <2>4, OtherStep DEF Sleep
<1>8. ASSUME NEW a \in Agent, Awake(a) PROVE QpsInv'
  BY <1>8, OtherStep DEF Awake
<1>9. CASE UNCHANGED qpsVars
  BY <1>9, OtherStep DEF qpsVars
<1> QED
  BY <1>1, <1>2, <1>3, <1>4, <1>5, <1>6, <1>7, <1>8, <1>9 DEF QpsNext

(* Whatever order agents get the lock in, no stretch of grants is longer   *)
(* than a full bucket and its duration pay for.                            *)
THEOREM BurstBounded == QpsSpec => []BurstBound
<1>1. QpsInv => BurstBound
  BY DEF QpsInv
<1> QED BY <1>1, QpsStarts, QpsSteps, PTL DEF QpsSpec

-----------------------------------------------------------------------------
(* Calls and slots.                                                        *)

CallLabel == {"idle", "skipped", "limit", "running", "returned", "raised", "done"}

UserLabel == {"idle", "check", "wait", "expired", "holding"}

Everyone == Call \cup User

Places == [Everyone -> CallLabel \cup UserLabel]

CallType ==
  /\ setup \in [slots : Nat, named : BOOLEAN, parallel_num : Nat, mayFail : BOOLEAN]
  /\ phase \in Places
  /\ \A a \in Call : phase[a] \in CallLabel
  /\ \A u \in User : phase[u] \in UserLabel
  /\ running_task_num \in Nat /\ free \in Nat /\ lost \in Nat /\ failed \in Nat
  /\ asleep \subseteq User

(* The sleepers of the condition are the agents in its wait. *)
AsleepExact == \A u \in User : /\ phase[u] = "wait" => u \in asleep
                               /\ u \in asleep => phase[u] \in {"wait", "expired"}

(* The agents that will look at the slots and that no notify can choose    *)
(* any more.                                                               *)
Answers(f, sleepers) ==
  {u \in Everyone : f[u] = "check" \/ (f[u] = "expired" /\ u \notin sleepers)}

Looking(f, sleepers) == Cardinality(Answers(f, sleepers))

Answered ==
  (\E u \in User : phase[u] = "wait") => free <= Looking(phase, asleep)

Entered == parallel_num > 0 => running_task_num <= parallel_num + 1

One(x, S) == IF x \in S THEN 1 ELSE 0

ActiveLabels == {"limit", "running"}

HeldLabels == {"running", "returned", "holding"}

Count(f, labels) == Cardinality({a \in Everyone : f[a] \in labels})

Active(f) == Count(f, ActiveLabels)

Held(f) == Count(f, HeldLabels)

(* CountsExact in these terms. *)
Counted ==
  /\ running_task_num = Active(phase) + failed
  /\ free + Held(phase) + lost = setup.slots

CallInv == CallType /\ Counted /\ AsleepExact /\ Answered /\ Entered

(* Calls and agents are finitely many. *)
LEMMA EveryoneFinite == IsFiniteSet(Everyone)
BY CallAssumption, FS_Union DEF Everyone

(* A set of agents that changes by one agent. *)
LEMMA OneAgent ==
  ASSUME NEW S \in SUBSET Everyone, NEW T \in SUBSET Everyone, NEW a \in Everyone,
         \A b \in Everyone \ {a} : b \in S <=> b \in T
  PROVE  /\ Cardinality(S) \in Nat /\ Cardinality(T) \in Nat
         /\ Cardinality(T) = Cardinality(S) - One(a, S)
                                             + One(a, T)
<1>1. IsFiniteSet(S) /\ IsFiniteSet(T)
  BY EveryoneFinite, FS_Subset
<1>2. Cardinality(S) \in Nat /\ Cardinality(T) \in Nat
  BY <1>1, FS_CardinalityType
<1>3. CASE (a \in S) = (a \in T)
  <2>1. S = T
    BY <1>3
  <2> QED BY <2>1, <1>2 DEF One
<1>4. CASE a \in S /\ a \notin T
  <2>1. T = S \ {a}
    BY <1>4
  <2>2. Cardinality(S \ {a}) = Cardinality(S) - 1
    BY <1>1, <1>4, FS_RemoveElement
  <2> QED BY <2>1, <2>2, <1>2, <1>4 DEF One
<1>5. CASE a \notin S /\ a \in T
  <2>1. T = S \cup {a}
    BY <1>5
  <2>2. Cardinality(S \cup {a}) = Cardinality(S) + 1
    BY <1>1, <1>5, FS_AddElement
  <2> QED BY <2>1, <2>2, <1>2, <1>5 DEF One
<1> QED BY <1>3, <1>4, <1>5

(* One agent moves. *)
LEMMA CountMove ==
  ASSUME NEW f \in Places, NEW g \in Places, NEW a \in Everyone, NEW labels,
         \A b \in Everyone \ {a} : g[b] = f[b]
  PROVE  /\ Count(f, labels) \in Nat /\ Count(g, labels) \in Nat
         /\ Count(g, labels) = Count(f, labels) - One(f[a], labels)
                                                 + One(g[a], labels)
<1> DEFINE S == {b \in Everyone : f[b] \in labels}
           T == {b \in Everyone : g[b] \in labels}
<1>1. S \in SUBSET Everyone /\ T \in SUBSET Everyone
  OBVIOUS
<1>2. \A b \in Everyone \ {a} : b \in S <=> b \in T
  OBVIOUS
<1>3. (a \in S <=> f[a] \in labels) /\ (a \in T <=> g[a] \in labels)
  OBVIOUS
<1>6. One(a, S) = One(f[a], labels) /\ One(a, T) = One(g[a], labels)
  BY <1>3 DEF One
<1> HIDE DEF S, T
<1>4. /\ Cardinality(S) \in Nat /\ Cardinality(T) \in Nat
      /\ Cardinality(T) = Cardinality(S) - One(a, S)
                                          + One(a, T)
  BY <1>1, <1>2, OneAgent
<1>5. Cardinality(S) = Count(f, labels) /\ Cardinality(T) = Count(g, labels)
  BY DEF S, T, Count
<1> QED BY <1>4, <1>5, <1>6

(* What the move of one agent a from f to g does to the counts. *)
LEMMA MoveActive ==
  ASSUME NEW f \in Places, NEW g \in Places, NEW a \in Everyone,
         \A b \in Everyone \ {a} : g[b] = f[b]
  PROVE  /\ Active(f) \in Nat /\ Active(g) \in Nat
         /\ Active(g) = Active(f) - One(f[a], ActiveLabels) + One(g[a], ActiveLabels)
<1> DEFINE L == ActiveLabels
<1> HIDE DEF L
<1>1. /\ Count(f, L) \in Nat /\ Count(g, L) \in Nat
      /\ Count(g, L) = Count(f, L) - One(f[a], L) + One(g[a], L)
  BY CountMove
<1> QED BY <1>1 DEF L, Active

(* The same for the slots. *)
LEMMA MoveHeld ==
  ASSUME NEW f \in Places, NEW g \in Places, NEW a \in Everyone,
         \A b \in Everyone \ {a} : g[b] = f[b]
  PROVE  /\ Held(f) \in Nat /\ Held(g) \in Nat
         /\ Held(g) = Held(f) - One(f[a], HeldLabels) + One(g[a], HeldLabels)
<1> DEFINE L == HeldLabels
<1> HIDE DEF L
<1>1. /\ Count(f, L) \in Nat /\ Count(g, L) \in Nat
      /\ Count(g, L) = Count(f, L) - One(f[a], L) + One(g[a], L)
  BY CountMove
<1> QED BY <1>1 DEF L, Held

(* The same for those that look, with the sleepers s before and t after. *)
LEMMA MoveLooking ==
  ASSUME NEW f \in Places, NEW g \in Places, NEW s, NEW t, NEW a \in Everyone,
         \A b \in Everyone \ {a} : g[b] = f[b] /\ (b \in s <=> b \in t)
  PROVE  /\ Looking(f, s) \in Nat /\ Looking(g, t) \in Nat
         /\ Looking(g, t) = Looking(f, s) - One(a, Answers(f, s)) + One(a, Answers(g, t))
<1>1. Answers(f, s) \in SUBSET Everyone /\ Answers(g, t) \in SUBSET Everyone
  BY DEF Answers
<1>2. \A b \in Everyone \ {a} : b \in Answers(f, s) <=> b \in Answers(g, t)
  BY DEF Answers
<1> QED BY <1>1, <1>2, OneAgent DEF Looking

(* The moves that do not notify: one agent a changes its place. *)
Moves(a) ==
  /\ UNCHANGED setup
  /\ phase' \in Places
  /\ \A b \in Everyone \ {a} : phase'[b] = phase[b] /\ (b \in asleep' <=> b \in asleep)
  /\ a \in Call => phase'[a] \in CallLabel
  /\ a \in User => phase'[a] \in UserLabel
  /\ asleep' \subseteq User

(* The numbers change as the counts of the labels change. *)
Accounted(a) ==
  /\ lost' \in Nat /\ failed' \in Nat /\ free' \in Nat /\ running_task_num' \in Int
  /\ running_task_num' - failed' =
       running_task_num - failed - One(phase[a], ActiveLabels) + One(phase'[a], ActiveLabels)
  /\ free' + lost' = free + lost + One(phase[a], HeldLabels) - One(phase'[a], HeldLabels)

(* A move that accounts for itself keeps the type and the counts. *)
LEMMA MoveKeeps ==
  ASSUME CallType, Counted, NEW a \in Everyone, Moves(a), Accounted(a)
  PROVE  CallType' /\ Counted'
<1> DEFINE r == One(phase[a], ActiveLabels)
           rp == One(phase'[a], ActiveLabels)
           h == One(phase[a], HeldLabels)
           hp == One(phase'[a], HeldLabels)
<1>0. r \in Int /\ rp \in Int /\ h \in Int /\ hp \in Int
  BY DEF One
<1>1. /\ Active(phase) \in Nat /\ Held(phase) \in Nat /\ Active(phase') \in Nat /\ Held(phase') \in Nat
      /\ Active(phase') = Active(phase) - r + rp
      /\ Held(phase') = Held(phase) - h + hp
  <2>1. \A b \in Everyone \ {a} : phase'[b] = phase[b]
    BY DEF Moves
  <2>2. phase \in Places /\ phase' \in Places
    BY DEF CallType, Moves
  <2>3. /\ Active(phase) \in Nat /\ Active(phase') \in Nat
        /\ Active(phase') = Active(phase) - r + rp
    BY <2>1, <2>2, MoveActive
  <2>4. /\ Held(phase) \in Nat /\ Held(phase') \in Nat
        /\ Held(phase') = Held(phase) - h + hp
    BY <2>1, <2>2, MoveHeld
  <2> QED BY <2>3, <2>4
<1>a. /\ running_task_num' - failed' = running_task_num - failed - r + rp
      /\ free' + lost' = free + lost + h - hp
  BY DEF Accounted
<1>b. lost' \in Nat /\ failed' \in Nat /\ free' \in Nat /\ running_task_num' \in Int
  BY DEF Accounted
<1> HIDE DEF r, rp, h, hp
<1>2. Counted'
  <2>1. running_task_num' = Active(phase') + failed'
    BY <1>0, <1>a, <1>b, <1>1 DEF Counted, CallType
  <2>2. free' + Held(phase') + lost' = setup'.slots
    <3>1. setup' = setup /\ free + Held(phase) + lost = setup.slots
      BY DEF Moves, Counted
    <3>2. free \in Nat /\ lost \in Nat
      BY DEF CallType
    <3>3. (free' + lost') + Held(phase') = (free + lost) + Held(phase)
      <4> DEFINE F == free + lost
                 Fp == free' + lost'
      <4>1. F \in Int /\ Fp \in Int
        BY <3>2, <1>b
      <4>2. Fp = F + h - hp
        BY <1>a
      <4> HIDE DEF F, Fp
      <4>3. Fp + Held(phase') = F + Held(phase)
        BY <4>1, <4>2, <1>0, <1>1
      <4> QED BY <4>3 DEF F, Fp
    <3>4. /\ (free' + lost') + Held(phase') = free' + Held(phase') + lost'
          /\ (free + lost) + Held(phase) = free + Held(phase) + lost
      BY <3>2, <1>1, <1>b
    <3> QED BY <3>1, <3>3, <3>4
  <2> QED BY <2>1, <2>2 DEF Counted
<1>3. running_task_num' \in Nat
  BY <1>1, <1>2, <1>b DEF Counted
<1>4. \A b \in Call : phase'[b] \in CallLabel
  BY DEF Moves, CallType, Everyone
<1>5. \A b \in User : phase'[b] \in UserLabel
  BY DEF Moves, CallType, Everyone
<1> QED BY <1>2, <1>3, <1>4, <1>5, <1>b DEF CallType, Moves

(* The steps of a call before its release leave the sleepers alone. *)
LEMMA CallMoves ==
  ASSUME CallInv, NEW a \in Call, UNCHANGED setup,
         Skip(a) \/ Enter(a) \/ Run(a) \/ Throttle(a) \/ Return(a) \/ Raise(a)
  PROVE  CallInv'
<1> USE DEF CallInv
<1>1. a \in Everyone /\ a \notin User /\ \A u \in User : u \in Everyone
  BY CallAssumption DEF Everyone
<1>2. Moves(a) /\ asleep' = asleep
  BY <1>1 DEF Skip, Enter, Run, Throttle, Return, Raise, To, CallType, CallLabel, UserLabel, Places, Moves
<1>3. CallType' /\ Counted'
  BY <1>1, <1>2, MoveKeeps DEF Accounted, One, ActiveLabels, HeldLabels, Skip, Enter, Run, Throttle, Return, Raise, To, CallType, Places
<1>4. Looking(phase', asleep') = Looking(phase, asleep) /\ Looking(phase, asleep) \in Nat
  <2>1. a \notin Answers(phase, asleep) /\ a \notin Answers(phase', asleep')
    BY <1>2, <1>3 DEF Answers, CallType, CallLabel
  <2>2. /\ phase \in Places /\ phase' \in Places
        /\ \A b \in Everyone \ {a} :
             phase'[b] = phase[b] /\ (b \in asleep <=> b \in asleep')
    BY <1>2 DEF CallType, Moves
  <2>3. /\ Looking(phase, asleep) \in Nat
        /\ Looking(phase', asleep') = Looking(phase, asleep)
                                     - One(a, Answers(phase, asleep))
                                     + One(a, Answers(phase', asleep'))
    BY <1>1, <2>2, MoveLooking
  <2> QED BY <2>1, <2>3 DEF One
<1>5. AsleepExact'
  BY <1>1, <1>2 DEF AsleepExact, Moves
<1>6. Answered'
  <2>1. \A u \in User : phase'[u] = phase[u]
    BY <1>1, <1>2 DEF Moves
  <2>2. free' <= free
    BY DEF Skip, Enter, Run, Throttle, Return, Raise, CallType
  <2> QED BY <1>3, <1>4, <2>1, <2>2 DEF Answered, CallType
<1>7. Entered'
  <2>1. CASE Enter(a)
    BY <2>1, <1>2 DEF Enter, Skips, Entered, parallel_num, CallType
  <2>2. CASE ~Enter(a)
    BY <2>2, <1>2 DEF Skip, Run, Throttle, Return, Raise, Entered, parallel_num, CallType
  <2> QED BY <2>1, <2>2
<1> QED BY <1>3, <1>5, <1>6, <1>7

(* The steps of another agent before its release. *)
LEMMA UserMoves ==
  ASSUME CallInv, NEW u \in User, UNCHANGED setup,
         Acquire(u) \/ Take(u) \/ Wait(u) \/ Expire(u) \/ TimedOut(u) \/ Cancel(u)
  PROVE  CallInv'
<1> USE DEF CallInv
<1>1. u \in Everyone /\ u \notin Call /\ \A v \in User : v \in Everyone
  BY CallAssumption DEF Everyone
<1>2. Moves(u)
  BY <1>1 DEF Acquire, Take, Wait, Expire, TimedOut, Cancel, To, CallType, CallLabel, UserLabel, Places, Moves
<1>3. CallType' /\ Counted'
  BY <1>1, <1>2, MoveKeeps DEF Accounted, One, ActiveLabels, HeldLabels, Acquire, Take, Wait, Expire, TimedOut, Cancel, To, CallType, Places
<1>4. AsleepExact'
  BY <1>1, <1>2 DEF AsleepExact, Moves, Acquire, Take, Wait, Expire, TimedOut, Cancel, To, CallType, Places
<1>5. /\ Looking(phase, asleep) \in Nat /\ Looking(phase', asleep') \in Nat
      /\ Looking(phase', asleep') = Looking(phase, asleep)
                                   - One(u, Answers(phase, asleep))
                                   + One(u, Answers(phase', asleep'))
  <2>1. /\ phase \in Places /\ phase' \in Places
        /\ \A b \in Everyone \ {u} :
             phase'[b] = phase[b] /\ (b \in asleep <=> b \in asleep')
    BY <1>2 DEF CallType, Moves
  <2> QED BY <1>1, <2>1, MoveLooking
<1>6. Answered'
  <2>1. CASE free' = 0
    BY <2>1, <1>5 DEF One, Answered
  <2>2. CASE Take(u)
    <3>1. free' = free - 1 /\ phase'[u] # "wait"
      BY <2>2, <1>1 DEF Take, To, CallType, Places
    <3> QED BY <3>1, <1>1, <1>2, <1>5 DEF One, Answered, Moves, CallType
  <2>3. CASE Expire(u)
    <3>1. u \notin Answers(phase, asleep) /\ free' = free /\ phase[u] = "wait"
      BY <2>3 DEF Expire, Answers
    <3> QED BY <3>1, <1>5 DEF One, Answered, CallType
  <2>4. CASE Acquire(u) \/ Cancel(u)
    <3>1. /\ free' = free /\ (phase'[u] = "wait" => phase[u] = "wait")
          /\ u \in Answers(phase, asleep) => u \in Answers(phase', asleep')
      BY <2>4, <1>1 DEF Acquire, Cancel, To, CallType, Places, Answers
    <3> QED BY <3>1, <1>1, <1>2, <1>5 DEF One, Answered, Moves, CallType
  <2> QED BY <2>1, <2>2, <2>3, <2>4 DEF Wait, TimedOut
<1>7. Entered'
  BY <1>2 DEF Acquire, Take, Wait, Expire, TimedOut, Cancel, Entered, parallel_num
<1> QED BY <1>3, <1>4, <1>6, <1>7

(* A release gives a slot back and lets a notify choose an agent.  First   *)
(* the agent a moves, then the chosen one.                                 *)
LEMMA Released ==
  ASSUME CallInv, NEW a \in Everyone, NEW label,
         a \in Call => label \in CallLabel, a \in User => label \in UserLabel,
         phase[a] \in {"returned", "holding"}, label \in {"done", "idle"},
         Notify([phase EXCEPT ![a] = label]), free' = free + 1,
         UNCHANGED <<setup, running_task_num, lost, failed>>
  PROVE  CallInv'
<1> USE DEF CallInv
<1> DEFINE f == [phase EXCEPT ![a] = label]
<1>1. /\ f \in Places /\ f[a] = label /\ \A b \in Everyone \ {a} : f[b] = phase[b]
      /\ \A c \in Call : f[c] \in CallLabel
      /\ \A u \in User : f[u] \in UserLabel
      /\ a \notin asleep
  BY DEF CallType, Places, CallLabel, UserLabel, Everyone, AsleepExact
<1>2. /\ Active(f) = Active(phase) /\ Held(f) = Held(phase) - 1
      /\ Looking(f, asleep) = Looking(phase, asleep)
      /\ Active(phase) \in Nat /\ Held(f) \in Nat /\ Looking(phase, asleep) \in Nat /\ Held(phase) \in Nat
  <2> HIDE DEF f
  <2>1. /\ Active(phase) \in Nat /\ Held(phase) \in Nat /\ Looking(phase, asleep) \in Nat
        /\ Active(f) \in Nat /\ Held(f) \in Nat /\ Looking(f, asleep) \in Nat
        /\ Active(f) = Active(phase) - One(phase[a], ActiveLabels) + One(f[a], ActiveLabels)
        /\ Held(f) = Held(phase) - One(phase[a], HeldLabels) + One(f[a], HeldLabels)
        /\ Looking(f, asleep) = Looking(phase, asleep) - One(a, Answers(phase, asleep))
                                                    + One(a, Answers(f, asleep))
    <3>1. phase \in Places /\ f \in Places /\ \A b \in Everyone \ {a} : f[b] = phase[b]
      BY <1>1 DEF CallType
    <3>2. /\ Active(phase) \in Nat /\ Active(f) \in Nat
          /\ Active(f) = Active(phase) - One(phase[a], ActiveLabels) + One(f[a], ActiveLabels)
      BY <1>1, <3>1, MoveActive
    <3>3. /\ Held(phase) \in Nat /\ Held(f) \in Nat
          /\ Held(f) = Held(phase) - One(phase[a], HeldLabels) + One(f[a], HeldLabels)
      BY <1>1, <3>1, MoveHeld
    <3>4. /\ Looking(phase, asleep) \in Nat /\ Looking(f, asleep) \in Nat
          /\ Looking(f, asleep) = Looking(phase, asleep) - One(a, Answers(phase, asleep))
                                                         + One(a, Answers(f, asleep))
      <4>1. Answers(phase, asleep) \in SUBSET Everyone /\ Answers(f, asleep) \in SUBSET Everyone
        BY DEF Answers
      <4>2. \A b \in Everyone \ {a} : b \in Answers(phase, asleep) <=> b \in Answers(f, asleep)
        BY <3>1 DEF Answers
      <4> QED BY <4>1, <4>2, OneAgent DEF Looking
    <3> QED BY <3>2, <3>3, <3>4
  <2>2. One(phase[a], ActiveLabels) = 0 /\ One(f[a], ActiveLabels) = 0
    BY <1>1 DEF One, ActiveLabels
  <2>3. One(phase[a], HeldLabels) = 1 /\ One(f[a], HeldLabels) = 0
    BY <1>1 DEF One, HeldLabels
  <2>4. One(a, Answers(phase, asleep)) = 0 /\ One(a, Answers(f, asleep)) = 0
    BY <1>1 DEF One, Answers
  <2> QED BY <2>1, <2>2, <2>3, <2>4
<1>3. CASE asleep = {} /\ phase' = f /\ UNCHANGED asleep
  <2>1. CallType'
    BY <1>1, <1>3 DEF CallType
  <2>2. Counted'
    BY <1>2, <1>3 DEF Counted, CallType
  <2>3. AsleepExact'
    BY <1>1, <1>3 DEF AsleepExact, Everyone
  <2>4. Answered'
    BY <2>3, <1>3 DEF Answered, AsleepExact
  <2>5. Entered'
    BY DEF Entered, parallel_num
  <2> QED BY <2>1, <2>2, <2>3, <2>4, <2>5
<1>4. ASSUME NEW u \in asleep,
             phase' = [f EXCEPT ![u] = IF @ = "wait" THEN "check" ELSE @],
             asleep' = asleep \ {u}
      PROVE  CallInv'
  <2>1. /\ u \in User /\ u \in Everyone /\ u # a /\ f[u] = phase[u] /\ u \notin Call
        /\ f[u] \in {"wait", "expired"}
    BY <1>1, <1>4, CallAssumption DEF CallType, AsleepExact, Everyone
  <2>2. /\ phase' \in Places /\ phase'[u] = (IF f[u] = "wait" THEN "check" ELSE f[u])
        /\ \A b \in Everyone \ {u} : phase'[b] = f[b] /\ (b \in asleep <=> b \in asleep')
        /\ asleep' \subseteq User
    <3> HIDE DEF f
    <3> QED BY <1>1, <1>4, <2>1 DEF Places, CallLabel, UserLabel, CallType
  <2> HIDE DEF f
  <2>3. CallType'
    <3>1. \A c \in Call : phase'[c] \in CallLabel
      BY <1>1, <2>1, <2>2 DEF Everyone
    <3>2. \A v \in User : phase'[v] \in UserLabel
      BY <1>1, <2>1, <2>2 DEF Everyone, UserLabel
    <3> QED BY <2>2, <3>1, <3>2 DEF CallType
  <2>4. /\ Active(phase') = Active(f) /\ Held(phase') = Held(f)
        /\ Looking(phase', asleep') = Looking(f, asleep) + 1
    <3>1. /\ Active(phase') \in Nat /\ Held(phase') \in Nat /\ Looking(phase', asleep') \in Nat
          /\ Active(f) \in Nat /\ Held(f) \in Nat /\ Looking(f, asleep) \in Nat
          /\ Active(phase') = Active(f) - One(f[u], ActiveLabels) + One(phase'[u], ActiveLabels)
          /\ Held(phase') = Held(f) - One(f[u], HeldLabels) + One(phase'[u], HeldLabels)
          /\ Looking(phase', asleep') = Looking(f, asleep) - One(u, Answers(f, asleep))
                                                        + One(u, Answers(phase', asleep'))
      <4>1. /\ f \in Places /\ phase' \in Places /\ u \in Everyone
            /\ \A b \in Everyone \ {u} :
                 phase'[b] = f[b] /\ (b \in asleep <=> b \in asleep')
        BY <1>1, <2>1, <2>2
      <4>2. /\ Active(phase') \in Nat /\ Active(f) \in Nat
            /\ Active(phase') = Active(f) - One(f[u], ActiveLabels) + One(phase'[u], ActiveLabels)
        BY <4>1, MoveActive
      <4>3. /\ Held(phase') \in Nat /\ Held(f) \in Nat
            /\ Held(phase') = Held(f) - One(f[u], HeldLabels) + One(phase'[u], HeldLabels)
        BY <4>1, MoveHeld
      <4>4. /\ Looking(phase', asleep') \in Nat /\ Looking(f, asleep) \in Nat
            /\ Looking(phase', asleep') = Looking(f, asleep) - One(u, Answers(f, asleep))
                                                          + One(u, Answers(phase', asleep'))
        BY <4>1, MoveLooking
      <4> QED BY <4>2, <4>3, <4>4
    <3>2. One(f[u], ActiveLabels) = 0 /\ One(phase'[u], ActiveLabels) = 0
      BY <2>1, <2>2 DEF One, ActiveLabels
    <3>3. One(f[u], HeldLabels) = 0 /\ One(phase'[u], HeldLabels) = 0
      BY <2>1, <2>2 DEF One, HeldLabels
    <3>4. One(u, Answers(f, asleep)) = 0 /\ One(u, Answers(phase', asleep')) = 1
      BY <2>1, <2>2, <1>4 DEF One, Answers
    <3> QED BY <3>1, <3>2, <3>3, <3>4
  <2>5. Counted'
    BY <1>2, <2>4 DEF Counted, CallType
  <2>6. AsleepExact'
    BY <1>1, <2>1, <2>2, <1>4 DEF AsleepExact, Everyone
  <2>7. Answered'
    <3>1. ASSUME NEW v \in User, phase'[v] = "wait" PROVE phase[v] = "wait"
      BY <3>1, <1>1, <2>1, <2>2 DEF Everyone
    <3>2. (\E v \in User : phase'[v] = "wait") => free <= Looking(phase, asleep)
      BY <3>1 DEF Answered
    <3>3. free \in Nat
      BY DEF CallType
    <3> QED BY <3>2, <3>3, <1>2, <2>4 DEF Answered
  <2>8. Entered'
    BY DEF Entered, parallel_num
  <2> QED BY <2>3, <2>5, <2>6, <2>7, <2>8
<1> QED BY <1>3, <1>4 DEF Notify

(* Every step keeps the invariant. *)
LEMMA CallSteps == CallInv /\ [CallNext]_callVars => CallInv'
<1> SUFFICES ASSUME CallInv, [CallNext]_callVars PROVE CallInv'
  OBVIOUS
<1>1. CASE UNCHANGED callVars
  BY <1>1 DEF callVars, CallInv, CallType, Counted, AsleepExact, Answered, Entered, parallel_num
<1>2. ASSUME NEW a \in Call, ReleaseCall(a), UNCHANGED setup PROVE CallInv'
  <2>1. a \in Everyone /\ a \notin User /\ phase[a] = "returned"
    BY <1>2, CallAssumption DEF Everyone, ReleaseCall
  <2>2. CASE setup.named
    <3> USE DEF CallInv
    <3>1. Moves(a) /\ asleep' = asleep /\ phase'[a] = "done"
      BY <1>2, <2>1, <2>2 DEF ReleaseCall, To, Moves, CallType, Places, CallLabel, UserLabel
    <3>2. CallType' /\ Counted'
      <4>1. /\ One(phase[a], ActiveLabels) = 0 /\ One(phase'[a], ActiveLabels) = 0
            /\ One(phase[a], HeldLabels) = 1 /\ One(phase'[a], HeldLabels) = 0
        BY <2>1, <3>1 DEF One, ActiveLabels, HeldLabels
      <4>2. /\ lost' = lost + 1 /\ free' = free /\ failed' = failed
            /\ running_task_num' = running_task_num
        BY <1>2, <2>2 DEF ReleaseCall
      <4> QED BY <2>1, <3>1, <4>1, <4>2, MoveKeeps DEF Accounted, CallType
    <3>3. Looking(phase', asleep') = Looking(phase, asleep)
      <4>1. One(a, Answers(phase, asleep)) = 0 /\ One(a, Answers(phase', asleep')) = 0
        BY <2>1, <3>1 DEF Answers, One
      <4>2. /\ phase \in Places /\ phase' \in Places
            /\ \A b \in Everyone \ {a} :
                 phase'[b] = phase[b] /\ (b \in asleep <=> b \in asleep')
        BY <3>1 DEF Moves, CallType
      <4> QED BY <4>1, <4>2, <2>1, MoveLooking
    <3>4. \A u \in User : phase'[u] = phase[u]
      BY <2>1, <3>1 DEF Moves, Everyone
    <3>5. AsleepExact' /\ Answered' /\ Entered'
      BY <1>2, <2>2, <3>1, <3>3, <3>4
         DEF ReleaseCall, AsleepExact, Answered, Entered, parallel_num
    <3> QED BY <3>2, <3>5
  <2>3. CASE ~setup.named
    BY <1>2, <2>1, <2>3, Released DEF ReleaseCall, CallLabel
  <2> QED BY <2>2, <2>3
<1>3. ASSUME NEW u \in User, Release(u), UNCHANGED setup PROVE CallInv'
  <2>1. u \in Everyone /\ u \notin Call
    BY CallAssumption DEF Everyone
  <2> QED BY <1>3, <2>1, Released DEF Release, UserLabel
<1> QED BY <1>1, <1>2, <1>3, CallMoves, UserMoves DEF CallNext

(* The limiter starts with all its slots and nobody in it. *)
LEMMA CallStarts == CallInit => CallInv
<1> SUFFICES ASSUME CallInit PROVE CallInv
  OBVIOUS
<1>1. CallType
  BY CallAssumption DEF CallInit, CallType, Places, Everyone, CallLabel, UserLabel
<1>2. phase \in Places /\ \A a \in Everyone : phase[a] = "idle"
  BY <1>1 DEF CallInit, CallType, Everyone
<1>3. Active(phase) = 0 /\ Held(phase) = 0
  <2>1. /\ {a \in Everyone : phase[a] \in ActiveLabels} = {}
        /\ {a \in Everyone : phase[a] \in HeldLabels} = {}
    BY <1>2 DEF ActiveLabels, HeldLabels
  <2> QED BY <2>1, FS_EmptySet DEF Active, Held, Count
<1>4. Counted
  BY <1>1, <1>3 DEF CallInit, Counted, CallType
<1>5. AsleepExact /\ Answered /\ Entered
  BY <1>1, <1>2 DEF CallInit, AsleepExact, Answered, Entered, Everyone, parallel_num, CallType
<1> QED BY <1>1, <1>4, <1>5 DEF CallInv

(* CountsExact speaks of the same counts. *)
LEMMA CountsAre == CountsExact <=> Counted
<1>1. /\ In(ActiveLabels) = {a \in Everyone : phase[a] \in ActiveLabels}
      /\ In(HeldLabels) = {a \in Everyone : phase[a] \in HeldLabels}
  BY DEF In, Everyone
<1> QED BY <1>1 DEF CountsExact, Counted, Active, Held, Count, ActiveLabels, HeldLabels

(* In every execution of call_before, call_after, acquire, release, with   *)
(* any number of calls, agents and slots, the counters of the task and of  *)
(* the limiter say what the agents do.                                     *)
THEOREM CountsAreExact == CallSpec => []CountsExact
<1>1. CallInv => CountsExact
  BY CountsAre DEF CallInv
<1> QED BY <1>1, CallStarts, CallSteps, PTL DEF CallSpec

(* By how much the maximum of TaskConfig.parallel_num is missed: the       *)
(* parallel control of call_before never lets more than parallel_num + 1   *)
(* executions run, whatever fails and however they interleave.             *)
THEOREM ParallelBounded == CallSpec => []ParallelBound
<1>1. CallInv => ParallelBound
  <2> SUFFICES ASSUME CallInv, parallel_num > 0
               PROVE  Cardinality(In({"running"})) <= parallel_num + 1
    BY DEF ParallelBound
  <2> USE DEF CallInv
  <2> DEFINE R == In({"running"})
             A == {a \in Everyone : phase[a] \in ActiveLabels}
  <2>1. R \subseteq A /\ A \subseteq Everyone
    BY DEF In, ActiveLabels, Everyone
  <2>2. Cardinality(R) <= Cardinality(A) /\ Cardinality(R) \in Nat /\ Cardinality(A) \in Nat
    BY <2>1, EveryoneFinite, FS_Subset, FS_CardinalityType
  <2>3. running_task_num = Cardinality(A) + failed /\ failed \in Nat
    BY DEF Counted, Active, Count, CallType
  <2>4. running_task_num <= parallel_num + 1 /\ parallel_num \in Nat
    BY DEF Entered, parallel_num, CallType
  <2> HIDE DEF R, A
  <2>5. Cardinality(R) <= parallel_num + 1
    BY <2>2, <2>3, <2>4
  <2> QED BY <2>5 DEF R
<1> QED BY <1>1, CallStarts, CallSteps, PTL DEF CallSpec

(* No wakeup of the limiter's condition is lost, also when a notify is     *)
(* spent on an agent whose wait has timed out.                             *)
THEOREM NoWakeupLost == CallSpec => []SleepersCovered
<1>1. CallInv => SleepersCovered
  <2> SUFFICES ASSUME CallInv, In({"wait"}) # {}
               PROVE  free <= Cardinality(In({"check", "expired"}))
    BY DEF SleepersCovered
  <2> USE DEF CallInv
  <2> DEFINE A == Answers(phase, asleep)
             E == In({"check", "expired"})
  <2>1. A \subseteq E /\ E \subseteq Everyone
    BY DEF Answers, In, Everyone
  <2>2. Cardinality(A) <= Cardinality(E) /\ Cardinality(A) \in Nat /\ Cardinality(E) \in Nat
    BY <2>1, EveryoneFinite, FS_Subset, FS_CardinalityType
  <2>3. \E u \in User : phase[u] = "wait"
    BY DEF In, CallType, CallLabel
  <2>4. free <= Cardinality(A) /\ free \in Nat
    BY <2>3 DEF Answered, Looking, CallType
  <2> HIDE DEF A, E
  <2>5. free <= Cardinality(E)
    BY <2>2, <2>4
  <2> QED BY <2>5 DEF E
<1> QED BY <1>1, CallStarts, CallSteps, PTL DEF CallSpec

-----------------------------------------------------------------------------
(* Fixed windows.                                                          *)

(* The calls that the current window has let through. *)
Through == IF window > calls THEN calls ELSE window

WindowType ==
  /\ instant \in Nat /\ last_refill \in Nat /\ window \in Nat
  /\ allowed \in Seq(Nat)

(* Calls let through before the current window came before its start, and  *)
(* those of the windows before the previous one more than a period before. *)
Windows ==
  /\ last_refill <= instant
  /\ \A k \in 1 .. Len(allowed) :
       /\ allowed[k] < last_refill + period
       /\ k <= Len(allowed) - Through => allowed[k] < last_refill
       /\ k <= Len(allowed) - Through - calls => allowed[k] + period < last_refill

WindowInv == WindowType /\ Windows /\ TwoWindows

(* The first window starts at time 0, with no call let through. *)
LEMMA WindowStarts == WindowInit => WindowInv
BY WindowAssumption DEF WindowInit, WindowInv, WindowType, Windows, TwoWindows

(* A call is let through: in the window that is open, or as the first of a *)
(* new one.                                                                *)
LEMMA WindowLets ==
  ASSUME WindowInv, UNCHANGED instant,
         window' = (IF Over THEN 0 ELSE window) + 1, window' <= calls,
         last_refill' = IF Over THEN instant ELSE last_refill,
         allowed' = Append(allowed, instant)
  PROVE  WindowInv'
<1> USE DEF WindowInv
<1> DEFINE n == Len(allowed)
<1>1. /\ n \in Nat /\ Len(allowed') = n + 1 /\ allowed'[n + 1] = instant
      /\ \A k \in 1 .. n : allowed'[k] = allowed[k] /\ allowed[k] \in Nat
      /\ allowed' \in Seq(Nat)
  BY DEF WindowType
<1>2. /\ calls \in Nat /\ calls > 0 /\ period \in Nat /\ period > 0 /\ instant \in Nat
      /\ last_refill \in Nat /\ window \in Nat /\ window' \in Nat
  BY WindowAssumption DEF WindowType
<1>3. Through' = window' /\ Through \in Nat /\ Through <= calls
  BY <1>2 DEF Through
<1>4. last_refill' <= instant /\ instant < last_refill' + period
  BY <1>2 DEF Over, Windows
<1>5. ASSUME NEW k \in 1 .. n
      PROVE  /\ allowed[k] < last_refill' + period
             /\ k <= (n + 1) - window' => allowed[k] < last_refill'
             /\ k <= (n + 1) - window' - calls => allowed[k] + period < last_refill'
  <2>1. /\ allowed[k] < last_refill + period
        /\ k <= n - Through => allowed[k] < last_refill
        /\ k <= n - Through - calls => allowed[k] + period < last_refill
    BY DEF Windows
  <2>2. CASE Over
    <3>1. window' = 1 /\ last_refill' = instant /\ instant >= last_refill + period
      BY <2>2, <1>2 DEF Over
    <3>2. k <= n - calls => k <= n - Through
      BY <1>1, <1>2, <1>3
    <3> HIDE DEF n
    <3> QED BY <2>1, <3>1, <3>2, <1>1, <1>2
  <2>3. CASE ~Over
    <3>1. window' = window + 1 /\ last_refill' = last_refill
      BY <2>3, <1>2
    <3>2. Through = window
      BY <3>1, <1>2 DEF Through
    <3> HIDE DEF n
    <3> QED BY <2>1, <3>1, <3>2, <1>1, <1>2
  <2> QED BY <2>2, <2>3
<1>6. Windows'
  <2>1. ASSUME NEW k \in 1 .. Len(allowed')
        PROVE  /\ allowed'[k] < last_refill' + period
               /\ k <= Len(allowed') - Through' => allowed'[k] < last_refill'
               /\ k <= Len(allowed') - Through' - calls => allowed'[k] + period < last_refill'
    <3>1. CASE k \in 1 .. n
      <4>1. Len(allowed') = n + 1 /\ Through' = window' /\ allowed'[k] = allowed[k]
        BY <3>1, <1>1, <1>3
      <4>2. /\ allowed[k] < last_refill' + period
            /\ k <= (n + 1) - window' => allowed[k] < last_refill'
            /\ k <= (n + 1) - window' - calls => allowed[k] + period < last_refill'
        BY <3>1, <1>5
      <4> HIDE DEF n
      <4> QED BY <4>1, <4>2
    <3>2. CASE k = n + 1
      <4>1. window' >= 1
        BY <1>2
      <4> HIDE DEF n
      <4> QED BY <3>2, <4>1, <1>1, <1>2, <1>3, <1>4
    <3> QED BY <3>1, <3>2, <1>1
  <2>2. last_refill' <= instant'
    BY <1>4
  <2> QED BY <2>1, <2>2 DEF Windows
<1>7. TwoWindows'
  <2> SUFFICES ASSUME NEW i \in 1 .. n + 1, i + 2 * calls <= n + 1
               PROVE  allowed'[i + 2 * calls] - allowed'[i] > period
    BY <1>1 DEF TwoWindows
  <2>1. i \in 1 .. n
    BY <1>1, <1>2
  <2>2. CASE i + 2 * calls <= n
    <3>1. allowed[i + 2 * calls] - allowed[i] > period
      BY <2>1, <2>2 DEF TwoWindows
    <3>2. i + 2 * calls \in 1 .. n
      BY <2>1, <2>2, <1>1, <1>2
    <3> QED BY <3>1, <3>2, <2>1, <1>1
  <2>3. CASE i + 2 * calls = n + 1
    <3>1. i <= (n + 1) - window' - calls
      BY <2>3, <1>1, <1>2
    <3>2. allowed[i] + period < last_refill'
      BY <2>1, <3>1, <1>5
    <3>3. allowed'[i + 2 * calls] = instant /\ allowed'[i] = allowed[i] /\ allowed[i] \in Nat
      BY <2>1, <2>3, <1>1
    <3>4. last_refill' \in Nat
      BY <1>2
    <3> QED BY <3>2, <3>3, <3>4, <1>2, <1>4
  <2>4. i + 2 * calls \in Int
    BY <2>1, <1>1, <1>2
  <2>5. i + 2 * calls <= n \/ i + 2 * calls = n + 1
    <3> DEFINE m == i + 2 * calls
    <3>1. m \in Int /\ m <= n + 1
      BY <2>4
    <3> HIDE DEF m, n
    <3>2. m <= n \/ m = n + 1
      BY <3>1, <1>1
    <3> QED BY <3>2 DEF m
  <2> QED BY <2>2, <2>3, <2>5
<1>8. WindowType'
  BY <1>1, <1>2 DEF WindowType
<1> QED BY <1>6, <1>7, <1>8

(* A call is refused: the window is full and stays open. *)
LEMMA WindowRefuses ==
  ASSUME WindowInv, UNCHANGED <<instant, allowed>>, ~Over,
         window + 1 > calls, window' = calls + 1, last_refill' = last_refill
  PROVE  WindowInv'
<1>1. Through' = Through
  BY WindowAssumption DEF Through, WindowInv, WindowType
<1>2. Windows'
  BY <1>1 DEF WindowInv, Windows
<1>3. WindowType' /\ TwoWindows'
  BY WindowAssumption DEF WindowInv, WindowType, TwoWindows
<1> QED BY <1>2, <1>3 DEF WindowInv

(* Every step of the fixed window keeps its invariant. *)
LEMMA WindowSteps == WindowInv /\ [WindowNext]_windowVars => WindowInv'
<1> SUFFICES ASSUME WindowInv, [WindowNext]_windowVars PROVE WindowInv'
  OBVIOUS
<1>1. CASE ClockTicks
  BY <1>1 DEF ClockTicks, WindowInv, WindowType, Windows, TwoWindows, Through
<1>2. ASSUME NEW t \in Thread, Cal(t) PROVE WindowInv'
  <2> DEFINE counted == (IF Over THEN 0 ELSE window) + 1
  <2>1. /\ last_refill' = (IF Over THEN instant ELSE last_refill) /\ instant' = instant
        /\ window' = (IF counted > calls THEN calls + 1 ELSE counted)
    BY <1>2 DEF Cal
  <2>2. counted \in Nat /\ calls \in Nat /\ calls > 0
    BY WindowAssumption DEF WindowInv, WindowType
  <2>3. CASE counted <= calls /\ allowed' = Append(allowed, instant)
    BY <2>1, <2>2, <2>3, WindowLets
  <2>4. CASE counted > calls /\ allowed' = allowed
    <3>1. ~Over /\ window + 1 > calls
      BY <2>2, <2>4
    <3> QED BY <2>1, <2>4, <3>1, WindowRefuses
  <2> QED BY <1>2, <2>3, <2>4 DEF Cal
<1>3. CASE UNCHANGED windowVars
  BY <1>3 DEF windowVars, WindowInv, WindowType, Windows, TwoWindows, Through
<1> QED BY <1>1, <1>2, <1>3 DEF WindowNext

(* No period of the clock sees more than 2 * calls calls of the decorated  *)
(* function, however many threads call it and whenever they retry.         *)
THEOREM TwoWindowsAtMost == WindowSpec => []TwoWindows
<1>1. WindowInv => TwoWindows
  BY DEF WindowInv
<1> QED BY <1>1, WindowStarts, WindowSteps, PTL DEF WindowSpec
=============================================================================
