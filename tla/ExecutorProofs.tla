--------------------------- MODULE ExecutorProofs ---------------------------
(***************************************************************************)
(* The batch executor, for any graph, any number of workers, any set of    *)
(* configurations and any bound on the contexts.                           *)
(***************************************************************************)
EXTENDS Executor, ContextsProofs

-----------------------------------------------------------------------------
(* The idle check.                                                         *)

Label == {"poll", "waiting", "running", "blocked", "stopped"}

LoopType ==
  /\ pc \in [Worker -> Label]
  /\ worker_idle \in [Worker -> BOOLEAN]
  /\ idle_count \in [Worker -> Nat]
  /\ DOMAIN todo = Worker /\ DOMAIN active = Worker

(* A worker with a context in hand is not idle, and only such a worker has *)
(* tasks.                                                                  *)
Busy ==
  \A w \in Worker :
    /\ pc[w] \in {"running", "blocked"} => ~worker_idle[w]
    /\ todo[w] # {} \/ active[w] # {} => pc[w] = "running"

(* While a context is queued, some worker is going to ask for one: it is   *)
(* not marked idle, and its get is not already under way.                  *)
SomeoneComes ==
  IsEmpty(queue) \/ Worker = {}
    \/ \E w \in Worker : ~worker_idle[w] /\ pc[w] # "waiting"

(* Once a worker has counted an idle check, nobody holds a context. *)
CountedMeansStuck ==
  (\E w \in Worker : idle_count[w] > 0) =>
    IsEmpty(queue) /\ \A w \in Worker : pc[w] \notin {"running", "blocked"}

IdleInv == LoopType /\ Busy /\ SomeoneComes /\ CountedMeansStuck

(* Nothing is idle when run() starts the workers. *)
LEMMA IdleStarts == Init => IdleInv
BY DEF Init, IdleInv, LoopType, Label, Busy, SomeoneComes, CountedMeansStuck

(* A step of the worker w that has tasks in hand: it stays as it is, or    *)
(* asks again, or spins.                                                   *)
LEMMA BusyStep ==
  ASSUME IdleInv, NEW w \in Worker, pc[w] = "running",
         \/ UNCHANGED <<pc, todo, active>>
         \/ /\ UNCHANGED pc
            /\ \/ todo' = todo
               \/ \E T : todo' = [todo EXCEPT ![w] = T]
            /\ \/ active' = active
               \/ \E T : active' = [active EXCEPT ![w] = T]
         \/ /\ pc' = [pc EXCEPT ![w] = "poll"] \/ pc' = [pc EXCEPT ![w] = "blocked"]
            /\ Gathered(w) /\ UNCHANGED <<todo, active>>,
         UNCHANGED <<worker_idle, idle_count>>
  PROVE  IdleInv'
<1>1. LoopType'
  BY DEF IdleInv, LoopType, Label
<1>2. Busy'
  BY DEF IdleInv, LoopType, Label, Busy, Gathered
<1>3. SomeoneComes'
  <2>1. ~worker_idle'[w] /\ pc'[w] # "waiting"
    BY DEF IdleInv, LoopType, Label, Busy
  <2>2. QED
    BY <2>1 DEF SomeoneComes
<1>4. CountedMeansStuck'
  BY DEF IdleInv, LoopType, CountedMeansStuck
<1>5. QED
  BY <1>1, <1>2, <1>3, <1>4 DEF IdleInv

(* A worker that asks for a context. *)
LEMMA FetchIdle ==
  ASSUME IdleInv, NEW w \in Worker, Fetch(w)
  PROVE  IdleInv'
<1>1. CASE Stop(w)
  BY <1>1 DEF Stop, IdleInv, LoopType, Label, Busy, SomeoneComes, CountedMeansStuck
<1>2. CASE Wait(w)
  BY <1>2 DEF Wait, IdleInv, LoopType, Label, Busy, SomeoneComes, CountedMeansStuck
<1>3. CASE SkipDestroyed(w) \/ DestroyStalled(w) \/ GetContext(w)
  <2>1. /\ pc[w] \in {"waiting", "poll"} /\ ~IsEmpty(queue)
        /\ worker_idle' = [worker_idle EXCEPT ![w] = FALSE]
        /\ UNCHANGED <<active, idle_count>>
        /\ \/ UNCHANGED todo /\ pc' = [pc EXCEPT ![w] = "poll"]
           \/ /\ \E T : todo' = [todo EXCEPT ![w] = T]
              /\ pc' = [pc EXCEPT ![w] = "running"]
    BY <1>3 DEF SkipDestroyed, DestroyStalled, GetContext, Gets
  <2>2. LoopType'
    BY <2>1 DEF IdleInv, LoopType, Label
  <2>3. Busy'
    BY <2>1 DEF IdleInv, LoopType, Label, Busy
  <2>4. SomeoneComes'
    <3>1. ~worker_idle'[w] /\ pc'[w] # "waiting"
      BY <2>1 DEF IdleInv, LoopType, Label
    <3>2. QED
      BY <3>1 DEF SomeoneComes
  <2>5. CountedMeansStuck'
    BY <2>1 DEF IdleInv, LoopType, CountedMeansStuck
  <2>6. QED
    BY <2>2, <2>3, <2>4, <2>5 DEF IdleInv
<1>4. QED
  BY <1>1, <1>2, <1>3 DEF Fetch

(* All workers idle with w, whose get is under way: then by SomeoneComes   *)
(* nothing is queued.                                                      *)
LEMMA TimeoutIdle ==
  ASSUME IdleInv, NEW w \in Worker, Timeout(w)
  PROVE  IdleInv'
<1> DEFINE idle == [worker_idle EXCEPT ![w] = TRUE]
<1>1. /\ pc[w] = "waiting" /\ worker_idle' = idle
      /\ pc' = [pc EXCEPT ![w] = "poll"] \/ pc' = [pc EXCEPT ![w] = "stopped"]
      /\ UNCHANGED <<queue, todo, active>>
      /\ \/ UNCHANGED idle_count
         \/ /\ \A v \in Worker : idle[v]
            /\ idle_count' = [idle_count EXCEPT ![w] = idle_count[w] + 1]
  BY DEF Timeout
<1>2. LoopType'
  BY <1>1 DEF IdleInv, LoopType, Label
<1>3. Busy'
  BY <1>1 DEF IdleInv, LoopType, Label, Busy
<1>4. SomeoneComes'
  <2>1. CASE IsEmpty(queue) \/ Worker = {}
    BY <1>1, <2>1 DEF SomeoneComes, IsEmpty
  <2>2. CASE ~(IsEmpty(queue) \/ Worker = {})
    <3>1. PICK v \in Worker : ~worker_idle[v] /\ pc[v] # "waiting"
      BY <2>2 DEF IdleInv, SomeoneComes
    <3>2. v # w /\ ~worker_idle'[v] /\ pc'[v] # "waiting"
      BY <3>1, <1>1 DEF IdleInv, LoopType
    <3>3. QED
      BY <3>2 DEF SomeoneComes
  <2>3. QED
    BY <2>1, <2>2
<1>5. CountedMeansStuck'
  <2>1. CASE UNCHANGED idle_count
    BY <1>1, <2>1 DEF IdleInv, LoopType, CountedMeansStuck, IsEmpty
  <2>2. CASE \A v \in Worker : idle[v]
    <3>1. \A v \in Worker : worker_idle[v] \/ v = w
      BY <2>2 DEF IdleInv, LoopType
    <3>2. IsEmpty(queue)
      BY <3>1, <1>1 DEF IdleInv, SomeoneComes
    <3>3. \A v \in Worker : pc'[v] \notin {"running", "blocked"}
      BY <3>1, <1>1 DEF IdleInv, LoopType, Busy
    <3>4. QED
      BY <3>2, <3>3, <1>1 DEF CountedMeansStuck, IsEmpty
  <2>3. QED
    BY <1>1, <2>1, <2>2
<1>6. QED
  BY <1>2, <1>3, <1>4, <1>5 DEF IdleInv

(* The end of a task's code. *)
LEMMA ExecutesIdle ==
  ASSUME IdleInv, NEW w \in Worker, NEW t, Executes(w, t) \/ RateLimited(w, t)
  PROVE  IdleInv'
<1>1. t \in active[w] /\ active' = [active EXCEPT ![w] = @ \ {t}]
  BY DEF Executes, ReturnSame, ReturnNothing, ReturnNew, ReturnBoth, ReturnChildren,
         ReturnFrozen, Route, Misroute, LoopYield, LoopExhausted, RaiseRetry, RaiseError,
         RunSink, RateLimited, Ends, Returns
<1>2. UNCHANGED <<pc, todo, worker_idle, idle_count>>
  BY DEF Executes, ReturnSame, ReturnNothing, ReturnNew, ReturnBoth, ReturnChildren,
         ReturnFrozen, Route, Misroute, LoopYield, LoopExhausted, RaiseRetry, RaiseError,
         RunSink, RateLimited, Ends, Returns
<1>3. pc[w] = "running"
  BY <1>1 DEF IdleInv, Busy
<1>4. QED
  BY <1>1, <1>2, <1>3, BusyStep

(* A task coroutine starts or finds that it must wait. *)
LEMMA StartsIdle ==
  ASSUME IdleInv, NEW w \in Worker, NEW t, NotAwake(w, t) \/ StartTask(w, t)
  PROVE  IdleInv'
<1>1. /\ pc[w] = "running"
      /\ todo' = [todo EXCEPT ![w] = @ \ {t}]
      /\ active' = active \/ active' = [active EXCEPT ![w] = @ \cup {t}]
      /\ UNCHANGED <<pc, worker_idle, idle_count>>
  BY DEF NotAwake, StartTask, MayStart, IdleInv, Busy
<1>2. QED
  BY <1>1, BusyStep

(* The second half of _worker_loop. *)
LEMMA CollectsIdle ==
  ASSUME IdleInv, NEW w \in Worker, Gather(w) \/ Spin(w)
  PROVE  IdleInv'
<1>1. /\ pc[w] = "running" /\ Gathered(w)
      /\ pc' = [pc EXCEPT ![w] = "poll"] \/ pc' = [pc EXCEPT ![w] = "blocked"]
      /\ UNCHANGED <<todo, active, worker_idle, idle_count>>
  BY DEF Gather, Spin, Gathered
<1>2. QED
  BY <1>1, BusyStep

(* Every step keeps the invariant. *)
LEMMA IdleSteps == IdleInv /\ [Next]_vars => IdleInv'
<1> SUFFICES ASSUME IdleInv, [Next]_vars PROVE IdleInv'
  OBVIOUS
<1>1. CASE UNCHANGED <<queue, pc, worker_idle, idle_count, todo, active>>
  BY <1>1 DEF IdleInv, LoopType, Busy, SomeoneComes, CountedMeansStuck, IsEmpty
<1>2. ASSUME NEW w \in Worker,
             \/ Fetch(w) \/ TimesOut(w) \/ Starts(w) \/ Throttled(w) \/ Collects(w)
             \/ \E t \in Node : Executes(w, t)
      PROVE  IdleInv'
  BY <1>2, FetchIdle, TimeoutIdle, ExecutesIdle, StartsIdle, CollectsIdle
     DEF TimesOut, Starts, Throttled, Collects
<1>3. CASE \E c \in DOMAIN ctx : \E t \in Node : AwakeTimePasses(c, t)
  BY <1>1, <1>3 DEF AwakeTimePasses
<1>4. CASE UNCHANGED vars
  BY <1>1, <1>4 DEF vars
<1>5. QED
  BY <1>2, <1>3, <1>4 DEF Next, KeepsSpinning

(* A worker of the batch executor counts an idle check only when the queue *)
(* is empty and no worker holds a context.                                 *)
THEOREM IdleChecksMeanStuck == Spec => []IdleMeansStuck
<1>1. IdleInv => IdleMeansStuck
  BY DEF IdleInv, CountedMeansStuck, IdleMeansStuck
<1>2. QED
  BY <1>1, IdleStarts, IdleSteps, PTL DEF Spec

-----------------------------------------------------------------------------
(* The runtime counter. *)

(* Masking the bypass tasks of many contexts changes no count. *)
LEMMA MaskBypassMarks ==
  ASSUME NEW cs, Shape(cs), NEW X, IsFiniteSet(X), NEW run
  PROVE  Marks(cs, MaskBypass(cs, X, run), X)
<1> DEFINE S == X
           pick(s) == CHOOSE x \in s : TRUE
           rest(s) == s \ {pick(s)}
           next(v, x) == CompleteAll(v, x, BypassTasks(all_upstream, all_downstream,
                                                       v[x].completed \cap run))
           step(f, s) == IF s = {} THEN cs ELSE next(f[rest(s)], pick(s))
           Solves(f, k) == /\ f = [s \in SUBSET S |-> f[s]]
                           /\ \A s \in SUBSET S : Cardinality(s) <= k => f[s] = step(f, s)
           Solvable == {k \in Nat : \E f : Solves(f, k)}
<1>0. IsFiniteSet(S) /\ Cardinality(S) \in Nat
  BY FS_CardinalityType
<1>a. ASSUME NEW s \in SUBSET S, s # {} PROVE pick(s) \in s
  BY <1>a
<1> HIDE DEF S, pick, next
<1>b. ASSUME NEW s \in SUBSET S, s # {}, NEW k \in Nat, Cardinality(s) <= k + 1
      PROVE  rest(s) \in SUBSET S /\ Cardinality(rest(s)) <= k
  BY <1>0, <1>a, <1>b, Smaller
<1>c. \A s \in SUBSET S : /\ Cardinality(s) <= 0 => s = {}
                         /\ Cardinality(s) <= Cardinality(S)
  BY <1>0, Smaller
<1>1. 0 \in Solvable
  <2>1. Solves([s \in SUBSET S |-> cs], 0)
    BY <1>c
  <2>2. QED
    BY <2>1
<1>2. ASSUME NEW k \in Nat, k \in Solvable PROVE k + 1 \in Solvable
  <2>1. PICK f : Solves(f, k)
    BY <1>2
  <2> DEFINE g == [s \in SUBSET S |-> IF Cardinality(s) <= k THEN f[s] ELSE step(f, s)]
  <2>2. ASSUME NEW s \in SUBSET S, Cardinality(s) <= k + 1 PROVE g[s] = step(g, s)
    <3>1. g[s] = step(f, s)
      BY <2>1
    <3>2. s # {} => g[rest(s)] = f[rest(s)]
      BY <2>2, <1>b
    <3>3. QED
      BY <3>1, <3>2
  <2>3. Solves(g, k + 1)
    BY <2>2
  <2> HIDE DEF Solves, g
  <2>4. QED
    BY <2>3
<1>3. PICK f : Solves(f, Cardinality(S))
  <2>1. Cardinality(S) \in Solvable
    BY <1>0, <1>1, <1>2, Reaches
  <2>2. QED
    BY <2>1
<1> DEFINE iter == CHOOSE i : i = [s \in SUBSET S |-> step(i, s)]
<1>4. iter = [s \in SUBSET S |-> step(iter, s)]
  <2>1. f = [s \in SUBSET S |-> step(f, s)]
    BY <1>3, <1>c
  <2>2. QED
    BY <2>1
<1>5. MaskBypass(cs, X, run) = iter[S]
  BY DEF MaskBypass, FoldSet, MapThenFoldSet, S, pick, next
<1> HIDE DEF iter
<1> DEFINE Reached == {k \in Nat : \A s \in SUBSET S :
                                  Cardinality(s) <= k => Marks(cs, iter[s], X)}
<1>6. 0 \in Reached
  <2>1. ASSUME NEW s \in SUBSET S, Cardinality(s) <= 0 PROVE Marks(cs, iter[s], X)
    BY <1>c, <2>1, <1>4, MarksRefl
  <2>2. QED
    BY <2>1
<1>7. ASSUME NEW k \in Nat, k \in Reached PROVE k + 1 \in Reached
  <2>1. ASSUME NEW s \in SUBSET S, Cardinality(s) <= k + 1 PROVE Marks(cs, iter[s], X)
    <3>1. CASE s = {}
      BY <3>1, <1>4, MarksRefl
    <3>2. CASE s # {}
      <4>1. rest(s) \in SUBSET S /\ Cardinality(rest(s)) <= k
        BY <2>1, <3>2, <1>b
      <4>2. Marks(cs, iter[rest(s)], X)
        BY <4>1, <1>7
      <4>3. iter[s] = next(iter[rest(s)], pick(s))
        BY <1>4, <3>2
      <4>4. Marks(iter[rest(s)], next(iter[rest(s)], pick(s)), X)
        <5> DEFINE v == iter[rest(s)]
                   x == pick(s)
        <5>1. x \in X
          BY <1>a, <3>2 DEF S
        <5>2. Shape(v)
          BY <4>2, SameShape DEF Marks
        <5> HIDE DEF v, x
        <5>3. \A T : Marks(v, CompleteAll(v, x, T), {x})
          BY <5>2, CompleteAllMarks
        <5>4. \A T : Marks(v, CompleteAll(v, x, T), X)
          BY <5>1, <5>3 DEF Marks
        <5>5. QED
          BY <5>4 DEF next, v, x
      <4>5. QED
        BY <4>2, <4>3, <4>4, MarksTrans
    <3>3. QED
      BY <3>1, <3>2
  <2>2. QED
    BY <2>1
<1>8. QED
  <2>1. Cardinality(S) \in Reached
    BY <1>0, <1>6, <1>7, Reaches
  <2>2. Marks(cs, iter[S], X)
    BY <2>1, <1>0
  <2>3. QED
    BY <2>2, <1>5

Lanes(cs) == LanesOf(Ids(cs))

(* The entries I of out, but for frozen contexts and OutputContexts. *)
Back(out, I) ==
  {out[i] : i \in {j \in I : ~ctx[out[j]].freezing /\ ctx[out[j]].kind # "output"}}

(* The queue r is q with them added, none of them twice if none was there. *)
Added(q, out, I, r) ==
  /\ r \in Lanes(ctx)
  /\ Queued(r) = Queued(q) \cup Back(out, I)
  /\ Once(q) /\ IsInjective(out) /\ ToSet(out) \cap Queued(q) = {} => Once(r)

(* The same for one of the entries. *)
LEMMA PutAdds ==
  ASSUME NEW q, NEW c, NEW out \in Seq(DOMAIN ctx), NEW I \in SUBSET DOMAIN out,
         NEW i \in I, NEW r, Added(q, out, I \ {i}, r)
  PROVE  Added(q, out, I, PutOut(r, out[i], c))
<1> DEFINE x == out[i]
           J == I \ {i}
<1>1. x \in DOMAIN ctx /\ r \in Lanes(ctx)
  BY ElementOfSeq DEF Added
<1>2. CASE ctx[x].freezing \/ ctx[x].kind = "output"
  <2>1. Back(out, I) = Back(out, J)
    BY <1>2 DEF Back
  <2>2. PutOut(r, x, c) = r
    BY <1>2 DEF PutOut
  <2>3. QED
    BY <2>1, <2>2 DEF Added
<1>3. CASE ~(ctx[x].freezing \/ ctx[x].kind = "output")
  <2>1. Back(out, I) = Back(out, J) \cup {x}
    BY <1>3 DEF Back
  <2>2. PICK p \in ContextPriority : PutOut(r, x, c) = Put(r, x, p)
    BY <1>3 DEF PutOut, ContextPriority, LIFO, FIFO_HIGH, FIFO_LOW
  <2> DEFINE d == Put(r, x, p)
  <2>3. x \in Ids(ctx)
    BY <1>1, <1>3 DEF Ids
  <2> HIDE DEF x
  <2>4. d \in Lanes(ctx)
    BY <1>1, <2>3, PutOne DEF Lanes
  <2>5. /\ Queued(d) = Queued(r) \cup {x}
        /\ Once(r) /\ x \notin Queued(r) => Once(d)
    BY <1>1, <2>3, PutQueued DEF Lanes
  <2> HIDE DEF d
  <2>6. Queued(d) = Queued(q) \cup Back(out, I)
    BY <2>1, <2>5 DEF Added
  <2>7. ASSUME Once(q), IsInjective(out), ToSet(out) \cap Queued(q) = {}
        PROVE  Once(d)
    <3>1. Once(r) /\ Queued(r) = Queued(q) \cup Back(out, J)
      BY <2>7 DEF Added
    <3>2. x \notin Queued(q)
      BY <2>7 DEF ToSet, x
    <3>3. x \notin Back(out, J)
      BY <2>7 DEF Back, IsInjective, x
    <3>4. QED
      BY <2>5, <3>1, <3>2, <3>3
  <2>8. QED
    BY <2>2, <2>4, <2>6, <2>7 DEF Added, x, d
<1>4. QED
  BY <1>2, <1>3

(* What a worker puts back, all of it. *)
LEMMA PutAllAdds ==
  ASSUME NEW q \in Lanes(ctx), NEW c, NEW out \in Seq(DOMAIN ctx)
  PROVE  Added(q, out, DOMAIN out, PutAll(q, out, c))
<1> DEFINE S == DOMAIN out
           pick(s) == Max(s)
           rest(s) == s \ {pick(s)}
           next(v, x) == PutOut(v, out[x], c)
           step(f, s) == IF s = {} THEN q ELSE next(f[rest(s)], pick(s))
           Solves(f, k) == /\ f = [s \in SUBSET S |-> f[s]]
                           /\ \A s \in SUBSET S : Cardinality(s) <= k => f[s] = step(f, s)
           Solvable == {k \in Nat : \E f : Solves(f, k)}
<1>0. IsFiniteSet(S) /\ Cardinality(S) \in Nat
  BY LenProperties, FS_Interval, FS_CardinalityType
<1>a. ASSUME NEW s \in SUBSET S, s # {} PROVE pick(s) \in s
  <2>1. DOMAIN out = 1 .. Len(out) /\ Len(out) \in Nat
    BY LenProperties
  <2>2. QED
    BY <2>1, <1>a, MaxOf
<1> HIDE DEF S, pick, next
<1>b. ASSUME NEW s \in SUBSET S, s # {}, NEW k \in Nat, Cardinality(s) <= k + 1
      PROVE  rest(s) \in SUBSET S /\ Cardinality(rest(s)) <= k
  BY <1>0, <1>a, <1>b, Smaller
<1>c. \A s \in SUBSET S : /\ Cardinality(s) <= 0 => s = {}
                         /\ Cardinality(s) <= Cardinality(S)
  BY <1>0, Smaller
<1>1. 0 \in Solvable
  <2>1. Solves([s \in SUBSET S |-> q], 0)
    BY <1>c
  <2>2. QED
    BY <2>1
<1>2. ASSUME NEW k \in Nat, k \in Solvable PROVE k + 1 \in Solvable
  <2>1. PICK f : Solves(f, k)
    BY <1>2
  <2> DEFINE g == [s \in SUBSET S |-> IF Cardinality(s) <= k THEN f[s] ELSE step(f, s)]
  <2>2. ASSUME NEW s \in SUBSET S, Cardinality(s) <= k + 1 PROVE g[s] = step(g, s)
    <3>1. g[s] = step(f, s)
      BY <2>1
    <3>2. s # {} => g[rest(s)] = f[rest(s)]
      BY <2>2, <1>b
    <3>3. QED
      BY <3>1, <3>2
  <2>3. Solves(g, k + 1)
    BY <2>2
  <2> HIDE DEF Solves, g
  <2>4. QED
    BY <2>3
<1>3. PICK f : Solves(f, Cardinality(S))
  <2>1. Cardinality(S) \in Solvable
    BY <1>0, <1>1, <1>2, Reaches
  <2>2. QED
    BY <2>1
<1> DEFINE iter == CHOOSE i : i = [s \in SUBSET S |-> step(i, s)]
<1>4. iter = [s \in SUBSET S |-> step(iter, s)]
  <2>1. f = [s \in SUBSET S |-> step(f, s)]
    BY <1>3, <1>c
  <2>2. QED
    BY <2>1
<1>5. PutAll(q, out, c) = iter[S]
  BY DEF PutAll, FoldLeft, MapThenFoldSet, S, pick, next
<1> HIDE DEF iter
<1> DEFINE Reached == {k \in Nat : \A s \in SUBSET S :
                                  Cardinality(s) <= k => Added(q, out, s, iter[s])}
<1>e. Added(q, out, {}, q)
  BY DEF Added, Back
<1>6. 0 \in Reached
  <2>1. ASSUME NEW s \in SUBSET S, Cardinality(s) <= 0 PROVE Added(q, out, s, iter[s])
    <3>1. s = {} /\ iter[s] = q
      BY <1>c, <2>1, <1>4
    <3>2. QED
      BY <1>e, <3>1
  <2>2. QED
    BY <2>1
<1>7. ASSUME NEW k \in Nat, k \in Reached PROVE k + 1 \in Reached
  <2>1. ASSUME NEW s \in SUBSET S, Cardinality(s) <= k + 1 PROVE Added(q, out, s, iter[s])
    <3>1. CASE s = {}
      BY <3>1, <1>4, <1>e
    <3>2. CASE s # {}
      <4>1. rest(s) \in SUBSET S /\ Cardinality(rest(s)) <= k
        BY <2>1, <3>2, <1>b
      <4>2. Added(q, out, rest(s), iter[rest(s)])
        BY <4>1, <1>7
      <4>3. iter[s] = next(iter[rest(s)], pick(s))
        BY <1>4, <3>2
      <4>4. pick(s) \in s /\ s \in SUBSET DOMAIN out
        BY <1>a, <3>2 DEF S
      <4>5. Added(q, out, s, PutOut(iter[rest(s)], out[pick(s)], c))
        BY <4>2, <4>4, PutAdds
      <4>6. QED
        BY <4>3, <4>5 DEF next
    <3>3. QED
      BY <3>1, <3>2
  <2>2. QED
    BY <2>1
<1>8. QED
  <2>1. Cardinality(S) \in Reached
    BY <1>0, <1>6, <1>7, Reaches
  <2>2. Added(q, out, S, iter[S])
    BY <2>1, <1>0
  <2>3. QED
    BY <2>2, <1>5 DEF S

-----------------------------------------------------------------------------
(* The executor's steps.                                                   *)

(* What the workers and the queue hold are contexts, no OutputContext is   *)
(* queued or run, and the tasks in hand are ready.                         *)
HoldsContexts ==
  /\ queue \in Lanes(ctx)
  /\ DOMAIN in_context = Worker /\ DOMAIN results = Worker
  /\ \A w \in Worker :
       /\ pc[w] \in {"running", "blocked"} => in_context[w] \in Ids(ctx)
       /\ \A t \in todo[w] \cup active[w] : <<in_context[w], t>> \in Pairs(ctx)
       /\ \A r \in results[w] : r.contexts \in Seq(DOMAIN ctx)

CountInv == IdleInv /\ Shape(ctx) /\ Tally(ctx, counter) /\ HoldsContexts

(* The input contexts are counted before the workers start. *)
LEMMA CountStarts == Init => CountInv
<1> SUFFICES ASSUME Init PROVE CountInv
  OBVIOUS
<1> DEFINE n == config.input_num
           r == Complete(Context("plain", 0), in_task)
<1>0. n \in Nat
  BY ConfigAssumption DEF Init
<1>1. /\ DOMAIN r = Field /\ r.kind = "plain" /\ r.parent = 0 /\ r.child_num = 0
      /\ r.destory = FALSE /\ Prepared(r)
  BY InputContext
<1> HIDE DEF n, r
<1>2. ctx = [c \in 1 .. n |-> r]
  BY DEF Init, n, r
<1>3. DOMAIN ctx = 1 .. n /\ Len(ctx) = n /\ \A c \in 1 .. n : ctx[c] = r
  BY <1>0, <1>2
<1>4. Shape(ctx)
  <2>1. ASSUME NEW c \in DOMAIN ctx
        PROVE  /\ DOMAIN ctx[c] = Field
               /\ ctx[c].kind \in Kinds /\ ctx[c].child_num \in Int
               /\ ctx[c].parent \in 0 .. c - 1 /\ ctx[c].parent = 0
               /\ Prepared(ctx[c])
    BY <1>0, <1>1, <1>3 DEF Kinds
  <2>2. \A c \in DOMAIN ctx : ctx[c].destory \in BOOLEAN
    BY <1>1, <1>3
  <2>3. ctx = [c \in DOMAIN ctx |-> ctx[c]]
    BY <1>2
  <2>4. QED
    BY <1>0, <1>3, <2>1, <2>2, <2>3 DEF Shape
<1>5. Tally(ctx, counter)
  <2>1. Counted(ctx) = 1 .. n
    BY <1>1, <1>3 DEF Counted, Live
  <2>2. Cardinality(1 .. n) = n
    BY <1>0, FS_Interval
  <2>3. counter = Cardinality(Counted(ctx))
    BY <2>1, <2>2 DEF Init, n
  <2>4. ASSUME NEW c \in DOMAIN ctx PROVE Children(ctx, c) = {}
    BY <1>0, <1>1, <1>3, <2>1 DEF Children
  <2>5. \A c \in DOMAIN ctx : ctx[c].child_num = Cardinality(Children(ctx, c))
    BY <1>1, <1>3, <2>4, FS_EmptySet
  <2>6. QED
    BY <2>3, <2>5 DEF Tally
<1>6. HoldsContexts
  <2> DEFINE line == [c \in 1 .. n |-> c]
  <2>1. Ids(ctx) = 1 .. n
    BY <1>1, <1>3 DEF Ids
  <2>2. line \in Seq(1 .. n)
    BY <1>0
  <2>3. queue = [EmptyLanes EXCEPT ![FIFO_HIGH] = line]
    BY DEF Init, n
  <2> HIDE DEF line
  <2>4. queue \in Lanes(ctx)
    <3> DEFINE I == Ids(ctx)
    <3>1. line \in Seq(I) /\ <<>> \in Seq(I)
      BY <2>1, <2>2
    <3> HIDE DEF I
    <3>2. queue \in [ContextPriority -> Seq(I)]
      BY <2>3, <3>1 DEF EmptyLanes
    <3>3. QED
      BY <3>2 DEF Lanes, LanesOf, I
  <2>5. QED
    BY <2>4 DEF HoldsContexts, Init
<1>7. QED
  BY <1>4, <1>5, <1>6, IdleStarts DEF CountInv

(* Steps that leave the contexts alone. *)
LEMMA KeepsCounts ==
  ASSUME CountInv, IdleInv', UNCHANGED <<ctx, counter>>, HoldsContexts'
  PROVE  CountInv'
BY DEF CountInv

(* The contexts after a step, and what is held then. *)
LEMMA Moves ==
  ASSUME CountInv, IdleInv', Shape(ctx'), Tally(ctx', counter'), HoldsContexts'
  PROVE  CountInv'
BY DEF CountInv

(* A worker that asks for a context; a stalled one is destroyed. *)
LEMMA FetchCounts ==
  ASSUME CountInv, NEW w \in Worker, Fetch(w), IdleInv'
  PROVE  CountInv'
<1>0. DOMAIN pc = Worker /\ pc \in [Worker -> Label]
  BY DEF CountInv, IdleInv, LoopType
<1>1. CASE Stop(w) \/ Wait(w)
  <2>1. HoldsContexts'
    BY <1>0, <1>1 DEF Stop, Wait, CountInv, HoldsContexts, Lanes, LanesOf, Ids, Pairs
  <2>2. UNCHANGED <<ctx, counter>>
    BY <1>1 DEF Stop, Wait
  <2>3. QED
    BY <2>1, <2>2, KeepsCounts
<1> DEFINE c == First(queue)
<1>2. ASSUME ~IsEmpty(queue) PROVE c \in Ids(ctx) /\ Pop(queue) \in Lanes(ctx)
  BY <1>2, Served DEF CountInv, HoldsContexts, Lanes
<1>3. CASE SkipDestroyed(w)
  <2>1. queue' \in Lanes(ctx)
    BY <1>2, <1>3 DEF SkipDestroyed, Gets
  <2>2. /\ pc' = [pc EXCEPT ![w] = "poll"]
        /\ UNCHANGED <<ctx, counter, in_context, results, todo, active>>
    BY <1>3 DEF SkipDestroyed
  <2>3. queue' \in Lanes(ctx')
    BY <2>1, <2>2
  <2>4. HoldsContexts'
    BY <1>0, <2>2, <2>3 DEF CountInv, HoldsContexts, Ids, Pairs
  <2>5. QED
    BY <2>2, <2>4, KeepsCounts
<1>4. CASE DestroyStalled(w)
  <2> DEFINE D == Doomed(ctx, c)
  <2>1. /\ c \in Ids(ctx) /\ queue' \in Lanes(ctx)
        /\ ctx' = Destory(ctx, D) /\ counter' = counter - Cardinality(D)
        /\ pc' = [pc EXCEPT ![w] = "poll"]
        /\ UNCHANGED <<in_context, results, todo, active>>
    BY <1>2, <1>4 DEF DestroyStalled, Gets
  <2>2. D \subseteq Counted(ctx)
    BY <2>1, DoomedCounted DEF CountInv, Ids
  <2> HIDE DEF D
  <2>3. Shape(ctx') /\ Tally(ctx', counter') /\ Grows(ctx, ctx')
    BY <2>1, <2>2, DestoryTally DEF CountInv
  <2>4. HoldsContexts'
    BY <1>0, <2>1, <2>3, StillContexts DEF CountInv, HoldsContexts, Lanes
  <2>5. QED
    BY <2>3, <2>4, Moves
<1>5. CASE GetContext(w)
  <2>1. /\ c \in Ids(ctx) /\ queue' \in Lanes(ctx)
        /\ in_context' = [in_context EXCEPT ![w] = c]
        /\ pc' = [pc EXCEPT ![w] = "running"]
        /\ todo' = [todo EXCEPT ![w] = ctx[c].available]
        /\ todo[w] = {} /\ active[w] = {} /\ DOMAIN todo = Worker
        /\ UNCHANGED <<ctx, counter, results, active>>
    BY <1>2, <1>5 DEF GetContext, Gets, CountInv, IdleInv, Busy, LoopType
  <2> HIDE DEF c
  <2>2. queue' \in Lanes(ctx')
    BY <2>1
  <2>a. \A t \in ctx[c].available : <<c, t>> \in Pairs(ctx)
    BY <2>1, AvailablePairs DEF CountInv
  <2>b. DOMAIN in_context = Worker /\ DOMAIN in_context' = Worker
    BY <2>1 DEF CountInv, HoldsContexts
  <2>c. ASSUME NEW v \in Worker, NEW t \in todo'[v] \cup active'[v]
        PROVE  <<in_context'[v], t>> \in Pairs(ctx')
    <3>1. CASE v = w
      BY <3>1, <2>1, <2>a, <2>b, <2>c
    <3>2. CASE v # w
      BY <3>2, <2>1, <2>b, <2>c DEF CountInv, HoldsContexts
    <3>3. QED
      BY <3>1, <3>2
  <2>3. HoldsContexts'
    BY <1>0, <2>1, <2>2, <2>b, <2>c DEF CountInv, HoldsContexts, Ids
  <2>4. QED
    BY <2>1, <2>3, KeepsCounts
<1>6. QED
  BY <1>1, <1>3, <1>4, <1>5 DEF Fetch

(* No worker gets a task. *)
Shrinks ==
  \A v \in Worker : todo'[v] \cup active'[v] \subseteq todo[v] \cup active[v]

(* A task coroutine reports out, while the contexts grow. *)
LEMMA Reports ==
  ASSUME CountInv, NEW w \in Worker, NEW t, NEW out, NEW ok, Report(w, t, out, ok),
         Grows(ctx, ctx'), out \in Seq(DOMAIN ctx'), queue' \in Lanes(ctx'),
         UNCHANGED <<pc, in_context>>, Shrinks
  PROVE  HoldsContexts'
<1> DEFINE r == [task |-> t, contexts |-> out, succeed |-> ok]
<1>1. results' = [results EXCEPT ![w] = @ \cup {r}]
  BY DEF Report
<1>2. r.contexts = out
  OBVIOUS
<1> HIDE DEF r
<1>3. ASSUME NEW v \in Worker, NEW q \in results'[v] PROVE q.contexts \in Seq(DOMAIN ctx')
  <2>1. q = r \/ q \in results[v]
    BY <1>1, <1>3 DEF CountInv, HoldsContexts
  <2>2. CASE q = r
    BY <2>2, <1>2
  <2>3. CASE q \in results[v]
    BY <2>3, StillContexts DEF CountInv, HoldsContexts
  <2>4. QED
    BY <2>1, <2>2, <2>3
<1>4. DOMAIN results' = Worker
  BY <1>1 DEF CountInv, HoldsContexts
<1>5. \A v \in Worker : \A x \in todo'[v] \cup active'[v] : <<in_context'[v], x>> \in Pairs(ctx')
  BY StillContexts DEF CountInv, HoldsContexts, Shrinks
<1>6. QED
  BY <1>3, <1>4, <1>5, StillContexts DEF CountInv, HoldsContexts

(* A task coroutine starts, or puts the context back to wait. *)
LEMMA StartsCounts ==
  ASSUME CountInv, NEW w \in Worker, NEW t, NotAwake(w, t) \/ StartTask(w, t), IdleInv'
  PROVE  CountInv'
<1>1. CASE NotAwake(w, t)
  <2>1. in_context[w] \in Ids(ctx)
    BY <1>1 DEF NotAwake, MayStart, CountInv, IdleInv, Busy, HoldsContexts
  <2>2. queue' \in Lanes(ctx)
    BY <1>1, <2>1, PutOne DEF NotAwake, CountInv, HoldsContexts, ContextPriority, Lanes
  <2>3. UNCHANGED <<ctx, counter, pc, in_context>> /\ Report(w, t, <<>>, FALSE)
    BY <1>1 DEF NotAwake
  <2>4. Grows(ctx, ctx') /\ <<>> \in Seq(DOMAIN ctx') /\ queue' \in Lanes(ctx')
    BY <2>2, <2>3 DEF Grows, Later
  <2>a. Shrinks
    BY <1>1 DEF NotAwake, Shrinks, CountInv, IdleInv, LoopType
  <2>5. HoldsContexts'
    BY <2>3, <2>4, <2>a, Reports
  <2>6. QED
    BY <2>3, <2>5, KeepsCounts
<1>2. CASE StartTask(w, t)
  <2>1. UNCHANGED <<ctx, counter, queue, pc, in_context, results>>
    BY <1>2 DEF StartTask
  <2>a. \A v \in Worker : todo'[v] \cup active'[v] \subseteq todo[v] \cup active[v]
    BY <1>2 DEF StartTask, MayStart, CountInv, IdleInv, LoopType
  <2>2. HoldsContexts'
    BY <2>1, <2>a DEF CountInv, HoldsContexts, Lanes, LanesOf, Ids, Pairs
  <2>3. QED
    BY <2>1, <2>2, KeepsCounts
<1>3. QED
  BY <1>1, <1>2

(* A good result keeps the invariant. *)
LEMMA ReturnsCounts ==
  ASSUME CountInv, NEW w \in Worker, NEW t \in Node, NEW r,
         Good(ctx, counter, r), Returns(w, t, r), IdleInv'
  PROVE  CountInv'
<1>1. /\ ctx' = Told(r, t).ctx /\ counter' = counter + r.delta
      /\ Report(w, t, r.out, TRUE) /\ UNCHANGED <<queue, pc, in_context>>
  BY DEF Returns
<1>2. /\ Shape(ctx') /\ Tally(ctx', counter') /\ Grows(ctx, ctx')
      /\ r.out \in Seq(DOMAIN ctx')
  BY <1>1, ToldGood
<1>3. queue' \in Lanes(ctx')
  BY <1>1, <1>2, StillContexts DEF CountInv, HoldsContexts, Lanes
<1>a. Shrinks
  BY DEF Returns, Shrinks, CountInv, IdleInv, LoopType
<1>4. HoldsContexts'
  BY <1>1, <1>2, <1>3, <1>a, Reports
<1>5. QED
  BY <1>2, <1>4, Moves

(* Every end of a task's code. *)
LEMMA EndsCounts ==
  ASSUME CountInv, NEW w \in Worker, NEW t \in Node, t \in active[w], Executes(w, t),
         IdleInv'
  PROVE  CountInv'
<1> DEFINE c == in_context[w]
<1>0. c \in Ids(ctx) /\ c \in DOMAIN ctx /\ Shape(ctx) /\ Tally(ctx, counter)
  BY DEF CountInv, IdleInv, Busy, HoldsContexts, Ids
<1>1. Same(ctx, ctx)
  BY <1>0, SameRefl
<1>2. Doomed(ctx, c) \subseteq Counted(ctx)
  BY <1>0, DoomedCounted DEF Ids
<1> HIDE DEF c
<1>3. CASE ReturnSame(w, t)
  <2>1. Ordinary(ctx, counter, SameResult(ctx, c))
    BY <1>0, <1>1, SameGood DEF SameResult
  <2>2. QED
    BY <1>3, <2>1, ReturnsCounts DEF Ordinary, ReturnSame, c
<1>4. CASE ReturnNothing(w, t)
  <2>1. Ordinary(ctx, counter, NoResult(ctx))
    BY <1>0, <1>1, SameGood DEF NoResult
  <2>2. QED
    BY <1>4, <2>1, ReturnsCounts DEF Ordinary, ReturnNothing
<1>5. CASE ReturnNew(w, t) \/ ReturnBoth(w, t)
  <2>1. Ordinary(ctx, counter, NewResult(ctx)) /\ Ordinary(ctx, counter, ForkResult(ctx, c))
    BY <1>0, NewGood
  <2>2. QED
    BY <1>5, <2>1, ReturnsCounts DEF Ordinary, ReturnNew, ReturnBoth, c
<1>6. CASE ReturnChildren(w, t)
  <2>1. PICK k \in 1 .. 2 : Returns(w, t, ChildrenResult(ctx, c, k))
    BY <1>6 DEF ReturnChildren, c
  <2>2. Ordinary(ctx, counter, ChildrenResult(ctx, c, k))
    BY <1>0, ChildrenGood
  <2>3. QED
    BY <2>1, <2>2, ReturnsCounts DEF Ordinary
<1>7. CASE ReturnFrozen(w, t)
  <2>1. Ordinary(ctx, counter, FrozenResult(ctx, c))
    BY <1>0, FrozenSame, SameGood DEF FrozenResult
  <2>2. QED
    BY <1>7, <2>1, ReturnsCounts DEF Ordinary, ReturnFrozen, c
<1>8. CASE Route(w, t)
  <2>1. PICK R : Returns(w, t, RouteResult(ctx, c, t, R))
    BY <1>8 DEF Route, c
  <2>2. Ordinary(ctx, counter, RouteResult(ctx, c, t, R))
    BY <1>0, CompleteAllSame, SameGood DEF RouteResult
  <2>3. QED
    BY <2>1, <2>2, ReturnsCounts DEF Ordinary
<1>9. CASE Misroute(w, t)
  <2>1. Ordinary(ctx, counter, DestroyedResult(ctx, Doomed(ctx, c)))
    BY <1>0, <1>1, <1>2, DestroyedGood
  <2>2. QED
    BY <1>9, <2>1, ReturnsCounts DEF Ordinary, Misroute, c
<1>10. CASE LoopYield(w, t)
  <2>1. Ordinary(ctx, counter, YieldResult(ctx, c, t))
    BY <1>0, YieldGood
  <2>2. QED
    BY <1>10, <2>1, ReturnsCounts DEF Ordinary, LoopYield, c
<1>11. CASE LoopExhausted(w, t)
  <2> DEFINE D == IF ctx[c].kind = "loop" THEN Doomed(ctx, c) ELSE {}
  <2>1. D \subseteq Counted(ctx)
    BY <1>2
  <2> HIDE DEF D
  <2>2. Ordinary(ctx, counter, DestroyedResult(ctx, D))
    BY <1>0, <1>1, <2>1, DestroyedGood
  <2>3. Returns(w, t, DestroyedResult(ctx, D))
    BY <1>11 DEF LoopExhausted, ExhaustedResult, D, c
  <2>4. QED
    BY <2>2, <2>3, ReturnsCounts DEF Ordinary
<1>12. CASE RaiseRetry(w, t)
  <2>1. PICK n, A : ctx' = [ctx EXCEPT ![c].retry[t] = n, ![c].asleep = A]
    BY <1>12 DEF RaiseRetry, c
  <2>2. Same(ctx, ctx')
    BY <1>0, <2>1, RetrySame
  <2>3. /\ queue' = Put(queue, c, FIFO_HIGH) /\ Report(w, t, <<>>, FALSE)
        /\ UNCHANGED <<counter, pc, in_context>>
    BY <1>12 DEF RaiseRetry, c
  <2>4. Shape(ctx') /\ Tally(ctx', counter') /\ Grows(ctx, ctx')
    BY <1>0, <2>2, <2>3, SameTally, SameGrows
  <2>5. queue' \in Lanes(ctx')
    <3>1. queue' \in Lanes(ctx)
      BY <1>0, <2>3, PutOne DEF CountInv, HoldsContexts, ContextPriority, Lanes
    <3>2. QED
      BY <3>1, <2>4, StillContexts DEF Lanes
  <2>6. <<>> \in Seq(DOMAIN ctx')
    OBVIOUS
  <2>a. Shrinks
    BY <1>12 DEF RaiseRetry, Shrinks, CountInv, IdleInv, LoopType
  <2>7. HoldsContexts'
    BY <2>3, <2>4, <2>5, <2>6, <2>a, Reports
  <2>8. QED
    BY <2>4, <2>7, Moves
<1>13. CASE RaiseError(w, t)
  <2>1. PICK n : Returns(w, t, DestroyedResult([ctx EXCEPT ![c].retry[t] = n], Doomed(ctx, c)))
    BY <1>13 DEF RaiseError, c
  <2>2. Same(ctx, [ctx EXCEPT ![c].retry[t] = n])
    BY <1>0, RetrySame
  <2>3. Ordinary(ctx, counter, DestroyedResult([ctx EXCEPT ![c].retry[t] = n], Doomed(ctx, c)))
    BY <1>0, <1>2, <2>2, DestroyedGood
  <2>4. QED
    BY <2>1, <2>3, ReturnsCounts DEF Ordinary
<1>14. CASE RunSink(w)
  <2>1. Good(ctx, counter, SinkResult(ctx, c))
    BY <1>0, SinkGood
  <2>2. QED
    BY <1>14, <2>1, ReturnsCounts, GraphAssumption DEF RunSink, c
<1>15. QED
  BY <1>3, <1>4, <1>5, <1>6, <1>7, <1>8, <1>9, <1>10, <1>11, <1>12, <1>13, <1>14
     DEF Executes

(* A rate limited task returns its context. *)
LEMMA LimitedCounts ==
  ASSUME CountInv, NEW w \in Worker, NEW t, RateLimited(w, t), IdleInv'
  PROVE  CountInv'
<1> DEFINE c == in_context[w]
<1>1. /\ t \in active[w] /\ Report(w, t, <<c>>, TRUE)
      /\ UNCHANGED <<ctx, counter, queue, pc, in_context>>
  BY DEF RateLimited, Ends
<1>2. c \in DOMAIN ctx
  BY <1>1 DEF CountInv, IdleInv, Busy, HoldsContexts, Ids
<1> HIDE DEF c
<1>3. Grows(ctx, ctx') /\ <<c>> \in Seq(DOMAIN ctx')
  BY <1>1, <1>2 DEF Grows, Later
<1>4. queue' \in Lanes(ctx')
  BY <1>1, <1>3, StillContexts DEF CountInv, HoldsContexts, Lanes
<1>a. Shrinks
  BY DEF RateLimited, Shrinks, CountInv, IdleInv, LoopType
<1>5. HoldsContexts'
  BY <1>1, <1>3, <1>4, <1>a, Reports
<1>6. QED
  BY <1>1, <1>5, KeepsCounts

(* _context_postprocess destroys counted contexts, takes them off the      *)
(* counter, and else only masks tasks.                                     *)
LEMMA PostProcessGood ==
  ASSUME CountInv, NEW c \in Ids(ctx), NEW out, NEW run
  PROVE  LET post == PostProcess(c, out, run)
         IN  /\ Shape(post.ctx) /\ Tally(post.ctx, counter - Cardinality(post.doomed))
             /\ Grows(ctx, post.ctx)
<1> DEFINE post == PostProcess(c, out, run)
           D == post.doomed
           swept == Destory(ctx, D)
<1>0. Shape(ctx) /\ Tally(ctx, counter)
  BY DEF CountInv
<1>1. D = Doomed(ctx, c) \/ D = {}
  BY DEF PostProcess
<1>2. D \subseteq Counted(ctx)
  BY <1>0, <1>1, DoomedCounted DEF Ids
<1>3. \E X : X \subseteq Live(ctx) /\ (post.ctx = swept \/ post.ctx = MaskBypass(swept, X, run))
  BY DEF PostProcess
<1> HIDE DEF post
<1>4. PICK X : X \subseteq Live(ctx) /\ (post.ctx = swept \/ post.ctx = MaskBypass(swept, X, run))
  BY <1>3
<1> HIDE DEF D
<1>5. Shape(swept) /\ Tally(swept, counter - Cardinality(D)) /\ Grows(ctx, swept)
  BY <1>0, <1>2, DestoryTally
<1>6. IsFiniteSet(X)
  <2>1. X \in SUBSET (1 .. Len(ctx)) /\ Len(ctx) \in Nat
    BY <1>0, <1>4 DEF Shape, Live
  <2>2. IsFiniteSet(1 .. Len(ctx))
    BY <2>1, FS_Interval
  <2>3. QED
    BY <2>1, <2>2, FS_Subset
<1> HIDE DEF swept
<1>7. Same(swept, post.ctx)
  BY <1>4, <1>5, <1>6, SameRefl, MaskBypassMarks DEF Marks
<1>8. Shape(post.ctx) /\ Tally(post.ctx, counter - Cardinality(D))
  BY <1>5, <1>7, SameTally
<1>9. Grows(ctx, post.ctx)
  BY <1>5, <1>7, SameGrows, GrowsTrans
<1>10. QED
  BY <1>8, <1>9 DEF post, D

(* What the tasks returned is a sequence of contexts, also after the       *)
(* deduplication.                                                          *)
LEMMA ListsAreContexts ==
  ASSUME CountInv, NEW w \in Worker, NEW out \in ContextLists(w)
  PROVE  out \in Seq(DOMAIN ctx)
<1> DEFINE lists == {r.contexts : r \in results[w]}
           S == UNION {ToSet(l) : l \in lists}
<1>1. \A l \in lists : l \in Seq(DOMAIN ctx)
  BY DEF CountInv, HoldsContexts
<1>2. CASE out \in lists
  BY <1>1, <1>2
<1>3. CASE out \in SetToSeqs(S)
  <2>1. ASSUME NEW l \in lists PROVE ToSet(l) \subseteq DOMAIN ctx
    <3>1. l \in Seq(DOMAIN ctx)
      BY <1>1
    <3>2. QED
      BY <3>1 DEF ToSet
  <2>2. S \subseteq DOMAIN ctx
    BY <2>1
  <2>3. DOMAIN ctx = 1 .. Len(ctx) /\ Len(ctx) \in Nat
    BY DEF CountInv, Shape
  <2> HIDE DEF S
  <2>4. IsFiniteSet(S)
    <3>1. IsFiniteSet(DOMAIN ctx)
      BY <2>3, FS_Interval
    <3>2. QED
      BY <3>1, <2>2, FS_Subset
  <2>5. Cardinality(S) \in Nat
    BY <2>4, FS_CardinalityType
  <2>6. out \in [1 .. Cardinality(S) -> S]
    BY <1>3 DEF SetToSeqs
  <2>7. out \in Seq(S)
    BY <2>5, <2>6
  <2>8. QED
    BY <2>2, <2>7, SeqMonotonic
<1>4. QED
  BY <1>2, <1>3 DEF ContextLists

(* The second half of _worker_loop, with _context_postprocess. *)
LEMMA CollectsCounts ==
  ASSUME CountInv, NEW w \in Worker, Gather(w) \/ Spin(w), IdleInv'
  PROVE  CountInv'
<1> DEFINE c == in_context[w]
<1>0. pc \in [Worker -> Label] /\ pc[w] = "running" /\ c \in Ids(ctx)
  BY DEF Gather, Spin, Gathered, CountInv, IdleInv, LoopType, HoldsContexts
<1>1. PICK out \in ContextLists(w) :
        LET post == PostProcess(c, Thawed(out), Succeeded(w))
        IN  /\ ctx' = post.ctx
            /\ counter' = counter - Cardinality(post.doomed)
            /\ \/ Gather(w) /\ Requeue(w, out) /\ results' = [results EXCEPT ![w] = {}]
                  /\ pc' = [pc EXCEPT ![w] = "poll"] /\ UNCHANGED in_context
               \/ Spin(w) /\ UNCHANGED <<queue, results, in_context>>
                  /\ pc' = [pc EXCEPT ![w] = "blocked"]
  BY DEF Gather, Spin
<1>2. Shape(ctx') /\ Tally(ctx', counter') /\ Grows(ctx, ctx')
  <2> HIDE DEF c
  <2>1. QED
    BY <1>0, <1>1, PostProcessGood
<1>3. queue' \in Lanes(ctx')
  <2>1. out \in Seq(DOMAIN ctx) /\ queue \in Lanes(ctx)
    BY ListsAreContexts DEF CountInv, HoldsContexts
  <2>2. PutAll(queue, out, c) \in Lanes(ctx)
    BY <2>1, PutAllAdds DEF Added
  <2>3. queue' = queue \/ queue' = PutAll(queue, out, c)
    BY <1>1 DEF Requeue
  <2>4. queue' \in Lanes(ctx)
    BY <2>1, <2>2, <2>3
  <2>5. QED
    BY <2>4, <1>2, StillContexts DEF Lanes
<1>4. HoldsContexts'
  <2>1. /\ UNCHANGED in_context
        /\ results' = results \/ results' = [results EXCEPT ![w] = {}]
        /\ pc' = [pc EXCEPT ![w] = "poll"] \/ pc' = [pc EXCEPT ![w] = "blocked"]
    BY <1>1
  <2>2. \A v \in Worker : \A r \in results'[v] : r.contexts \in Seq(DOMAIN ctx')
    <3>1. \A v \in Worker : \A r \in results'[v] : r \in results[v]
      BY <2>1 DEF CountInv, HoldsContexts
    <3>2. \A v \in Worker : \A r \in results[v] : r.contexts \in Seq(DOMAIN ctx')
      BY <1>2, StillContexts DEF CountInv, HoldsContexts
    <3>3. QED
      BY <3>1, <3>2
  <2>3. \A v \in Worker : pc'[v] \in {"running", "blocked"} => in_context'[v] \in Ids(ctx')
    BY <1>0, <1>2, <2>1, StillContexts DEF CountInv, HoldsContexts
  <2>4. DOMAIN in_context' = Worker /\ DOMAIN results' = Worker
    BY <2>1 DEF CountInv, HoldsContexts
  <2>5. UNCHANGED <<todo, active>>
    BY DEF Gather, Spin
  <2>6. \A v \in Worker : \A t \in todo'[v] \cup active'[v] : <<in_context'[v], t>> \in Pairs(ctx')
    BY <1>2, <2>1, <2>5, StillContexts DEF CountInv, HoldsContexts
  <2>7. QED
    BY <1>3, <2>2, <2>3, <2>4, <2>6 DEF HoldsContexts
<1>5. QED
  BY <1>2, <1>4, Moves

(* Every step keeps the invariant. *)
LEMMA CountSteps == CountInv /\ [Next]_vars => CountInv'
<1> SUFFICES ASSUME CountInv, [Next]_vars PROVE CountInv'
  OBVIOUS
<1>0. IdleInv'
  BY IdleSteps DEF CountInv
<1>1. CASE UNCHANGED vars
  BY <1>0, <1>1 DEF vars, CountInv, HoldsContexts, Shape, Prepared, Tally, Lanes, LanesOf,
                    Ids, Pairs, Counted, Live, Children
<1>2. ASSUME NEW w \in Worker,
             \/ Fetch(w) \/ TimesOut(w) \/ Starts(w) \/ Throttled(w) \/ Collects(w)
             \/ \E t \in Node : Executes(w, t)
      PROVE  CountInv'
  <2>1. CASE Fetch(w)
    BY <1>0, <2>1, FetchCounts
  <2>2. CASE TimesOut(w)
    <3>1. /\ UNCHANGED <<ctx, counter, queue, in_context, results, todo, active>>
          /\ pc' = [pc EXCEPT ![w] = "stopped"] \/ pc' = [pc EXCEPT ![w] = "poll"]
      BY <2>2 DEF TimesOut, Timeout
    <3>2. pc \in [Worker -> Label]
      BY DEF CountInv, IdleInv, LoopType
    <3>3. HoldsContexts'
      BY <3>1, <3>2 DEF CountInv, HoldsContexts, Lanes, LanesOf, Ids, Pairs
    <3>4. QED
      BY <1>0, <3>1, <3>3, KeepsCounts
  <2>3. CASE Starts(w)
    BY <1>0, <2>3, StartsCounts DEF Starts
  <2>4. CASE Throttled(w)
    BY <1>0, <2>4, LimitedCounts DEF Throttled
  <2>5. CASE Collects(w)
    BY <1>0, <2>5, CollectsCounts DEF Collects
  <2>6. ASSUME NEW t \in Node, Executes(w, t) PROVE CountInv'
    <3>1. t \in active[w]
      BY <2>6 DEF Executes, ReturnSame, ReturnNothing, ReturnNew, ReturnBoth, ReturnChildren,
             ReturnFrozen, Route, Misroute, LoopYield, LoopExhausted, RaiseRetry, RaiseError,
             RunSink, Ends
    <3>2. QED
      BY <1>0, <2>6, <3>1, EndsCounts
  <2>7. QED
    BY <1>2, <2>1, <2>2, <2>3, <2>4, <2>5, <2>6
<1>3. ASSUME NEW c \in DOMAIN ctx, NEW t, AwakeTimePasses(c, t) PROVE CountInv'
  <2>1. PICK A : ctx' = [ctx EXCEPT ![c].asleep = A]
    BY <1>3 DEF AwakeTimePasses
  <2>2. UNCHANGED <<counter, queue, pc, in_context, results, todo, active>>
    BY <1>3 DEF AwakeTimePasses
  <2>3. Shape(ctx) /\ Tally(ctx, counter)
    BY DEF CountInv
  <2>4. Same(ctx, ctx')
    BY <2>1, <2>3, RetrySame
  <2>5. Shape(ctx') /\ Tally(ctx', counter') /\ Grows(ctx, ctx')
    BY <2>2, <2>3, <2>4, SameTally, SameGrows
  <2>6. HoldsContexts'
    BY <2>2, <2>5, StillContexts DEF CountInv, HoldsContexts, Lanes
  <2>7. QED
    BY <1>0, <2>5, <2>6, Moves
<1>4. QED
  BY <1>1, <1>2, <1>3 DEF Next, KeepsSpinning

(* Runtime.counter is the number of contexts alive, and every child_num    *)
(* the number of children alive, in any run of the batch executor.         *)
THEOREM CounterIsExact == Spec => []CounterCountsLive
<1>1. CountInv => CounterCountsLive
  BY DEF CountInv, Tally, CounterCountsLive, Alive, Children
<1>2. QED
  BY <1>1, CountStarts, CountSteps, PTL DEF Spec

(* Every upstream task of a task whose code runs is completed on the       *)
(* context it runs for, unless that is a LoopContext.                      *)
UpstreamCompleted ==
  \A w \in Worker : \A t \in active[w] :
    LET c == ctx[in_context[w]]
    IN  c.kind # "loop" => upstream_tasks[t] \subseteq c.completed

(* The batch executor runs the code of a task on a context only after all  *)
(* its upstream tasks completed there, however workers, retries and masks  *)
(* interleave and whoever holds the context besides.  This is the half of  *)
(* RunsInOrder that holds of every configuration.                          *)
THEOREM UpstreamFirst == Spec => []UpstreamCompleted
<1>1. CountInv => UpstreamCompleted
  <2> SUFFICES ASSUME CountInv, NEW w \in Worker, NEW t \in active[w],
                      ctx[in_context[w]].kind # "loop"
               PROVE  upstream_tasks[t] \subseteq ctx[in_context[w]].completed
    BY DEF UpstreamCompleted
  <2>1. <<in_context[w], t>> \in Pairs(ctx)
    BY DEF CountInv, HoldsContexts
  <2>2. QED
    BY <2>1 DEF Pairs
<1>2. QED
  BY <1>1, CountStarts, CountSteps, PTL DEF Spec

-----------------------------------------------------------------------------
(* Contexts in hand. *)

(* A failed task is never tried again; no task has children made, or       *)
(* routes; all by the configuration and the code of the tasks.             *)
NeverRetries == \A t \in Node : "raise" \in behaviour[t] => retry_times[t] = 0
NoChildren == \A t \in Node : "children" \notin behaviour[t]
NoRouters == \A t \in Node : "route" \notin behaviour[t]

InHand(w) == pc[w] \in {"running", "blocked"}

(* The contexts that the results R return. *)
Contents(R) == UNION {ToSet(r.contexts) : r \in R}

(* The contexts that the tasks of w returned; those of them w's tasks      *)
(* made.                                                                   *)
Brought(w) == Contents(results[w])
Made(w) == Brought(w) \ {in_context[w]}

Reported ==
  \A w \in Worker :
    /\ IsFiniteSet(results[w]) /\ (~InHand(w) => results[w] = {})
    /\ in_context[w] \in {0} \cup DOMAIN ctx
    /\ todo[w] \cap active[w] = {}
    /\ \A r \in results[w] : IsInjective(r.contexts)

(* A context that tasks of w made and returned is nowhere else yet. *)
MadeOnce ==
  \A w \in Worker : \A x \in Made(w) :
    /\ x \notin Queued(queue) /\ ~ctx[x].freezing
    /\ \A v \in Worker : in_context[v] # x /\ (v # w => x \notin Made(v))

(* A context is in one place: in the queue, once, or in one worker's       *)
(* hands.                                                                  *)
OnePlace ==
  NeverRetries =>
    /\ Awake(ctx) /\ Once(queue)
    /\ \A w \in Worker : InHand(w) =>
         /\ in_context[w] \notin Queued(queue)
         /\ \A v \in Worker : InHand(v) /\ in_context[v] = in_context[w] => v = w

(* Whom a context will come back from. *)
Keeps(w, c) ==
  \/ c \in Made(w)
  \/ /\ in_context[w] = c /\ pc[w] = "running"
     /\ todo[w] \cup active[w] # {} \/ Succeeded(w) # {}

SinkEnds == \A w \in Worker : out_task \in Succeeded(w) => ctx[in_context[w]].destory

Somewhere ==
  /\ NoChildren => Rooted(ctx)
  /\ NoChildren /\ enable_context_gc =>
       \A c \in Alive : c \in Queued(queue) \/ \E w \in Worker : Keeps(w, c)

NotYet ==
  NeverRetries /\ NoChildren /\ NoRouters =>
    \A w \in Worker : \A t \in todo[w] \cup active[w] :
      ctx[in_context[w]].kind # "loop" => t \notin ctx[in_context[w]].completed

(* One result more. *)
LEMMA ContentsAdd ==
  /\ Contents({}) = {}
  /\ \A R, r : Contents(R \cup {r}) = Contents(R) \cup ToSet(r.contexts)
BY DEF Contents

(* What was made by this step. *)
Arrived == DOMAIN ctx' \ DOMAIN ctx

(* A task coroutine of w reports. *)
Reporting(w, t, out, ok) ==
  /\ pc[w] = "running" /\ Report(w, t, out, ok) /\ UNCHANGED <<config, pc, in_context>>
  /\ Turns(ctx, ctx', {in_context[w]}, {in_context[w]})
  /\ IsInjective(out)
  /\ Arrived \subseteq ToSet(out) /\ ToSet(out) \subseteq Arrived \cup {in_context[w]}
  /\ \A v \in Worker : v # w => todo'[v] = todo[v] /\ active'[v] = active[v]
  /\ todo'[w] \subseteq todo[w] /\ active'[w] \subseteq active[w]
  /\ queue' = queue \/ Queued(queue') = Queued(queue) \cup {in_context[w]}

(* What is held, queued or returned exists. *)
LEMMA HeldExist ==
  ASSUME CountInv, Reported
  PROVE  /\ \A v \in Worker : Brought(v) \subseteq DOMAIN ctx
         /\ Queued(queue) \subseteq DOMAIN ctx /\ 0 \notin DOMAIN ctx
<1>1. ASSUME NEW v \in Worker, NEW r \in results[v] PROVE ToSet(r.contexts) \subseteq DOMAIN ctx
  <2>1. r.contexts \in Seq(DOMAIN ctx)
    BY <1>1 DEF CountInv, HoldsContexts
  <2>2. QED
    BY <2>1 DEF ToSet
<1>2. \A v \in Worker : Brought(v) \subseteq DOMAIN ctx
  BY <1>1 DEF Brought, Contents
<1>3. Queued(queue) \subseteq DOMAIN ctx
  <2>1. ASSUME NEW p \in ContextPriority PROVE ToSet(queue[p]) \subseteq DOMAIN ctx
    <3>1. queue[p] \in Seq(Ids(ctx))
      BY DEF CountInv, HoldsContexts, Lanes, LanesOf
    <3>2. ToSet(queue[p]) \subseteq Ids(ctx)
      BY <3>1 DEF ToSet
    <3>3. QED
      BY <3>2 DEF Ids
  <2>2. QED
    BY <2>1 DEF Queued
<1>4. 0 \notin DOMAIN ctx
  <2>1. DOMAIN ctx = 1 .. Len(ctx) /\ Len(ctx) \in Nat
    BY DEF CountInv, Shape
  <2>2. QED
    BY <2>1
<1>5. QED
  BY <1>2, <1>3, <1>4

(* What a report adds. *)
LEMMA ReportAdds ==
  ASSUME CountInv, Reported, NEW w \in Worker, NEW t, NEW out, NEW ok, Reporting(w, t, out, ok)
  PROVE  /\ \A v \in Worker : v # w => results'[v] = results[v] /\ Made(v)' = Made(v)
                                       /\ Succeeded(v)' = Succeeded(v)
         /\ Made(w)' = Made(w) \cup (ToSet(out) \ {in_context[w]})
         /\ Succeeded(w)' = Succeeded(w) \cup IF ok THEN {t} ELSE {}
         /\ IsFiniteSet(results'[w]) /\ DOMAIN results' = Worker
         /\ \A r \in results'[w] : r \in results[w] \/ r.contexts = out
<1> DEFINE r == [task |-> t, contexts |-> out, succeed |-> ok]
<1>1. /\ results' = [results EXCEPT ![w] = @ \cup {r}] /\ in_context' = in_context
      /\ DOMAIN results = Worker
  BY DEF Reporting, Report, CountInv, HoldsContexts
<1>2. r.contexts = out /\ r.task = t /\ r.succeed = ok
  OBVIOUS
<1> HIDE DEF r
<1>3. /\ results'[w] = results[w] \cup {r}
      /\ \A v \in Worker : v # w => results'[v] = results[v]
  BY <1>1
<1>4. Made(w)' = Made(w) \cup (ToSet(out) \ {in_context[w]})
  <2>1. Contents(results'[w]) = Contents(results[w]) \cup ToSet(out)
    BY <1>2, <1>3, ContentsAdd
  <2>2. QED
    BY <1>1, <2>1 DEF Made, Brought
<1>5. Succeeded(w)' = Succeeded(w) \cup IF ok THEN {t} ELSE {}
  BY <1>2, <1>3 DEF Succeeded
<1>6. IsFiniteSet(results'[w])
  <2>1. IsFiniteSet(results[w])
    BY DEF Reported
  <2>2. QED
    BY <1>3, <2>1, FS_AddElement
<1>7. QED
  BY <1>1, <1>2, <1>3, <1>4, <1>5, <1>6 DEF Made, Brought, Succeeded

(* A report keeps what is held unambiguous. *)
LEMMA ReportHands ==
  ASSUME CountInv, CountInv', Reported, MadeOnce, AllSeparated(ctx),
         NEW w \in Worker, NEW t, NEW out, NEW ok, Reporting(w, t, out, ok)
  PROVE  Reported' /\ MadeOnce' /\ AllSeparated(ctx')
<1> DEFINE c == in_context[w]
<1>1. /\ \A v \in Worker : v # w => results'[v] = results[v] /\ Made(v)' = Made(v)
      /\ Made(w)' = Made(w) \cup (ToSet(out) \ {c})
      /\ IsFiniteSet(results'[w])
      /\ \A r \in results'[w] : r \in results[w] \/ r.contexts = out
  BY ReportAdds
<1>2. /\ DOMAIN ctx \subseteq DOMAIN ctx' /\ Turns(ctx, ctx', {c}, {c})
      /\ IsInjective(out) /\ ToSet(out) \subseteq Arrived \cup {c}
      /\ UNCHANGED <<pc, in_context>> /\ pc[w] = "running"
      /\ \A v \in Worker : v # w => todo'[v] = todo[v] /\ active'[v] = active[v]
      /\ todo'[w] \subseteq todo[w] /\ active'[w] \subseteq active[w]
  BY DEF Reporting, Turns, Grows
<1>3. /\ \A v \in Worker : Made(v) \subseteq DOMAIN ctx
      /\ Queued(queue) \subseteq DOMAIN ctx /\ c \in DOMAIN ctx /\ 0 \notin DOMAIN ctx'
  <2>1. c \in DOMAIN ctx
    BY <1>2 DEF CountInv, HoldsContexts, Ids
  <2>2. 0 \notin DOMAIN ctx'
    <3>1. DOMAIN ctx' = 1 .. Len(ctx') /\ Len(ctx') \in Nat
      BY DEF CountInv, Shape
    <3>2. QED
      BY <3>1
  <2>3. QED
    BY <2>1, <2>2, HeldExist DEF Made
<1>4. Reported'
  <2>1. ASSUME NEW v \in Worker
        PROVE  /\ IsFiniteSet(results'[v])
               /\ \A r \in results'[v] : IsInjective(r.contexts)
               /\ todo'[v] \cap active'[v] = {}
               /\ in_context'[v] \in {0} \cup DOMAIN ctx'
    <3>1. IsFiniteSet(results[v]) /\ \A r \in results[v] : IsInjective(r.contexts)
      BY DEF Reported
    <3>2. todo[v] \cap active[v] = {} /\ in_context[v] \in {0} \cup DOMAIN ctx
      BY DEF Reported
    <3>3. CASE v = w
      BY <3>1, <3>2, <3>3, <1>1, <1>2
    <3>4. CASE v # w
      BY <3>1, <3>2, <3>4, <1>1, <1>2
    <3>5. QED
      BY <3>3, <3>4
  <2>2. ASSUME NEW v \in Worker, ~InHand(v)' PROVE results'[v] = {}
    <3>1. v # w /\ ~InHand(v)
      BY <1>2, <2>2 DEF InHand
    <3>2. QED
      BY <3>1, <1>1 DEF Reported
  <2>3. QED
    BY <2>1, <2>2 DEF Reported
<1>5. ASSUME NEW v \in Worker, NEW x \in Made(v)'
      PROVE  x \in Made(v) \/ (v = w /\ x \in Arrived)
  <2>1. CASE v = w
    BY <2>1, <1>1, <1>2, <1>5
  <2>2. CASE v # w
    BY <2>2, <1>1, <1>5
  <2>3. QED
    BY <2>1, <2>2
<1>6. \A x \in Queued(queue') : x \in Queued(queue) \/ x = c
  BY DEF Reporting
<1>7. ASSUME NEW v \in Worker, NEW x \in Made(v)'
      PROVE  /\ x \notin Queued(queue') /\ ~ctx'[x].freezing
             /\ \A u \in Worker : in_context'[u] # x /\ (u # v => x \notin Made(u)')
  <2>1. CASE x \in Made(v)
    <3>1. /\ x \notin Queued(queue) /\ ~ctx[x].freezing
          /\ \A u \in Worker : in_context[u] # x /\ (u # v => x \notin Made(u))
      BY <2>1 DEF MadeOnce
    <3>2. x \in DOMAIN ctx /\ x # c /\ x \notin Arrived
      BY <2>1, <3>1, <1>3 DEF Arrived
    <3>3. ~ctx'[x].freezing
      BY <3>1, <3>2, <1>2 DEF Turns
    <3>4. QED
      BY <3>1, <3>2, <3>3, <1>2, <1>5, <1>6
  <2>2. CASE v = w /\ x \in Arrived
    <3>1. x \notin DOMAIN ctx /\ x \in DOMAIN ctx' /\ x # c /\ x # 0
      BY <2>2, <1>3 DEF Arrived
    <3>2. ~ctx'[x].freezing
      BY <3>1, <1>2 DEF Turns
    <3>3. \A u \in Worker : in_context'[u] # x
      BY <3>1, <1>2 DEF Reported
    <3>4. \A u \in Worker : u # v => x \notin Made(u)'
      BY <2>2, <3>1, <1>1, <1>3
    <3>5. QED
      BY <3>1, <3>2, <3>3, <3>4, <1>3, <1>6
  <2>3. QED
    BY <1>5, <2>1, <2>2
<1>8. MadeOnce'
  BY <1>7 DEF MadeOnce
<1>9. QED
  BY <1>2, <1>4, <1>8 DEF Turns

HandInv ==
  /\ CountInv /\ Reported /\ MadeOnce /\ AllSeparated(ctx)
  /\ OnePlace /\ SinkEnds /\ Somewhere /\ NotYet

(* What depends on the configuration, and on what the task did. *)
Proper(w, t, ok) ==
  /\ NeverRetries => queue' = queue /\ (Awake(ctx) => Awake(ctx'))
  /\ ok => (t = out_task => ctx'[in_context[w]].destory)
  /\ ok \/ in_context[w] \in Queued(queue')
  /\ NoChildren => (Rooted(ctx) => Rooted(ctx'))
  /\ NoRouters => ctx'[in_context[w]].completed \cap (todo'[w] \cup active'[w])
                    \subseteq ctx[in_context[w]].completed

(* A context that is alive was alive, unless it is new. *)
LEMMA AliveBefore ==
  ASSUME Grows(ctx, ctx'), NEW x \in Alive', x \notin Arrived
  PROVE  x \in Alive
BY DEF Grows, Later, Alive, Counted, Live, Arrived

(* A report of a well-behaved task keeps the invariant. *)
LEMMA ReportKeeps ==
  ASSUME HandInv, CountInv', NEW w \in Worker, NEW t, NEW out, NEW ok \in BOOLEAN,
         Reporting(w, t, out, ok), Proper(w, t, ok)
  PROVE  HandInv'
<1> DEFINE c == in_context[w]
<1>0. CountInv /\ Reported /\ MadeOnce /\ AllSeparated(ctx)
  BY DEF HandInv
<1>1. Reported' /\ MadeOnce' /\ AllSeparated(ctx)'
  BY <1>0, ReportHands
<1>2. /\ \A v \in Worker : v # w => Made(v)' = Made(v) /\ Succeeded(v)' = Succeeded(v)
      /\ Made(w)' = Made(w) \cup (ToSet(out) \ {c})
      /\ Succeeded(w)' = Succeeded(w) \cup IF ok THEN {t} ELSE {}
  BY <1>0, ReportAdds
<1>3. /\ Grows(ctx, ctx') /\ Turns(ctx, ctx', {c}, {c}) /\ Arrived \subseteq ToSet(out)
      /\ UNCHANGED <<config, pc, in_context>> /\ pc[w] = "running"
      /\ \A v \in Worker : v # w => todo'[v] = todo[v] /\ active'[v] = active[v]
      /\ todo'[w] \subseteq todo[w] /\ active'[w] \subseteq active[w]
      /\ Queued(queue) \subseteq Queued(queue')
  BY DEF Reporting, Turns
<1>4. c \in DOMAIN ctx /\ \A v \in Worker : InHand(v) => in_context[v] \in DOMAIN ctx
  BY <1>0, <1>3 DEF CountInv, HoldsContexts, Ids, InHand
<1>5. /\ NeverRetries' = NeverRetries /\ NoChildren' = NoChildren /\ NoRouters' = NoRouters
      /\ enable_context_gc' = enable_context_gc
  BY <1>3 DEF NeverRetries, NoChildren, NoRouters, behaviour, retry_times, enable_context_gc
<1>6. OnePlace'
  <2> SUFFICES ASSUME NeverRetries
               PROVE  /\ Awake(ctx') /\ Once(queue')
                      /\ \A v \in Worker : InHand(v) =>
                           /\ in_context[v] \notin Queued(queue')
                           /\ \A u \in Worker : InHand(u) /\ in_context[u] = in_context[v]
                                               => u = v
    BY <1>3, <1>5 DEF OnePlace, InHand
  <2>1. Awake(ctx') /\ queue' = queue
    BY DEF HandInv, OnePlace, Proper
  <2>2. QED
    BY <2>1 DEF HandInv, OnePlace
<1>7. SinkEnds'
  <2> SUFFICES ASSUME NEW v \in Worker, out_task \in Succeeded(v)'
               PROVE  ctx'[in_context[v]].destory
    BY <1>3 DEF SinkEnds
  <2>1. CASE out_task \in Succeeded(v)
    <3>1. ctx[in_context[v]].destory
      BY <2>1 DEF HandInv, SinkEnds
    <3>2. InHand(v)
      BY <2>1, <1>0 DEF Succeeded, Reported
    <3>3. QED
      BY <3>1, <3>2, <1>3, <1>4 DEF Grows, Later
  <2>2. CASE out_task \notin Succeeded(v)
    <3>1. v = w /\ ok /\ t = out_task
      BY <2>2, <1>2
    <3>2. QED
      BY <3>1 DEF Proper
  <2>3. QED
    BY <2>1, <2>2
<1>8. Somewhere'
  <2>1. NoChildren => Rooted(ctx')
    BY DEF HandInv, Somewhere, Proper
  <2>2. ASSUME NoChildren, enable_context_gc, NEW x \in Alive', x \notin Queued(queue')
        PROVE  \E v \in Worker : Keeps(v, x)'
    <3>1. CASE x \in Arrived
      <4>1. x \in ToSet(out) /\ x # c
        BY <3>1, <1>3, <1>4 DEF Arrived
      <4>2. x \in Made(w)'
        BY <4>1, <1>2
      <4>3. QED
        BY <4>2 DEF Keeps
    <3>2. CASE x \notin Arrived
      <4>1. x \in Alive /\ x \notin Queued(queue)
        BY <3>2, <2>2, <1>3, AliveBefore
      <4>2. PICK v \in Worker : Keeps(v, x)
        BY <4>1, <2>2 DEF HandInv, Somewhere
      <4>3. CASE x \in Made(v)
        BY <4>3, <1>2 DEF Keeps
      <4>4. CASE x \notin Made(v)
        <5>1. /\ in_context[v] = x /\ pc[v] = "running"
              /\ todo[v] \cup active[v] # {} \/ Succeeded(v) # {}
          BY <4>2, <4>4 DEF Keeps
        <5>2. CASE v # w
          BY <5>1, <5>2, <1>2, <1>3 DEF Keeps
        <5>3. CASE v = w
          <6>1. ok
            BY <5>1, <5>3, <2>2 DEF Proper
          <6>2. Succeeded(w)' # {}
            BY <6>1, <1>2
          <6>3. QED
            BY <6>2, <5>1, <5>3, <1>3 DEF Keeps
        <5>4. QED
          BY <5>2, <5>3
      <4>5. QED
        BY <4>3, <4>4
    <3>3. QED
      BY <3>1, <3>2
  <2>3. QED
    BY <2>1, <2>2, <1>5 DEF Somewhere
<1>9. NotYet'
  <2> SUFFICES ASSUME NeverRetries, NoChildren, NoRouters, NEW v \in Worker,
                      NEW d \in todo'[v] \cup active'[v], ctx'[in_context[v]].kind # "loop"
               PROVE  d \notin ctx'[in_context[v]].completed
    BY <1>3, <1>5 DEF NotYet
  <2>1. d \in todo[v] \cup active[v]
    BY <1>3
  <2>2. pc[v] = "running" /\ in_context[v] \in DOMAIN ctx /\ InHand(v)
    BY <2>1, <1>0, <1>4 DEF CountInv, IdleInv, Busy, InHand
  <2>3. ctx[in_context[v]].kind # "loop"
    BY <2>2, <1>3 DEF Grows, Later
  <2>4. d \notin ctx[in_context[v]].completed
    BY <2>1, <2>3 DEF HandInv, NotYet
  <2>5. CASE v = w
    BY <2>4, <2>5 DEF Proper
  <2>6. CASE v # w
    <3>1. in_context[v] # c
      BY <2>2, <2>6, <1>3 DEF HandInv, OnePlace, InHand
    <3>2. Rooted(ctx')
      BY DEF HandInv, Somewhere, Proper
    <3>3. QED
      BY <3>1, <3>2, <2>2, <2>4, <1>3 DEF Turns
  <2>7. QED
    BY <2>5, <2>6
<1>10. QED
  BY <1>1, <1>6, <1>7, <1>8, <1>9 DEF HandInv

-----------------------------------------------------------------------------
(* What the outcomes of a task leave in hand.                              *)

(* The end of a task's code that leaves r. *)
LEMMA ReturnsHands ==
  ASSUME HandInv, CountInv', UNCHANGED config, NEW w \in Worker, NEW t \in Node, t \in active[w],
         NEW r, Returns(w, t, r), Good(ctx, counter, r), Yields(ctx, in_context[w], r),
         NoChildren => (Rooted(ctx) => Rooted(r.ctx)),
         NoRouters => r.ctx[in_context[w]].completed \subseteq ctx[in_context[w]].completed,
         t = out_task => r.ctx[in_context[w]].destory
  PROVE  HandInv'
<1> DEFINE c == in_context[w]
<1>1. /\ ctx' = Told(r, t).ctx /\ active' = [active EXCEPT ![w] = @ \ {t}]
      /\ Report(w, t, r.out, TRUE) /\ UNCHANGED <<queue, pc, in_context, todo>>
  BY DEF Returns
<1>2. /\ pc[w] = "running" /\ c \in DOMAIN ctx /\ DOMAIN active = Worker
      /\ todo[w] \cap active[w] = {}
  BY DEF HandInv, CountInv, IdleInv, LoopType, Busy, HoldsContexts, Ids, Reported
<1>3. /\ DOMAIN ctx' = DOMAIN r.ctx /\ Grows(r.ctx, ctx')
      /\ Turns(ctx, ctx', {c}, {c}) /\ (Awake(ctx) => Awake(ctx'))
      /\ Rooted(r.ctx) => Rooted(ctx')
      /\ \A x \in DOMAIN r.ctx : ctx'[x].completed \subseteq r.ctx[x].completed \cup {t}
  <2> HIDE DEF c
  <2>1. Yields(ctx, c, r)
    BY DEF c
  <2>2. QED
    BY <1>1, <1>2, <2>1, ToldYields
<1>4. /\ active'[w] = active[w] \ {t} /\ todo' = todo
      /\ \A v \in Worker : v # w => active'[v] = active[v]
  BY <1>1, <1>2
<1>5. Reporting(w, t, r.out, TRUE)
  <2>1. /\ IsInjective(r.out) /\ Arrived \subseteq ToSet(r.out)
        /\ ToSet(r.out) \subseteq Arrived \cup {c}
    BY <1>3 DEF Yields, Arrived
  <2>2. QED
    BY <1>1, <1>2, <1>3, <1>4, <2>1 DEF Reporting
<1>6. c \in DOMAIN r.ctx
  BY <1>2 DEF Good, Grows
<1>7. Proper(w, t, TRUE)
  <2>1. t = out_task => ctx'[c].destory
    BY <1>3, <1>6 DEF Grows, Later
  <2>2. NoRouters => ctx'[c].completed \cap (todo'[w] \cup active'[w]) \subseteq ctx[c].completed
    BY <1>2, <1>3, <1>4, <1>6
  <2>3. QED
    BY <1>1, <1>3, <2>1, <2>2 DEF Proper
<1>8. QED
  BY <1>5, <1>7, ReportKeeps

(* A report of nothing, on a context that goes back to the queue. *)
LEMMA WaitsHands ==
  ASSUME HandInv, CountInv', UNCHANGED config, NEW w \in Worker, NEW t, ~NeverRetries,
         pc[w] = "running", Report(w, t, <<>>, FALSE), UNCHANGED <<pc, in_context>>,
         queue' = Put(queue, in_context[w], FIFO_HIGH), DOMAIN ctx' = DOMAIN ctx,
         Turns(ctx, ctx', {}, {}), Rooted(ctx) => Rooted(ctx'),
         ctx'[in_context[w]].completed = ctx[in_context[w]].completed,
         \A v \in Worker : v # w => todo'[v] = todo[v] /\ active'[v] = active[v],
         todo'[w] \subseteq todo[w] /\ active'[w] \subseteq active[w]
  PROVE  HandInv'
<1> DEFINE c == in_context[w]
<1>1. c \in Ids(ctx) /\ queue \in LanesOf(Ids(ctx))
  BY DEF HandInv, CountInv, HoldsContexts, Lanes
<1>2. Queued(queue') = Queued(queue) \cup {c}
  <2>1. FIFO_HIGH \in ContextPriority
    BY DEF ContextPriority
  <2> DEFINE S == Ids(ctx)
             q == Put(queue, c, FIFO_HIGH)
  <2> HIDE DEF S, c
  <2>2. Queued(q) = Queued(queue) \cup {c}
    BY <1>1, <2>1, PutQueued DEF S
  <2>3. QED
    BY <2>2 DEF c
<1>3. Turns(ctx, ctx', {c}, {c})
  BY DEF Turns
<1>4. IsInjective(<<>>) /\ ToSet(<<>>) = {} /\ Arrived = {}
  BY ShortLists DEF Arrived
<1>5. Reporting(w, t, <<>>, FALSE)
  BY <1>2, <1>3, <1>4 DEF Reporting
<1>6. Proper(w, t, FALSE)
  BY <1>2 DEF Proper
<1>7. QED
  BY <1>5, <1>6, ReportKeeps

(* Every end of a task's code. *)
LEMMA EndsHands ==
  ASSUME HandInv, CountInv', UNCHANGED config, NEW w \in Worker, NEW t \in Node,
         t \in active[w], Executes(w, t)
  PROVE  HandInv'
<1> DEFINE c == in_context[w]
           S == Shape(ctx) /\ Tally(ctx, counter)
<1>0. /\ c \in Ids(ctx) /\ c \in DOMAIN ctx /\ Shape(ctx) /\ Tally(ctx, counter)
      /\ pc[w] = "running" /\ LoopType /\ DOMAIN todo = Worker /\ DOMAIN active = Worker
  BY DEF HandInv, CountInv, IdleInv, LoopType, Busy, HoldsContexts, Ids
<1>1. Same(ctx, ctx)
  BY <1>0, SameRefl
<1>2. Doomed(ctx, c) \subseteq Counted(ctx)
  BY <1>0, DoomedCounted DEF Ids
<1>3. ASSUME NEW r, Ordinary(ctx, counter, r), Yields(ctx, c, r), Unmasked(ctx, r),
             Rooted(ctx) => Rooted(r.ctx), Returns(w, t, r), t # out_task
      PROVE  HandInv'
  <2>1. Good(ctx, counter, r)
    BY <1>3 DEF Ordinary
  <2>2. r.ctx[c].completed \subseteq ctx[c].completed
    BY <1>0, <1>3 DEF Unmasked
  <2>3. QED
    BY <1>3, <2>1, <2>2, ReturnsHands
<1>4. CASE ReturnSame(w, t) \/ ReturnNothing(w, t)
  <2>1. /\ t # out_task
        /\ Returns(w, t, SameResult(ctx, c)) \/ Returns(w, t, NoResult(ctx))
    BY <1>4 DEF ReturnSame, ReturnNothing, Ends
  <2> HIDE DEF c
  <2>2. Ordinary(ctx, counter, SameResult(ctx, c)) /\ Ordinary(ctx, counter, NoResult(ctx))
    BY <1>0, <1>1, SameGood DEF SameResult, NoResult
  <2>3. /\ Yields(ctx, c, SameResult(ctx, c)) /\ Unmasked(ctx, SameResult(ctx, c))
        /\ Yields(ctx, c, NoResult(ctx)) /\ Unmasked(ctx, NoResult(ctx))
        /\ Rooted(ctx) => Rooted(SameResult(ctx, c).ctx)
        /\ Rooted(ctx) => Rooted(NoResult(ctx).ctx)
    BY <1>0, SameYields
  <2>4. QED
    BY <2>1, <2>2, <2>3, <1>3
<1>5. CASE ReturnNew(w, t) \/ ReturnBoth(w, t)
  <2>1. /\ t # out_task
        /\ Returns(w, t, NewResult(ctx)) \/ Returns(w, t, ForkResult(ctx, c))
    BY <1>5 DEF ReturnNew, ReturnBoth, Ends
  <2> HIDE DEF c
  <2>2. Ordinary(ctx, counter, NewResult(ctx)) /\ Ordinary(ctx, counter, ForkResult(ctx, c))
    BY <1>0, NewGood
  <2>3. /\ Yields(ctx, c, NewResult(ctx)) /\ Unmasked(ctx, NewResult(ctx))
        /\ Yields(ctx, c, ForkResult(ctx, c)) /\ Unmasked(ctx, ForkResult(ctx, c))
        /\ Rooted(ctx) => Rooted(NewResult(ctx).ctx)
        /\ Rooted(ctx) => Rooted(ForkResult(ctx, c).ctx)
    BY <1>0, NewYields
  <2>4. QED
    BY <2>1, <2>2, <2>3, <1>3
<1>6. CASE ReturnChildren(w, t)
  <2>1. PICK k \in 1 .. 2 : Returns(w, t, ChildrenResult(ctx, c, k))
    BY <1>6 DEF ReturnChildren
  <2>2. t # out_task /\ ~NoChildren
    BY <1>6 DEF ReturnChildren, Ends, NoChildren
  <2> HIDE DEF c
  <2>3. Ordinary(ctx, counter, ChildrenResult(ctx, c, k))
    BY <1>0, ChildrenGood
  <2>4. Yields(ctx, c, ChildrenResult(ctx, c, k)) /\ Unmasked(ctx, ChildrenResult(ctx, c, k))
    BY <1>0, ChildrenYields
  <2>5. /\ Good(ctx, counter, ChildrenResult(ctx, c, k))
        /\ ChildrenResult(ctx, c, k).ctx[c].completed \subseteq ctx[c].completed
    BY <1>0, <2>3, <2>4 DEF Ordinary, Unmasked
  <2>6. QED
    BY <2>1, <2>2, <2>4, <2>5, ReturnsHands DEF c
<1>7. CASE ReturnFrozen(w, t)
  <2>1. t # out_task /\ Returns(w, t, FrozenResult(ctx, c))
    BY <1>7 DEF ReturnFrozen, Ends
  <2> HIDE DEF c
  <2>2. Ordinary(ctx, counter, FrozenResult(ctx, c))
    BY <1>0, FrozenSame, SameGood DEF FrozenResult
  <2>3. /\ Yields(ctx, c, FrozenResult(ctx, c)) /\ Unmasked(ctx, FrozenResult(ctx, c))
        /\ Rooted(ctx) => Rooted(FrozenResult(ctx, c).ctx)
    BY <1>0, FrozenYields
  <2>4. QED
    BY <2>1, <2>2, <2>3, <1>3
<1>8. CASE Route(w, t)
  <2>1. PICK R : Returns(w, t, RouteResult(ctx, c, t, R))
    BY <1>8 DEF Route
  <2>2. t # out_task /\ ~NoRouters
    BY <1>8 DEF Route, Ends, NoRouters
  <2> HIDE DEF c
  <2>3. Good(ctx, counter, RouteResult(ctx, c, t, R))
    BY <1>0, CompleteAllSame, SameGood DEF RouteResult, Ordinary
  <2>4. /\ Yields(ctx, c, RouteResult(ctx, c, t, R))
        /\ Rooted(ctx) => Rooted(RouteResult(ctx, c, t, R).ctx)
    BY <1>0, RouteYields
  <2>5. QED
    BY <2>1, <2>2, <2>3, <2>4, ReturnsHands DEF c
<1>9. CASE Misroute(w, t) \/ LoopExhausted(w, t)
  <2>1. PICK D : /\ t # out_task /\ D \subseteq Doomed(ctx, c)
                 /\ Returns(w, t, DestroyedResult(ctx, D))
    <3>1. CASE Misroute(w, t)
      BY <3>1 DEF Misroute, Ends
    <3>2. CASE LoopExhausted(w, t)
      <4> DEFINE E == IF ctx[c].kind = "loop" THEN Doomed(ctx, c) ELSE {}
      <4>1. t # out_task /\ E \subseteq Doomed(ctx, c)
        BY <3>2 DEF LoopExhausted, Ends
      <4>2. Returns(w, t, DestroyedResult(ctx, E))
        BY <3>2 DEF LoopExhausted, ExhaustedResult
      <4> HIDE DEF E
      <4>3. QED
        BY <4>1, <4>2
    <3>3. QED
      BY <1>9, <3>1, <3>2
  <2>2. D \subseteq Counted(ctx)
    BY <1>2, <2>1
  <2> HIDE DEF c
  <2>3. Ordinary(ctx, counter, DestroyedResult(ctx, D))
    BY <1>0, <1>1, <2>2, DestroyedGood
  <2>4. /\ Yields(ctx, c, DestroyedResult(ctx, D)) /\ Unmasked(ctx, DestroyedResult(ctx, D))
        /\ Rooted(ctx) => Rooted(DestroyedResult(ctx, D).ctx)
    BY <1>0, DestroyedYields
  <2>5. QED
    BY <2>1, <2>3, <2>4, <1>3
<1>10. CASE LoopYield(w, t)
  <2>1. t # out_task /\ Returns(w, t, YieldResult(ctx, c, t))
    BY <1>10 DEF LoopYield, Ends
  <2> HIDE DEF c
  <2>2. Ordinary(ctx, counter, YieldResult(ctx, c, t))
    BY <1>0, YieldGood
  <2>3. /\ Yields(ctx, c, YieldResult(ctx, c, t)) /\ Unmasked(ctx, YieldResult(ctx, c, t))
        /\ Rooted(ctx) => Rooted(YieldResult(ctx, c, t).ctx)
    BY <1>0, YieldYields
  <2>4. QED
    BY <2>1, <2>2, <2>3, <1>3
<1>11. CASE RaiseRetry(w, t)
  <2>1. PICK n, A : ctx' = Retrying(ctx, c, t, n, A)
    BY <1>11 DEF RaiseRetry, Retrying
  <2>2. /\ queue' = Put(queue, c, FIFO_HIGH) /\ Report(w, t, <<>>, FALSE)
        /\ UNCHANGED <<counter, pc, in_context, todo>> /\ "raise" \in behaviour[t]
        /\ active' = [active EXCEPT ![w] = @ \ {t}] /\ retry_times[t] > 0
    BY <1>11 DEF RaiseRetry, Ends, Retried
  <2>3. ~NeverRetries
    BY <2>2 DEF NeverRetries
  <2>4. /\ DOMAIN ctx' = DOMAIN ctx /\ Turns(ctx, ctx', {}, {}) /\ (Rooted(ctx) => Rooted(ctx'))
        /\ ctx'[c].completed = ctx[c].completed
    <3> HIDE DEF c
    <3>1. QED
      BY <1>0, <2>1, RetryTurns
  <2>5. /\ \A v \in Worker : v # w => todo'[v] = todo[v] /\ active'[v] = active[v]
        /\ todo'[w] \subseteq todo[w] /\ active'[w] \subseteq active[w]
    BY <1>0, <2>2
  <2>6. QED
    BY <1>0, <2>2, <2>3, <2>4, <2>5, WaitsHands
<1>12. CASE RaiseError(w, t)
  <2>1. PICK n : Returns(w, t, DestroyedResult([ctx EXCEPT ![c].retry[t] = n], Doomed(ctx, c)))
    BY <1>12 DEF RaiseError
  <2>2. t # out_task
    BY <1>12 DEF RaiseError, Ends
  <2> DEFINE r == DestroyedResult([ctx EXCEPT ![c].retry[t] = n], Doomed(ctx, c))
  <2> HIDE DEF c
  <2>3. Same(ctx, [ctx EXCEPT ![c].retry[t] = n])
    BY <1>0, RetrySame
  <2>4. Ordinary(ctx, counter, r)
    BY <1>0, <1>2, <2>3, DestroyedGood
  <2>5. Yields(ctx, c, r) /\ Unmasked(ctx, r) /\ (Rooted(ctx) => Rooted(r.ctx))
    BY <1>0, FailedYields
  <2>6. Returns(w, t, r)
    BY <2>1
  <2> HIDE DEF r
  <2>7. QED
    BY <2>2, <2>4, <2>5, <2>6, <1>3
<1>13. CASE t = out_task /\ RunSink(w)
  <2>1. Returns(w, t, SinkResult(ctx, c))
    BY <1>13 DEF RunSink
  <2> HIDE DEF c
  <2>2. Good(ctx, counter, SinkResult(ctx, c))
    BY <1>0, SinkGood
  <2>3. /\ Yields(ctx, c, SinkResult(ctx, c)) /\ Unmasked(ctx, SinkResult(ctx, c))
        /\ Rooted(ctx) => Rooted(SinkResult(ctx, c).ctx)
        /\ SinkResult(ctx, c).ctx[c].destory
    BY <1>0, SinkYields
  <2>4. SinkResult(ctx, c).ctx[c].completed \subseteq ctx[c].completed
    BY <1>0, <2>3 DEF Unmasked
  <2>5. QED
    BY <2>1, <2>2, <2>3, <2>4, ReturnsHands DEF c
<1>14. QED
  BY <1>4, <1>5, <1>6, <1>7, <1>8, <1>9, <1>10, <1>11, <1>12, <1>13 DEF Executes

(* A rate limited task returns its context. *)
LEMMA LimitedHands ==
  ASSUME HandInv, CountInv', UNCHANGED config, NEW w \in Worker, NEW t, RateLimited(w, t)
  PROVE  HandInv'
<1> DEFINE c == in_context[w]
<1>1. /\ t \in active[w] /\ t # out_task /\ Report(w, t, <<c>>, TRUE)
      /\ active' = [active EXCEPT ![w] = @ \ {t}]
      /\ UNCHANGED <<ctx, queue, pc, in_context, todo>>
  BY DEF RateLimited, Ends
<1>2. pc[w] = "running" /\ DOMAIN active = Worker /\ c \in DOMAIN ctx
  BY <1>1 DEF HandInv, CountInv, IdleInv, LoopType, Busy, HoldsContexts, Ids
<1>3. Turns(ctx, ctx', {c}, {c}) /\ (Rooted(ctx) => Rooted(ctx')) /\ (Awake(ctx) => Awake(ctx'))
  BY <1>1 DEF Turns, Grows, Later
<1>4. IsInjective(<<c>>) /\ ToSet(<<c>>) = {c} /\ Arrived = {}
  BY <1>1, ShortLists DEF Arrived
<1>5. /\ todo' = todo /\ active'[w] \subseteq active[w]
      /\ \A v \in Worker : v # w => active'[v] = active[v]
  BY <1>1, <1>2
<1>6. Reporting(w, t, <<c>>, TRUE)
  BY <1>1, <1>2, <1>3, <1>4, <1>5 DEF Reporting
<1>7. Proper(w, t, TRUE)
  BY <1>1, <1>3 DEF Proper
<1>8. QED
  BY <1>6, <1>7, ReportKeeps

(* A task coroutine starts, or puts the context back to wait. *)
LEMMA StartsHands ==
  ASSUME HandInv, CountInv', UNCHANGED config, NEW w \in Worker, NEW t,
         NotAwake(w, t) \/ StartTask(w, t)
  PROVE  HandInv'
<1> DEFINE c == in_context[w]
<1>0. /\ DOMAIN active = Worker /\ DOMAIN todo = Worker /\ t \in todo[w]
      /\ pc[w] = "running" /\ c \in DOMAIN ctx
  BY DEF NotAwake, StartTask, MayStart, HandInv, CountInv, IdleInv, LoopType, Busy,
         HoldsContexts, Ids
<1>1. CASE NotAwake(w, t)
  <2>1. /\ queue' = Put(queue, c, FIFO_HIGH) /\ Report(w, t, <<>>, FALSE)
        /\ UNCHANGED <<ctx, pc, in_context, active>> /\ t \in ctx[c].asleep
        /\ todo' = [todo EXCEPT ![w] = @ \ {t}]
    BY <1>1 DEF NotAwake
  <2>2. ~NeverRetries
    BY <1>0, <2>1 DEF HandInv, OnePlace, Awake
  <2>3. DOMAIN ctx' = DOMAIN ctx /\ Turns(ctx, ctx', {}, {}) /\ (Rooted(ctx) => Rooted(ctx'))
    BY <2>1 DEF Turns, Grows, Later
  <2>4. /\ \A v \in Worker : v # w => todo'[v] = todo[v] /\ active'[v] = active[v]
        /\ todo'[w] \subseteq todo[w] /\ active'[w] \subseteq active[w]
    BY <1>0, <2>1
  <2>5. QED
    BY <1>0, <2>1, <2>2, <2>3, <2>4, WaitsHands
<1>2. CASE StartTask(w, t)
  <2>1. /\ UNCHANGED <<config, ctx, counter, queue, pc, in_context, results>>
        /\ todo' = [todo EXCEPT ![w] = @ \ {t}]
        /\ active' = [active EXCEPT ![w] = @ \cup {t}]
    BY <1>2 DEF StartTask
  <2>2. /\ \A v \in Worker : todo'[v] \cup active'[v] = todo[v] \cup active[v]
        /\ \A v \in Worker : todo[v] \cap active[v] = {} => todo'[v] \cap active'[v] = {}
    BY <1>0, <2>1
  <2>3. \A v \in Worker : Made(v)' = Made(v) /\ Succeeded(v)' = Succeeded(v)
                         /\ InHand(v)' = InHand(v)
    BY <2>1 DEF Made, Brought, Succeeded, InHand
  <2>4. Reported' /\ MadeOnce' /\ AllSeparated(ctx)'
    BY <2>1, <2>2, <2>3 DEF HandInv, Reported, MadeOnce
  <2>5. /\ NeverRetries' = NeverRetries /\ NoChildren' = NoChildren /\ NoRouters' = NoRouters
        /\ enable_context_gc' = enable_context_gc /\ Alive' = Alive
    BY <2>1 DEF NeverRetries, NoChildren, NoRouters, behaviour, retry_times, enable_context_gc,
                Alive
  <2>6. OnePlace'
    BY <2>1, <2>3, <2>5 DEF HandInv, OnePlace
  <2>7. SinkEnds'
    BY <2>1, <2>3 DEF HandInv, SinkEnds
  <2>8. \A v \in Worker : \A x : Keeps(v, x)' = Keeps(v, x)
    BY <2>1, <2>2, <2>3 DEF Keeps
  <2>9. Somewhere'
    BY <2>1, <2>5, <2>8 DEF HandInv, Somewhere
  <2>10. NotYet'
    BY <2>1, <2>2, <2>5 DEF HandInv, NotYet
  <2>11. QED
    BY <2>4, <2>6, <2>7, <2>9, <2>10 DEF HandInv
<1>3. QED
  BY <1>1, <1>2

-----------------------------------------------------------------------------
(* Taking a context, and waiting.                                          *)

(* A step that gives no worker a context and takes none from it; a context *)
(* may leave the queue if it is not alive.                                 *)
Idles ==
  /\ UNCHANGED <<config, in_context, todo, active, results>>
  /\ \A v \in Worker : InHand(v) => pc'[v] = pc[v]
  /\ \A v \in Worker : InHand(v)' => InHand(v)
  /\ DOMAIN ctx' = DOMAIN ctx /\ Turns(ctx, ctx', {}, {})
  /\ (Awake(ctx) => Awake(ctx')) /\ (Rooted(ctx) => Rooted(ctx'))
  /\ Queued(queue') \subseteq Queued(queue) /\ (Once(queue) => Once(queue'))
  /\ \A x \in Alive' : x \in Queued(queue) => x \in Queued(queue')

LEMMA IdlesHands ==
  ASSUME HandInv, CountInv', Idles
  PROVE  HandInv'
<1>0. /\ UNCHANGED <<config, in_context, todo, active, results>>
      /\ \A v \in Worker : InHand(v) => pc'[v] = pc[v]
      /\ \A v \in Worker : InHand(v)' => InHand(v)
      /\ DOMAIN ctx' = DOMAIN ctx /\ Turns(ctx, ctx', {}, {}) /\ Grows(ctx, ctx')
      /\ Queued(queue') \subseteq Queued(queue)
  BY DEF Idles, Turns
<1>1. \A v \in Worker : Made(v)' = Made(v) /\ Succeeded(v)' = Succeeded(v)
                       /\ Brought(v)' = Brought(v)
  BY <1>0 DEF Made, Brought, Succeeded
<1>2. CountInv /\ Reported /\ MadeOnce
  BY DEF HandInv
<1>3. /\ \A v \in Worker : Made(v) \subseteq DOMAIN ctx
      /\ \A v \in Worker : InHand(v) => in_context[v] \in DOMAIN ctx
      /\ \A v \in Worker : todo[v] \cup active[v] # {} => InHand(v)
      /\ \A v \in Worker : ~InHand(v) => results[v] = {}
  <2>1. \A v \in Worker : Made(v) \subseteq DOMAIN ctx
    BY <1>2, HeldExist DEF Made
  <2>2. \A v \in Worker : InHand(v) => in_context[v] \in DOMAIN ctx
    BY <1>2 DEF CountInv, HoldsContexts, Ids, InHand
  <2>3. \A v \in Worker : todo[v] \cup active[v] # {} => InHand(v)
    BY <1>2 DEF CountInv, IdleInv, Busy, InHand
  <2>4. QED
    BY <1>2, <2>1, <2>2, <2>3 DEF Reported
<1>4. /\ NeverRetries' = NeverRetries /\ NoChildren' = NoChildren /\ NoRouters' = NoRouters
      /\ enable_context_gc' = enable_context_gc
  BY <1>0 DEF NeverRetries, NoChildren, NoRouters, behaviour, retry_times, enable_context_gc
<1>a. \A v \in Worker : ~InHand(v) => ~InHand(v)'
  BY <1>0
<1>b. \A v \in Worker : InHand(v) => InHand(v)'
  BY <1>0 DEF InHand
<1>5. Reported'
  BY <1>0, <1>2, <1>3, <1>b DEF Reported
<1>6. MadeOnce'
  BY <1>0, <1>1, <1>2, <1>3 DEF MadeOnce, Turns
<1>7. AllSeparated(ctx)'
  BY <1>0 DEF HandInv, Turns
<1>8. OnePlace'
  <2> SUFFICES ASSUME NeverRetries
               PROVE  /\ Awake(ctx') /\ Once(queue')
                      /\ \A w \in Worker : InHand(w)' =>
                           /\ in_context[w] \notin Queued(queue')
                           /\ \A v \in Worker : InHand(v)' /\ in_context[v] = in_context[w]
                                               => v = w
    BY <1>0, <1>4 DEF OnePlace
  <2>1. Awake(ctx') /\ Once(queue')
    BY DEF HandInv, OnePlace, Idles
  <2>2. QED
    BY <1>0, <2>1 DEF HandInv, OnePlace
<1>9. SinkEnds'
  <2> SUFFICES ASSUME NEW v \in Worker, out_task \in Succeeded(v) PROVE ctx'[in_context[v]].destory
    BY <1>0, <1>1 DEF SinkEnds
  <2>1. ctx[in_context[v]].destory /\ InHand(v)
    BY <1>3 DEF HandInv, SinkEnds, Succeeded
  <2>2. QED
    BY <2>1, <1>0, <1>3 DEF Grows, Later
<1>10. Somewhere'
  <2>1. NoChildren => Rooted(ctx')
    BY DEF HandInv, Somewhere, Idles
  <2>2. ASSUME NoChildren, enable_context_gc, NEW x \in Alive', x \notin Queued(queue')
        PROVE  \E v \in Worker : Keeps(v, x)'
    <3>1. x \in Alive /\ x \notin Queued(queue)
      <4>1. x \notin Arrived
        BY <1>0 DEF Arrived
      <4>2. QED
        BY <2>2, <4>1, <1>0, AliveBefore DEF Idles
    <3>2. PICK v \in Worker : Keeps(v, x)
      BY <3>1, <2>2 DEF HandInv, Somewhere
    <3>3. Keeps(v, x)'
      <4>1. pc[v] = "running" => pc'[v] = "running"
        BY <1>0 DEF InHand
      <4>2. QED
        BY <4>1, <3>2, <1>0, <1>1 DEF Keeps
    <3>4. QED
      BY <3>3
  <2>3. QED
    BY <2>1, <2>2, <1>4 DEF Somewhere
<1>11. NotYet'
  <2> SUFFICES ASSUME NeverRetries, NoChildren, NoRouters, NEW v \in Worker,
                      NEW d \in todo[v] \cup active[v], ctx'[in_context[v]].kind # "loop"
               PROVE  d \notin ctx'[in_context[v]].completed
    BY <1>0, <1>4 DEF NotYet
  <2>1. in_context[v] \in DOMAIN ctx
    BY <1>3
  <2>2. ctx[in_context[v]].kind # "loop"
    BY <2>1, <1>0 DEF Grows, Later
  <2>3. d \notin ctx[in_context[v]].completed
    BY <2>2 DEF HandInv, NotYet
  <2>4. Rooted(ctx')
    BY DEF HandInv, Somewhere, Idles
  <2>5. QED
    BY <2>1, <2>3, <2>4, <1>0 DEF Turns
<1>12. QED
  BY <1>5, <1>6, <1>7, <1>8, <1>9, <1>10, <1>11 DEF HandInv

(* The first of the queue. *)
LEMMA Fetched ==
  ASSUME CountInv, ~IsEmpty(queue)
  PROVE  /\ First(queue) \in Queued(queue) /\ First(queue) \in Ids(ctx)
         /\ First(queue) \in DOMAIN ctx
         /\ Queued(queue) = Queued(Pop(queue)) \cup {First(queue)}
         /\ Once(queue) => Once(Pop(queue)) /\ First(queue) \notin Queued(Pop(queue))
<1> DEFINE S == Ids(ctx)
<1>1. queue \in LanesOf(S)
  BY DEF CountInv, HoldsContexts, Lanes
<1>2. First(queue) \in DOMAIN ctx /\ First(queue) \in Ids(ctx)
  BY <1>1, Served DEF Ids
<1> HIDE DEF S
<1>3. /\ Queued(queue) = Queued(Pop(queue)) \cup {First(queue)}
      /\ Once(queue) => Once(Pop(queue)) /\ First(queue) \notin Queued(Pop(queue))
  BY <1>1, PopQueued
<1>4. QED
  BY <1>2, <1>3

(* A worker waits, stops, or finds a context without work. *)
LEMMA PollHands ==
  ASSUME HandInv, CountInv', UNCHANGED config, NEW w \in Worker,
         Stop(w) \/ Wait(w) \/ SkipDestroyed(w) \/ DestroyStalled(w) \/ Timeout(w)
  PROVE  HandInv'
<1>0. DOMAIN pc = Worker /\ CountInv /\ Shape(ctx)
  BY DEF HandInv, CountInv, IdleInv, LoopType
<1>1. /\ UNCHANGED <<in_context, todo, active, results>> /\ pc[w] \in {"poll", "waiting"}
      /\ \/ pc' = [pc EXCEPT ![w] = "poll"] \/ pc' = [pc EXCEPT ![w] = "waiting"]
         \/ pc' = [pc EXCEPT ![w] = "stopped"]
  BY DEF Stop, Wait, SkipDestroyed, DestroyStalled, Timeout, Gets
<1>2. /\ \A v \in Worker : InHand(v) => pc'[v] = pc[v]
      /\ \A v \in Worker : InHand(v)' => InHand(v)
  BY <1>0, <1>1 DEF InHand
<1>3. /\ DOMAIN ctx' = DOMAIN ctx /\ Turns(ctx, ctx', {}, {})
      /\ (Awake(ctx) => Awake(ctx')) /\ (Rooted(ctx) => Rooted(ctx'))
  <2>1. CASE UNCHANGED ctx
    BY <2>1, StillTurns
  <2>2. CASE DestroyStalled(w)
    <3> DEFINE D == Doomed(ctx, First(queue))
    <3>1. ctx' = Destory(ctx, D)
      BY <2>2 DEF DestroyStalled
    <3> HIDE DEF D
    <3>2. /\ DOMAIN ctx' = DOMAIN ctx /\ Grows(ctx, ctx')
          /\ \A x \in DOMAIN ctx : Alike(ctx[x], ctx'[x])
      BY <1>0, <3>1, DestoryAlike
    <3>3. Turns(ctx, ctx', {}, {})
      BY <3>2 DEF Turns, Alike, AllSeparated, Separated
    <3>4. QED
      BY <3>2, <3>3 DEF Alike, Awake, Rooted
  <2>3. QED
    BY <2>1, <2>2 DEF Stop, Wait, SkipDestroyed, Timeout
<1>4. /\ Queued(queue') \subseteq Queued(queue) /\ (Once(queue) => Once(queue'))
      /\ \A x \in Alive' : x \in Queued(queue) => x \in Queued(queue')
  <2>1. CASE UNCHANGED queue
    BY <2>1
  <2>2. CASE SkipDestroyed(w) \/ DestroyStalled(w)
    <3> DEFINE c == First(queue)
    <3>1. ~IsEmpty(queue) /\ queue' = Pop(queue)
      BY <2>2 DEF SkipDestroyed, DestroyStalled, Gets
    <3>2. /\ c \in Queued(queue) /\ c \in Ids(ctx) /\ c \in DOMAIN ctx
          /\ Queued(queue) = Queued(queue') \cup {c}
          /\ Once(queue) => Once(queue')
      BY <1>0, <3>1, Fetched
    <3>3. ctx'[c].destory
      <4>1. CASE SkipDestroyed(w)
        BY <4>1 DEF SkipDestroyed
      <4>2. CASE DestroyStalled(w)
        <5>1. ctx' = Destory(ctx, Doomed(ctx, c)) /\ ~ctx[c].destory
          BY <4>2 DEF DestroyStalled
        <5> HIDE DEF c
        <5>2. c \in Doomed(ctx, c)
          BY <1>0, <3>2, <5>1, DoomedCounted DEF Ids
        <5>3. QED
          BY <1>0, <3>2, <5>1, <5>2, DestoryEnds
      <4>3. QED
        BY <2>2, <4>1, <4>2
    <3>4. c \notin Alive'
      BY <3>3 DEF Alive, Counted, Live
    <3>5. QED
      BY <3>2, <3>4
  <2>3. QED
    BY <2>1, <2>2 DEF Stop, Wait, Timeout
<1>5. Idles
  BY <1>1, <1>2, <1>3, <1>4 DEF Idles
<1>6. QED
  BY <1>5, IdlesHands

(* The time in awake_time passes. *)
LEMMA WakesHands ==
  ASSUME HandInv, CountInv', NEW c \in DOMAIN ctx, NEW t, AwakeTimePasses(c, t)
  PROVE  HandInv'
<1>0. Shape(ctx)
  BY DEF HandInv, CountInv
<1> DEFINE A == ctx[c].asleep \ {t}
<1>1. /\ ctx' = Waiting(ctx, c, A)
      /\ UNCHANGED <<config, queue, pc, in_context, todo, active, results>>
  BY DEF AwakeTimePasses, Waiting
<1> HIDE DEF A
<1>2. /\ DOMAIN ctx' = DOMAIN ctx /\ Turns(ctx, ctx', {}, {}) /\ (Rooted(ctx) => Rooted(ctx'))
      /\ ctx'[c].asleep = A
      /\ \A x \in DOMAIN ctx : ctx'[x].destory = ctx[x].destory
      /\ \A x \in DOMAIN ctx : x # c => ctx'[x] = ctx[x]
  BY <1>0, <1>1, RetryTurns
<1>3. Awake(ctx) => Awake(ctx')
  BY <1>2 DEF Awake, A
<1>4. Idles
  BY <1>1, <1>2, <1>3 DEF Idles, InHand
<1>5. QED
  BY <1>4, IdlesHands

(* A worker takes a context that has work. *)
LEMMA GetHands ==
  ASSUME HandInv, CountInv', UNCHANGED config, NEW w \in Worker, GetContext(w)
  PROVE  HandInv'
<1> DEFINE c == First(queue)
<1>0. /\ CountInv /\ Reported /\ MadeOnce /\ DOMAIN pc = Worker /\ DOMAIN todo = Worker
      /\ DOMAIN in_context = Worker
  BY DEF HandInv, CountInv, IdleInv, LoopType, HoldsContexts
<1>1. /\ ~IsEmpty(queue) /\ queue' = Pop(queue) /\ pc[w] \in {"poll", "waiting"}
      /\ UNCHANGED <<ctx, active, results>> /\ ctx[c].available # {}
      /\ pc' = [pc EXCEPT ![w] = "running"]
      /\ in_context' = [in_context EXCEPT ![w] = c]
      /\ todo' = [todo EXCEPT ![w] = ctx[c].available]
  BY DEF GetContext, Gets
<1>2. /\ c \in Queued(queue) /\ c \in DOMAIN ctx
      /\ Queued(queue) = Queued(queue') \cup {c}
      /\ Once(queue) => Once(queue') /\ c \notin Queued(queue')
  BY <1>0, <1>1, Fetched
<1> HIDE DEF c
<1>3. /\ in_context'[w] = c /\ pc'[w] = "running" /\ todo'[w] = ctx[c].available
      /\ \A v \in Worker : v # w => /\ in_context'[v] = in_context[v] /\ pc'[v] = pc[v]
                                    /\ todo'[v] = todo[v]
  BY <1>0, <1>1
<1>4. results[w] = {} /\ active[w] = {} /\ ~InHand(w)
  <2>1. ~InHand(w) /\ pc[w] # "running"
    BY <1>1 DEF InHand
  <2>2. QED
    BY <2>1, <1>0 DEF Reported, CountInv, IdleInv, Busy
<1>5. /\ Made(w)' = {} /\ Made(w) = {} /\ Succeeded(w)' = {}
      /\ \A v \in Worker : v # w => Made(v)' = Made(v) /\ Succeeded(v)' = Succeeded(v)
  <2>1. Brought(w)' = {} /\ Brought(w) = {}
    BY <1>1, <1>4, ContentsAdd DEF Brought
  <2>2. \A v \in Worker : v # w => Made(v)' = Made(v)
    BY <1>1, <1>3 DEF Made, Brought
  <2>3. \A v \in Worker : Succeeded(v)' = Succeeded(v)
    BY <1>1 DEF Succeeded
  <2>4. Succeeded(w) = {}
    BY <1>4 DEF Succeeded
  <2>5. QED
    BY <2>1, <2>2, <2>3, <2>4 DEF Made
<1>6. /\ InHand(w)' /\ \A v \in Worker : v # w => InHand(v)' = InHand(v)
  BY <1>3 DEF InHand
<1>7. /\ NeverRetries' = NeverRetries /\ NoChildren' = NoChildren /\ NoRouters' = NoRouters
      /\ enable_context_gc' = enable_context_gc /\ Alive' = Alive
  BY <1>1 DEF NeverRetries, NoChildren, NoRouters, behaviour, retry_times, enable_context_gc,
              Alive
<1>8. Reported'
  <2>1. ASSUME NEW v \in Worker
        PROVE  /\ IsFiniteSet(results[v]) /\ (~InHand(v)' => results[v] = {})
               /\ in_context'[v] \in {0} \cup DOMAIN ctx
               /\ todo'[v] \cap active[v] = {}
               /\ \A r \in results[v] : IsInjective(r.contexts)
    <3>1. CASE v = w
      BY <3>1, <1>0, <1>2, <1>3, <1>4, <1>6 DEF Reported
    <3>2. CASE v # w
      BY <3>2, <1>0, <1>3, <1>6 DEF Reported
    <3>3. QED
      BY <3>1, <3>2
  <2>2. QED
    BY <2>1, <1>1 DEF Reported
<1>9. MadeOnce'
  <2>1. ASSUME NEW v \in Worker, NEW x \in Made(v)'
        PROVE  /\ x \notin Queued(queue') /\ ~ctx[x].freezing
               /\ \A u \in Worker : in_context'[u] # x /\ (u # v => x \notin Made(u)')
    <3>1. v # w /\ x \in Made(v)
      BY <2>1, <1>5
    <3>2. /\ x \notin Queued(queue) /\ ~ctx[x].freezing
          /\ \A u \in Worker : in_context[u] # x /\ (u # v => x \notin Made(u))
      BY <3>1, <1>0 DEF MadeOnce
    <3>3. x # c
      BY <3>2, <1>2
    <3>4. QED
      BY <3>2, <3>3, <1>2, <1>3, <1>5
  <2>2. QED
    BY <2>1, <1>1 DEF MadeOnce
<1>10. AllSeparated(ctx)'
  BY <1>1 DEF HandInv
<1>11. OnePlace'
  <2> SUFFICES ASSUME NeverRetries
               PROVE  /\ Awake(ctx') /\ Once(queue')
                      /\ \A v \in Worker : InHand(v)' =>
                           /\ in_context'[v] \notin Queued(queue')
                           /\ \A u \in Worker : InHand(u)' /\ in_context'[u] = in_context'[v]
                                               => u = v
    BY <1>7 DEF OnePlace
  <2>1. /\ Awake(ctx) /\ Once(queue)
        /\ \A v \in Worker : InHand(v) =>
             /\ in_context[v] \notin Queued(queue)
             /\ \A u \in Worker : InHand(u) /\ in_context[u] = in_context[v] => u = v
    BY DEF HandInv, OnePlace
  <2>2. \A v \in Worker : v # w /\ InHand(v)' => in_context'[v] \notin Queued(queue) 
    BY <2>1, <1>3, <1>6
  <2>3. \A v \in Worker : v # w /\ InHand(v)' => in_context'[v] # c
    BY <2>2, <1>2
  <2>4. QED
    BY <2>1, <2>2, <2>3, <1>1, <1>2, <1>3, <1>6
<1>12. SinkEnds'
  BY <1>1, <1>3, <1>5 DEF HandInv, SinkEnds
<1>13. Somewhere'
  <2>1. ASSUME NoChildren, enable_context_gc, NEW x \in Alive, x \notin Queued(queue')
        PROVE  \E v \in Worker : Keeps(v, x)'
    <3>1. CASE x = c
      <4>1. Keeps(w, x)'
        BY <3>1, <1>1, <1>3 DEF Keeps
      <4>2. QED
        BY <4>1
    <3>2. CASE x # c
      <4>1. PICK v \in Worker : Keeps(v, x)
        BY <2>1, <3>2, <1>2 DEF HandInv, Somewhere
      <4>2. v # w
        BY <4>1, <1>4, <1>5 DEF Keeps, InHand
      <4>3. Keeps(v, x)'
        BY <4>1, <4>2, <1>1, <1>3, <1>5 DEF Keeps
      <4>4. QED
        BY <4>3
    <3>3. QED
      BY <3>1, <3>2
  <2>2. NoChildren => Rooted(ctx')
    BY <1>1 DEF HandInv, Somewhere
  <2>3. QED
    BY <2>1, <2>2, <1>7 DEF Somewhere
<1>14. NotYet'
  <2> SUFFICES ASSUME NeverRetries, NoChildren, NoRouters, NEW v \in Worker,
                      NEW d \in todo'[v] \cup active[v], ctx[in_context'[v]].kind # "loop"
               PROVE  d \notin ctx[in_context'[v]].completed
    BY <1>1, <1>7 DEF NotYet
  <2>1. CASE v = w
    <3>1. Separated(ctx[c])
      BY <1>2 DEF HandInv, AllSeparated
    <3>2. QED
      BY <2>1, <3>1, <1>3, <1>4 DEF Separated
  <2>2. CASE v # w
    BY <2>2, <1>3 DEF HandInv, NotYet
  <2>3. QED
    BY <2>1, <2>2
<1>15. QED
  BY <1>8, <1>9, <1>10, <1>11, <1>12, <1>13, <1>14 DEF HandInv

-----------------------------------------------------------------------------
(* Gathering.                                                              *)

(* What the tasks of w returned, once each. *)
LEMMA ListIs ==
  ASSUME CountInv, Reported, NEW w \in Worker, NEW out \in ContextLists(w)
  PROVE  out \in Seq(DOMAIN ctx) /\ ToSet(out) = Brought(w) /\ IsInjective(out)
<1> DEFINE R == results[w]
           lists == {r.contexts : r \in R}
           S == UNION {ToSet(l) : l \in lists}
<1>1. out \in Seq(DOMAIN ctx)
  BY ListsAreContexts
<1>2. IsFiniteSet(R) /\ \A r \in R : IsInjective(r.contexts)
  BY DEF Reported
<1>3. S = Brought(w)
  BY DEF Brought, Contents
<1>4. CASE Cardinality(R) > 1
  <2>1. IsFiniteSet(S)
    <3>1. S \subseteq DOMAIN ctx
      BY <1>3, HeldExist
    <3>2. DOMAIN ctx = 1 .. Len(ctx) /\ Len(ctx) \in Nat
      BY DEF CountInv, Shape
    <3>3. IsFiniteSet(DOMAIN ctx)
      BY <3>2, FS_Interval
    <3> HIDE DEF S
    <3>4. QED
      BY <3>1, <3>3, FS_Subset
  <2>2. out \in SetToSeqs(S)
    BY <1>4 DEF ContextLists
  <2> HIDE DEF S
  <2>3. ToSet(out) = S /\ IsInjective(out)
    BY <2>1, <2>2, OrderedSet
  <2>4. QED
    BY <1>1, <1>3, <2>3
<1>5. CASE ~(Cardinality(R) > 1)
  <2>1. PICK r \in R : out = r.contexts
    BY <1>5 DEF ContextLists
  <2>2. \A q \in R : q = r
    <3>1. ASSUME NEW q \in R, q # r PROVE FALSE
      <4>1. Cardinality(R) \in Nat
        BY <1>2, FS_CardinalityType
      <4>2. /\ IsFiniteSet(R \ {r}) /\ Cardinality(R \ {r}) = Cardinality(R) - 1
        BY <1>2, <2>1, FS_RemoveElement
      <4>3. q \in R \ {r}
        BY <3>1
      <4>4. Cardinality(R \ {r}) # 0 /\ Cardinality(R \ {r}) \in Nat
        BY <4>2, <4>3, FS_EmptySet, FS_CardinalityType
      <4>5. QED
        BY <1>5, <4>1, <4>2, <4>4
    <3>2. QED
      BY <3>1
  <2>3. Contents(R) = ToSet(r.contexts)
    BY <2>1, <2>2 DEF Contents
  <2>4. QED
    BY <1>1, <1>2, <2>1, <2>3 DEF Brought
<1>6. QED
  BY <1>4, <1>5

(* A root has no ancestor that is collected. *)
LEMMA RootAncestors ==
  ASSUME NEW cs, Shape(cs), Rooted(cs), NEW c \in DOMAIN cs
  PROVE  LiveAncestors(cs, c) = {}
<1> DEFINE L == Len(cs)
           step(f, n) == IF n = 0 THEN {} ELSE IF cs[n].destory THEN {}
                         ELSE {n} \cup f[cs[n].parent]
           up == CHOOSE f : f = [n \in 0 .. L |-> step(f, n)]
           g == [n \in 0 .. L |-> IF n = 0 THEN {} ELSE IF cs[n].destory THEN {} ELSE {n}]
<1>0. L \in Nat /\ DOMAIN cs = 1 .. L /\ \A n \in 1 .. L : cs[n].parent = 0
  BY DEF Shape, Rooted
<1> HIDE DEF L
<1>1. g = [n \in 0 .. L |-> step(g, n)]
  <2>1. \A n \in 0 .. L : n # 0 => g[cs[n].parent] = {}
    BY <1>0
  <2>2. \A n \in 0 .. L : g[n] = step(g, n)
    BY <2>1
  <2>3. g = [n \in 0 .. L |-> g[n]]
    OBVIOUS
  <2> HIDE DEF g
  <2>4. QED
    BY <2>2, <2>3
<1> HIDE DEF g
<1>2. up = [n \in 0 .. L |-> step(up, n)]
  BY <1>1
<1>3. LiveAncestors(cs, c) = up[cs[c].parent]
  BY DEF LiveAncestors, L
<1> HIDE DEF up
<1>4. up[0] = {}
  BY <1>0, <1>2
<1>5. cs[c].parent = 0
  BY <1>0
<1>6. QED
  BY <1>3, <1>4, <1>5

(* A root has no child while none has a parent. *)
LEMMA RootChildless ==
  ASSUME NEW cs, Shape(cs), NEW n, Tally(cs, n), Rooted(cs), NEW c \in DOMAIN cs
  PROVE  cs[c].child_num = 0
<1>1. Children(cs, c) = {}
  BY DEF Shape, Rooted, Children, Counted, Live
<1>2. QED
  BY <1>1, FS_EmptySet DEF Tally

(* _context_postprocess. *)
LEMMA PostTurns ==
  ASSUME CountInv, NEW c \in Ids(ctx), NEW out, out \subseteq DOMAIN ctx, NEW run
  PROVE  LET post == PostProcess(c, out, run)
         IN  /\ DOMAIN post.ctx = DOMAIN ctx /\ Turns(ctx, post.ctx, {}, out \ {c})
             /\ (Awake(ctx) => Awake(post.ctx)) /\ (Rooted(ctx) => Rooted(post.ctx))
             /\ Rooted(ctx) => ~post.blocked
             /\ /\ Rooted(ctx) /\ enable_context_gc /\ run # {} /\ run # {out_task}
                /\ ~ctx[c].destory /\ c \notin out
                => post.ctx[c].destory
<1> DEFINE post == PostProcess(c, out, run)
           live == Live(ctx)
           applies == /\ enable_context_gc \/ enable_context_bypass
                      /\ run # {} /\ run # {out_task}
           gc == applies /\ enable_context_gc /\ c \in live
           gcSpins == gc /\ \E x \in out : ctx[x].child_num # 0
           outSet == live \cap (out \cup
                                IF gc THEN UNION {LiveAncestors(ctx, x) : x \in out} ELSE {})
           D == IF gc /\ ~gcSpins /\ c \notin outSet THEN Doomed(ctx, c) ELSE {}
           swept == Destory(ctx, D)
           bypass == applies /\ enable_context_bypass /\ outSet # {}
           bypassSpins == bypass /\ ~gcSpins /\ swept[c].child_num # 0
           inSet == ({c} \cap live) \cup LiveAncestors(swept, c)
           fresh == {x \in outSet \ inSet : ctx[x].kind # "loop"}
<1>0. Shape(ctx) /\ Tally(ctx, counter) /\ c \in DOMAIN ctx /\ ctx[c].kind # "output"
  BY DEF CountInv, Ids
<1>1. /\ post.blocked = (gcSpins \/ bypassSpins)
      /\ post.ctx = swept \/ post.ctx = MaskBypass(swept, fresh, run)
  BY DEF PostProcess
<1> HIDE DEF post
<1>2. Rooted(ctx) => outSet \subseteq out
  <2>1. ASSUME Rooted(ctx), NEW x \in out PROVE LiveAncestors(ctx, x) = {}
    BY <1>0, <2>1, RootAncestors
  <2>2. QED
    BY <2>1
<1>3. fresh \subseteq DOMAIN ctx /\ (Rooted(ctx) => fresh \subseteq out \ {c})
  <2>1. outSet \subseteq live /\ (c \in live => c \in inSet) /\ live \subseteq DOMAIN ctx
    BY DEF Live
  <2> HIDE DEF outSet, inSet, live
  <2>2. QED
    BY <1>2, <2>1
<1>4. Rooted(ctx) => ~gcSpins
  BY <1>0, RootChildless
<1>5. Rooted(ctx) /\ gc /\ c \notin out => c \in D
  <2>1. ~ctx[c].destory => c \in Doomed(ctx, c)
    BY <1>0, DoomedCounted
  <2>2. c \in live => ~ctx[c].destory
    BY DEF Live
  <2> HIDE DEF outSet, gcSpins, live
  <2>3. QED
    BY <1>2, <1>4, <2>1, <2>2
<1>6. D \subseteq Counted(ctx)
  <2>1. D = Doomed(ctx, c) \/ D = {}
    OBVIOUS
  <2> HIDE DEF D
  <2>2. QED
    BY <1>0, <2>1, DoomedCounted
<1>7. /\ ~ctx[c].destory => c \in live
      /\ bypassSpins => swept[c].child_num # 0
  BY <1>0 DEF Live
<1>8. enable_context_gc /\ run # {} /\ run # {out_task} /\ c \in live => gc
  OBVIOUS
<1> HIDE DEF outSet, inSet, live, fresh, D, gcSpins, gc, bypassSpins, bypass, applies
<1>9. /\ DOMAIN swept = DOMAIN ctx /\ Grows(ctx, swept)
      /\ \A x \in DOMAIN ctx : Alike(ctx[x], swept[x])
  BY <1>0, DestoryAlike
<1>10. Shape(swept) /\ Tally(swept, counter - Cardinality(D))
  BY <1>0, <1>6, DestoryTally
<1>11. c \in D => swept[c].destory
  BY <1>0, DestoryEnds
<1> HIDE DEF swept
<1>12. Rooted(ctx) => Rooted(swept)
  BY <1>9 DEF Rooted, Alike
<1>13. Rooted(ctx) => ~bypassSpins
  BY <1>0, <1>7, <1>9, <1>10, <1>12, RootChildless
<1>14. IsFiniteSet(fresh)
  <2>1. Len(ctx) \in Nat /\ DOMAIN ctx = 1 .. Len(ctx)
    BY <1>0, ShapeLen
  <2>2. IsFiniteSet(DOMAIN ctx)
    BY <2>1, FS_Interval
  <2>3. QED
    BY <2>2, <1>3, FS_Subset
<1>15. Marks(swept, post.ctx, fresh)
  BY <1>1, <1>10, <1>14, MarksRefl, MaskBypassMarks
<1> DEFINE ds == post.ctx
<1> HIDE DEF ds
<1>16. /\ Turns(swept, ds, {}, fresh) /\ (Awake(swept) => Awake(ds))
       /\ (Rooted(swept) => Rooted(ds)) /\ (Rooted(ds) => Rooted(swept))
       /\ DOMAIN ds = DOMAIN swept /\ Grows(swept, ds)
  <2>1. Marks(swept, ds, fresh) /\ fresh \subseteq DOMAIN swept
    BY <1>3, <1>9, <1>15 DEF ds
  <2>2. DOMAIN ds = DOMAIN swept
    BY <2>1 DEF Marks, Same
  <2>3. /\ Turns(swept, ds, {}, fresh) /\ (Awake(swept) => Awake(ds))
        /\ (Rooted(swept) => Rooted(ds)) /\ (Rooted(ds) => Rooted(swept))
    BY <2>1, MarksTurns
  <2>4. QED
    BY <2>2, <2>3 DEF Turns
<1>17. Awake(ctx) => Awake(swept)
  BY <1>9 DEF Awake, Alike
<1>18. Rooted(swept) => Rooted(ctx)
  BY <1>9 DEF Rooted, Alike
<1>19. Grows(ctx, ds)
  BY <1>9, <1>16, GrowsTrans
<1>20. Turns(ctx, ds, {}, out \ {c})
  <2>1. ASSUME NEW x \in DOMAIN ctx
        PROVE  /\ ds[x].freezing = ctx[x].freezing
               /\ Rooted(ds) /\ x \notin out \ {c} => /\ ds[x].completed = ctx[x].completed
                                                     /\ ds[x].available = ctx[x].available
    <3>1. Alike(ctx[x], swept[x])
      BY <1>9
    <3>2. /\ ds[x].freezing = swept[x].freezing
          /\ Rooted(ds) /\ x \notin fresh => /\ ds[x].completed = swept[x].completed
                                             /\ ds[x].available = swept[x].available
      BY <1>9, <1>16 DEF Turns
    <3>3. QED
      BY <3>1, <3>2, <1>3, <1>16, <1>18 DEF Alike
  <2>2. AllSeparated(ctx) => AllSeparated(ds)
    <3>1. AllSeparated(ctx) => AllSeparated(swept)
      BY <1>9 DEF AllSeparated, Separated, Alike
    <3>2. QED
      BY <3>1, <1>16 DEF Turns
  <2>3. DOMAIN ds = DOMAIN ctx
    BY <1>9, <1>16
  <2>4. QED
    BY <2>1, <2>2, <2>3, <1>19 DEF Turns
<1>21. c \in D => ds[c].destory
  BY <1>0, <1>9, <1>11, <1>16 DEF Grows, Later
<1>22. DOMAIN ds = DOMAIN ctx /\ (Awake(ctx) => Awake(ds)) /\ (Rooted(ctx) => Rooted(ds))
  BY <1>9, <1>12, <1>16, <1>17
<1>23. Rooted(ctx) => ~post.blocked
  BY <1>1, <1>4, <1>13
<1>24. /\ Rooted(ctx) /\ enable_context_gc /\ run # {} /\ run # {out_task}
       /\ ~ctx[c].destory /\ c \notin out
       => ds[c].destory
  BY <1>5, <1>7, <1>8, <1>21
<1>25. QED
  BY <1>20, <1>22, <1>23, <1>24 DEF ds, post

(* What goes back to the queue. *)
LEMMA PutsBack ==
  ASSUME CountInv, Reported, NEW w \in Worker, NEW out \in ContextLists(w), Requeue(w, out)
  PROVE  /\ Queued(queue') = Queued(queue) \cup
                             {x \in Brought(w) : ~ctx[x].freezing /\ ctx[x].kind # "output"}
         /\ Once(queue) /\ Brought(w) \cap Queued(queue) = {} => Once(queue')
<1>1. out \in Seq(DOMAIN ctx) /\ ToSet(out) = Brought(w) /\ IsInjective(out)
  BY ListIs
<1>2. queue \in Lanes(ctx) /\ queue' = PutAll(queue, out, in_context[w])
  BY DEF CountInv, HoldsContexts, Requeue
<1>3. Added(queue, out, DOMAIN out, queue')
  BY <1>1, <1>2, PutAllAdds
<1>4. ToSet(out) = {out[i] : i \in DOMAIN out}
  BY DEF ToSet
<1>5. Back(out, DOMAIN out) = {x \in Brought(w) : ~ctx[x].freezing /\ ctx[x].kind # "output"}
  BY <1>1, <1>4 DEF Back
<1>6. QED
  BY <1>1, <1>3, <1>5 DEF Added

(* The worker gathers what its tasks returned. *)
LEMMA GatherHands ==
  ASSUME HandInv, CountInv', UNCHANGED config, NEW w \in Worker, Gather(w)
  PROVE  HandInv'
<1> DEFINE c == in_context[w]
<1>0. /\ CountInv /\ Reported /\ MadeOnce /\ DOMAIN pc = Worker /\ DOMAIN results = Worker
      /\ pc[w] = "running" /\ todo[w] = {} /\ active[w] = {}
      /\ c \in Ids(ctx) /\ c \in DOMAIN ctx /\ ctx[c].kind # "output"
      /\ UNCHANGED <<in_context, todo, active>>
      /\ pc' = [pc EXCEPT ![w] = "poll"] /\ results' = [results EXCEPT ![w] = {}]
  BY DEF HandInv, CountInv, IdleInv, LoopType, HoldsContexts, Gather, Gathered, Ids
<1>1. PICK out \in ContextLists(w) :
        LET post == PostProcess(c, Thawed(out), Succeeded(w))
        IN  ctx' = post.ctx /\ Requeue(w, out)
  BY DEF Gather
<1>2. out \in Seq(DOMAIN ctx) /\ ToSet(out) = Brought(w) /\ IsInjective(out)
  BY <1>0, ListIs
<1> DEFINE X == Thawed(out)
           run == Succeeded(w)
<1>3. /\ X = {x \in Brought(w) : ~ctx[x].freezing}
      /\ X \subseteq DOMAIN ctx /\ X \ {c} \subseteq Made(w)
  <2>1. X = {x \in Brought(w) : ~ctx[x].freezing}
    BY <1>2 DEF Thawed
  <2>2. Brought(w) \subseteq DOMAIN ctx
    BY <1>0, HeldExist
  <2>3. QED
    BY <2>1, <2>2 DEF Made
<1>4. ctx' = PostProcess(c, X, run).ctx
  BY <1>1
<1> HIDE DEF X, run
<1>5. /\ DOMAIN ctx' = DOMAIN ctx /\ Turns(ctx, ctx', {}, X \ {c})
      /\ (Awake(ctx) => Awake(ctx')) /\ (Rooted(ctx) => Rooted(ctx'))
      /\ /\ Rooted(ctx) /\ enable_context_gc /\ run # {} /\ run # {out_task}
         /\ ~ctx[c].destory /\ c \notin X
         => ctx'[c].destory
  <2> HIDE DEF c
  <2>1. c \in Ids(ctx) /\ ctx' = PostProcess(c, X, run).ctx
    BY <1>0, <1>4 DEF c
  <2>2. QED
    BY <2>1, <1>0, <1>3, PostTurns
<1>6. /\ Queued(queue') = Queued(queue) \cup {x \in X : ctx[x].kind # "output"}
      /\ Once(queue) /\ Brought(w) \cap Queued(queue) = {} => Once(queue')
  BY <1>0, <1>1, <1>3, PutsBack
<1>7. /\ results'[w] = {} /\ pc'[w] = "poll"
      /\ \A v \in Worker : v # w => results'[v] = results[v] /\ pc'[v] = pc[v]
  BY <1>0
<1>8. /\ Made(w)' = {} /\ Succeeded(w)' = {}
      /\ \A v \in Worker : v # w => Made(v)' = Made(v) /\ Succeeded(v)' = Succeeded(v)
  <2>1. Brought(w)' = {} /\ Succeeded(w)' = {}
    BY <1>7, ContentsAdd DEF Brought, Succeeded
  <2>2. \A v \in Worker : v # w => Made(v)' = Made(v) /\ Succeeded(v)' = Succeeded(v)
    BY <1>0, <1>7 DEF Made, Brought, Succeeded
  <2>3. QED
    BY <2>1, <2>2 DEF Made
<1>9. InHand(w) /\ ~InHand(w)' /\ \A v \in Worker : v # w => InHand(v)' = InHand(v)
  BY <1>0, <1>7 DEF InHand
<1>10. /\ NeverRetries' = NeverRetries /\ NoChildren' = NoChildren /\ NoRouters' = NoRouters
       /\ enable_context_gc' = enable_context_gc
  BY DEF NeverRetries, NoChildren, NoRouters, behaviour, retry_times, enable_context_gc
<1>11. \A x \in Brought(w) : x \in Made(w) \/ x = c
  BY DEF Made
<1>12. \A v \in Worker : /\ Made(v) \subseteq DOMAIN ctx
                         /\ InHand(v) => in_context[v] \in DOMAIN ctx
                         /\ results[v] # {} => InHand(v)
                         /\ todo[v] \cup active[v] # {} => InHand(v)
  <2>1. \A v \in Worker : Made(v) \subseteq DOMAIN ctx
    BY <1>0, HeldExist DEF Made
  <2>2. \A v \in Worker : InHand(v) => in_context[v] \in DOMAIN ctx
    BY <1>0 DEF CountInv, HoldsContexts, Ids, InHand
  <2>3. \A v \in Worker : todo[v] \cup active[v] # {} => InHand(v)
    BY <1>0 DEF CountInv, IdleInv, Busy, InHand
  <2>4. QED
    BY <1>0, <2>1, <2>2, <2>3 DEF Reported
<1>13. Reported'
  <2>1. ASSUME NEW v \in Worker
        PROVE  /\ IsFiniteSet(results'[v]) /\ (~InHand(v)' => results'[v] = {})
               /\ \A r \in results'[v] : IsInjective(r.contexts)
    <3>1. CASE v = w
      BY <3>1, <1>7, FS_EmptySet
    <3>2. CASE v # w
      BY <3>2, <1>0, <1>7, <1>9 DEF Reported
    <3>3. QED
      BY <3>1, <3>2
  <2>2. \A v \in Worker : in_context'[v] \in {0} \cup DOMAIN ctx' /\ todo'[v] \cap active'[v] = {}
    BY <1>0, <1>5 DEF Reported
  <2>3. QED
    BY <2>1, <2>2 DEF Reported
<1>14. MadeOnce'
  <2>1. ASSUME NEW v \in Worker, NEW x \in Made(v)'
        PROVE  /\ x \notin Queued(queue') /\ ~ctx'[x].freezing
               /\ \A u \in Worker : in_context'[u] # x /\ (u # v => x \notin Made(u)')
    <3>1. v # w /\ x \in Made(v)
      BY <2>1, <1>8
    <3>2. /\ x \notin Queued(queue) /\ ~ctx[x].freezing
          /\ \A u \in Worker : in_context[u] # x /\ (u # v => x \notin Made(u))
      BY <3>1, <1>0 DEF MadeOnce
    <3>3. x \notin X
      BY <3>1, <3>2, <1>3, <1>11
    <3>4. ctx'[x].freezing = ctx[x].freezing
      BY <3>1, <1>5, <1>12 DEF Turns
    <3>5. QED
      BY <3>2, <3>3, <3>4, <1>0, <1>6, <1>8
  <2>2. QED
    BY <2>1 DEF MadeOnce
<1>15. AllSeparated(ctx)'
  BY <1>5 DEF HandInv, Turns
<1>16. ASSUME NeverRetries, NEW v \in Worker, v # w, InHand(v)
       PROVE  in_context[v] \notin Brought(w)
  <2>1. in_context[v] # c
    BY <1>9, <1>16 DEF HandInv, OnePlace
  <2>2. in_context[v] \notin Made(w)
    BY <1>0 DEF MadeOnce
  <2>3. QED
    BY <2>1, <2>2, <1>11
<1>17. OnePlace'
  <2> SUFFICES ASSUME NeverRetries
               PROVE  /\ Awake(ctx') /\ Once(queue')
                      /\ \A v \in Worker : InHand(v)' =>
                           /\ in_context[v] \notin Queued(queue')
                           /\ \A u \in Worker : InHand(u)' /\ in_context[u] = in_context[v]
                                               => u = v
    BY <1>0, <1>10 DEF OnePlace
  <2>1. /\ Awake(ctx) /\ Once(queue)
        /\ \A v \in Worker : InHand(v) =>
             /\ in_context[v] \notin Queued(queue)
             /\ \A u \in Worker : InHand(u) /\ in_context[u] = in_context[v] => u = v
    BY DEF HandInv, OnePlace
  <2>2. Brought(w) \cap Queued(queue) = {}
    BY <2>1, <1>0, <1>9, <1>11 DEF MadeOnce
  <2>3. \A v \in Worker : InHand(v)' => in_context[v] \notin Queued(queue')
    BY <2>1, <1>3, <1>6, <1>9, <1>16
  <2>4. QED
    BY <2>1, <2>2, <2>3, <1>5, <1>6, <1>9
<1>18. SinkEnds'
  <2> SUFFICES ASSUME NEW v \in Worker, out_task \in Succeeded(v)'
               PROVE  ctx'[in_context[v]].destory
    BY <1>0 DEF SinkEnds
  <2>1. out_task \in Succeeded(v)
    BY <1>8
  <2>2. ctx[in_context[v]].destory /\ in_context[v] \in DOMAIN ctx
    BY <2>1, <1>12 DEF HandInv, SinkEnds, Succeeded
  <2>3. QED
    BY <2>2, <1>5 DEF Turns, Grows, Later
<1>19. Somewhere'
  <2>1. NoChildren => Rooted(ctx) /\ Rooted(ctx')
    BY <1>5 DEF HandInv, Somewhere
  <2>2. ASSUME NoChildren, enable_context_gc, NEW x \in Alive', x \notin Queued(queue')
        PROVE  \E v \in Worker : Keeps(v, x)'
    <3>1. x \in Alive /\ x \notin Queued(queue)
      <4>1. x \notin Arrived /\ Grows(ctx, ctx')
        BY <1>5 DEF Arrived, Turns
      <4>2. QED
        BY <2>2, <4>1, <1>6, AliveBefore
    <3>2. ctx[x].kind # "output" /\ ~ctx[x].destory /\ ~ctx'[x].destory
      BY <3>1, <2>2 DEF Alive, Counted, Live
    <3>3. x \notin X
      BY <2>2, <3>2, <1>6
    <3>4. PICK v \in Worker : Keeps(v, x)
      BY <3>1, <2>2 DEF HandInv, Somewhere
    <3>5. CASE v # w
      <4>1. Keeps(v, x)'
        BY <3>4, <3>5, <1>0, <1>7, <1>8 DEF Keeps
      <4>2. QED
        BY <4>1
    <3>6. CASE v = w
      <4>1. x \notin Made(w)
        <5>1. x \in Made(w) => x \in Brought(w) /\ ~ctx[x].freezing
          BY <1>0 DEF MadeOnce, Made
        <5>2. QED
          BY <5>1, <3>3, <1>3
      <4>2. x = c /\ run # {}
        BY <3>4, <3>6, <4>1, <1>0 DEF Keeps, run
      <4>3. run # {out_task}
        BY <3>2, <4>2 DEF HandInv, SinkEnds, run
      <4>4. QED
        BY <2>1, <2>2, <3>2, <3>3, <4>2, <4>3, <1>5
    <3>7. QED
      BY <3>5, <3>6
  <2>3. QED
    BY <2>1, <2>2, <1>10 DEF Somewhere
<1>20. NotYet'
  <2> SUFFICES ASSUME NeverRetries, NoChildren, NoRouters, NEW v \in Worker,
                      NEW d \in todo[v] \cup active[v], ctx'[in_context[v]].kind # "loop"
               PROVE  d \notin ctx'[in_context[v]].completed
    BY <1>0, <1>10 DEF NotYet
  <2>1. v # w /\ InHand(v) /\ in_context[v] \in DOMAIN ctx
    BY <1>0, <1>12
  <2>2. in_context[v] \notin X
    BY <2>1, <1>3, <1>16
  <2>3. Rooted(ctx') /\ ctx'[in_context[v]].completed = ctx[in_context[v]].completed
    BY <2>1, <2>2, <1>5 DEF HandInv, Somewhere, Turns
  <2>4. ctx[in_context[v]].kind # "loop"
    BY <2>1, <1>5 DEF Turns, Grows, Later
  <2>5. QED
    BY <2>3, <2>4 DEF HandInv, NotYet
<1>21. QED
  BY <1>13, <1>14, <1>15, <1>17, <1>18, <1>19, <1>20 DEF HandInv

(* The worker gathers and does not come out of it: a task made children.   *)
LEMMA SpinHands ==
  ASSUME HandInv, CountInv', UNCHANGED config, NEW w \in Worker, Spin(w)
  PROVE  HandInv'
<1> DEFINE c == in_context[w]
<1>0. /\ CountInv /\ Reported /\ MadeOnce /\ DOMAIN pc = Worker
      /\ pc[w] = "running" /\ c \in Ids(ctx)
      /\ UNCHANGED <<queue, in_context, todo, active, results>>
      /\ pc' = [pc EXCEPT ![w] = "blocked"]
  BY DEF HandInv, CountInv, IdleInv, LoopType, HoldsContexts, Spin, Gathered
<1>1. PICK out \in ContextLists(w) :
        LET post == PostProcess(c, Thawed(out), Succeeded(w))
        IN  ctx' = post.ctx /\ post.blocked
  BY DEF Spin
<1>2. Thawed(out) \subseteq DOMAIN ctx
  <2>1. ToSet(out) = Brought(w)
    BY <1>0, ListIs
  <2>2. QED
    BY <1>0, <2>1, HeldExist DEF Thawed
<1> DEFINE X == Thawed(out)
           run == Succeeded(w)
<1> HIDE DEF X, run
<1>3. /\ DOMAIN ctx' = DOMAIN ctx /\ Turns(ctx, ctx', {}, X \ {c})
      /\ (Awake(ctx) => Awake(ctx')) /\ ~Rooted(ctx)
  <2>1. /\ X \subseteq DOMAIN ctx /\ ctx' = PostProcess(c, X, run).ctx
        /\ PostProcess(c, X, run).blocked
    BY <1>1, <1>2 DEF X, run
  <2> HIDE DEF c
  <2>2. QED
    BY <2>1, <1>0, PostTurns
<1>4. Grows(ctx, ctx') /\ \A x \in DOMAIN ctx : ctx'[x].freezing = ctx[x].freezing
  BY <1>3 DEF Turns
<1>5. ~NoChildren /\ ~NoChildren'
  BY <1>3 DEF HandInv, Somewhere, NoChildren, behaviour
<1>6. NeverRetries' = NeverRetries
  BY DEF NeverRetries, behaviour, retry_times
<1>7. \A v \in Worker : InHand(v)' = InHand(v)
  BY <1>0 DEF InHand
<1>8. \A v \in Worker : Made(v)' = Made(v) /\ Succeeded(v)' = Succeeded(v)
  BY <1>0 DEF Made, Brought, Succeeded
<1>9. \A v \in Worker : /\ Made(v) \subseteq DOMAIN ctx
                        /\ InHand(v) => in_context[v] \in DOMAIN ctx
                        /\ results[v] # {} => InHand(v)
  <2>1. \A v \in Worker : Made(v) \subseteq DOMAIN ctx
    BY <1>0, HeldExist DEF Made
  <2>2. \A v \in Worker : InHand(v) => in_context[v] \in DOMAIN ctx
    BY <1>0 DEF CountInv, HoldsContexts, Ids, InHand
  <2>3. QED
    BY <1>0, <2>1, <2>2 DEF Reported
<1>10. Reported'
  BY <1>0, <1>3, <1>7 DEF Reported
<1>11. MadeOnce'
  <2>1. ASSUME NEW v \in Worker, NEW x \in Made(v)
        PROVE  /\ x \notin Queued(queue) /\ ~ctx'[x].freezing
               /\ \A u \in Worker : in_context[u] # x /\ (u # v => x \notin Made(u))
    BY <2>1, <1>0, <1>4, <1>9 DEF MadeOnce
  <2>2. QED
    BY <2>1, <1>0, <1>8 DEF MadeOnce
<1>12. AllSeparated(ctx)'
  BY <1>3 DEF HandInv, Turns
<1>13. OnePlace'
  BY <1>0, <1>3, <1>6, <1>7 DEF HandInv, OnePlace
<1>14. SinkEnds'
  <2> SUFFICES ASSUME NEW v \in Worker, out_task \in Succeeded(v)
               PROVE  ctx'[in_context[v]].destory
    BY <1>0, <1>8 DEF SinkEnds
  <2>1. ctx[in_context[v]].destory /\ in_context[v] \in DOMAIN ctx
    BY <1>9 DEF HandInv, SinkEnds, Succeeded
  <2>2. QED
    BY <2>1, <1>4 DEF Grows, Later
<1>15. Somewhere' /\ NotYet'
  BY <1>5 DEF Somewhere, NotYet
<1>16. QED
  BY <1>10, <1>11, <1>12, <1>13, <1>14, <1>15 DEF HandInv

-----------------------------------------------------------------------------
(* The theorems about contexts in hand.                                    *)

(* The input contexts are queued once each; nothing else exists. *)
LEMMA HandStarts == Init => HandInv
<1> SUFFICES ASSUME Init PROVE HandInv
  OBVIOUS
<1> DEFINE n == config.input_num
           b == Context("plain", 0)
           r == Complete(b, in_task)
           line == [c \in 1 .. n |-> c]
<1>0. CountInv /\ n \in Nat
  BY CountStarts, ConfigAssumption DEF Init
<1>1. r.parent = 0 /\ Separated(r) /\ r.asleep = {} /\ r.freezing = FALSE
  <2>1. DOMAIN b = Field /\ Separated(b) /\ b.asleep = {} /\ b.freezing = FALSE
    BY DEF Context, Field, Separated
  <2>2. r.parent = 0
    BY InputContext
  <2> HIDE DEF b
  <2>3. Marked(b, r)
    BY <2>1, CompleteMarked, GraphAssumption
  <2>4. QED
    BY <2>1, <2>2, <2>3 DEF Marked
<1> HIDE DEF r
<1>2. DOMAIN ctx = 1 .. n /\ \A c \in DOMAIN ctx : ctx[c] = r
  BY DEF Init, r
<1>3. AllSeparated(ctx) /\ Awake(ctx) /\ Rooted(ctx)
  BY <1>1, <1>2 DEF AllSeparated, Awake, Rooted
<1>4. /\ \A w \in Worker : /\ pc[w] = "poll" /\ results[w] = {} /\ in_context[w] = 0
                           /\ todo[w] = {} /\ active[w] = {}
      /\ queue = [EmptyLanes EXCEPT ![FIFO_HIGH] = line]
  BY DEF Init
<1>5. \A w \in Worker : ~InHand(w) /\ Made(w) = {} /\ Succeeded(w) = {}
  <2>1. \A w \in Worker : Brought(w) = {} /\ Succeeded(w) = {}
    BY <1>4, ContentsAdd DEF Brought, Succeeded
  <2>2. QED
    BY <1>4, <2>1 DEF InHand, Made
<1>6. Queued(queue) = DOMAIN ctx /\ Once(queue)
  <2>1. /\ queue[FIFO_HIGH] = line /\ FIFO_HIGH \in ContextPriority
        /\ \A p \in ContextPriority : p # FIFO_HIGH => queue[p] = <<>>
    BY <1>4 DEF EmptyLanes, ContextPriority, FIFO_HIGH
  <2>2. ToSet(line) = 1 .. n /\ IsInjective(line)
    BY DEF ToSet, IsInjective
  <2>3. ToSet(<<>>) = {} /\ IsInjective(<<>>)
    BY DEF ToSet, IsInjective
  <2> HIDE DEF line
  <2>4. /\ \A p \in ContextPriority : ToSet(queue[p]) = IF p = FIFO_HIGH THEN 1 .. n ELSE {}
        /\ \A p \in ContextPriority : IsInjective(queue[p])
    BY <2>1, <2>2, <2>3
  <2>5. Queued(queue) = 1 .. n
    BY <2>1, <2>4 DEF Queued
  <2>6. QED
    BY <1>2, <2>4, <2>5 DEF Once
<1>7. Reported /\ MadeOnce
  BY <1>4, <1>5, FS_EmptySet DEF Reported, MadeOnce
<1>8. OnePlace /\ SinkEnds /\ NotYet
  BY <1>3, <1>4, <1>5, <1>6 DEF OnePlace, SinkEnds, NotYet
<1>9. Somewhere
  BY <1>3, <1>6 DEF Somewhere, Alive, Counted, Live
<1>10. QED
  BY <1>0, <1>3, <1>7, <1>8, <1>9 DEF HandInv

(* Every step keeps the invariant. *)
LEMMA HandSteps == HandInv /\ [Next]_vars => HandInv'
<1> SUFFICES ASSUME HandInv, [Next]_vars PROVE HandInv'
  OBVIOUS
<1>0. CountInv'
  BY CountSteps DEF HandInv
<1>1. CASE UNCHANGED vars
  <2>1. UNCHANGED <<config, ctx, queue, pc, in_context, todo, active, results>>
    BY <1>1 DEF vars
  <2>2. Turns(ctx, ctx', {}, {})
    BY <2>1, StillTurns
  <2>3. Idles
    BY <2>1, <2>2 DEF Idles, InHand
  <2>4. QED
    BY <1>0, <2>3, IdlesHands
<1>2. ASSUME NEW w \in Worker,
             \/ Fetch(w) \/ TimesOut(w) \/ Starts(w) \/ Throttled(w) \/ Collects(w)
             \/ \E t \in Node : Executes(w, t)
      PROVE  HandInv'
  <2>0. UNCHANGED config
    BY <1>2 DEF Fetch, TimesOut, Starts, Throttled, Collects, Executes, LoopRuns
  <2>1. CASE Fetch(w)
    BY <1>0, <2>0, <2>1, PollHands, GetHands DEF Fetch
  <2>2. CASE TimesOut(w)
    BY <1>0, <2>0, <2>2, PollHands DEF TimesOut
  <2>3. CASE Starts(w)
    BY <1>0, <2>0, <2>3, StartsHands DEF Starts
  <2>4. CASE Throttled(w)
    BY <1>0, <2>0, <2>4, LimitedHands DEF Throttled
  <2>5. CASE Collects(w)
    BY <1>0, <2>0, <2>5, GatherHands, SpinHands DEF Collects
  <2>6. ASSUME NEW t \in Node, Executes(w, t) PROVE HandInv'
    <3>1. t \in active[w]
      BY <2>6 DEF Executes, ReturnSame, ReturnNothing, ReturnNew, ReturnBoth, ReturnChildren,
             ReturnFrozen, Route, Misroute, LoopYield, LoopExhausted, RaiseRetry, RaiseError,
             RunSink, Ends
    <3>2. QED
      BY <1>0, <2>0, <2>6, <3>1, EndsHands
  <2>7. QED
    BY <1>2, <2>1, <2>2, <2>3, <2>4, <2>5, <2>6
<1>3. ASSUME NEW c \in DOMAIN ctx, NEW t, AwakeTimePasses(c, t) PROVE HandInv'
  BY <1>0, <1>3, WakesHands
<1>4. QED
  BY <1>1, <1>2, <1>3 DEF Next, KeepsSpinning

(* While no failed task is tried again, two workers never have tasks of    *)
(* the same context in hand: a context is in the queue once, or in the     *)
(* hands of one worker.  A retry queues the context its worker still has.  *)
THEOREM OneWorkerPerContext == Spec => [](NeverRetries => ExclusiveContext)
<1>1. HandInv => (NeverRetries => ExclusiveContext)
  <2> SUFFICES ASSUME HandInv, NeverRetries, NEW v \in Worker, NEW w \in Worker,
                      in_context[v] = in_context[w],
                      todo[v] \cup active[v] # {}, todo[w] \cup active[w] # {}
               PROVE  v = w
    BY DEF ExclusiveContext
  <2>1. InHand(v) /\ InHand(w)
    BY DEF HandInv, CountInv, IdleInv, Busy, InHand
  <2>2. QED
    BY <2>1 DEF HandInv, OnePlace
<1>2. QED
  BY <1>1, HandStarts, HandSteps, PTL DEF Spec

(* While no task makes child contexts, context GC forgets none: one that   *)
(* is alive is queued, or a worker has it in hand or was given it back.    *)
THEOREM NoneForgotten == Spec => []NoContextForgotten
<1>1. HandInv => NoContextForgotten
  <2> SUFFICES ASSUME HandInv, NoChildren, enable_context_gc, NEW c \in Alive
               PROVE  \E x \in Alive \cap (Queued(queue) \cup Held) : c \in Lineage(ctx, x)
    BY DEF NoContextForgotten, NoChildren
  <2>1. c \in DOMAIN ctx /\ Shape(ctx) /\ Rooted(ctx)
    BY DEF HandInv, CountInv, Somewhere, Alive, Counted, Live
  <2>2. c \in Lineage(ctx, c)
    BY <2>1, RootLineage
  <2>3. c \in Queued(queue) \cup Held
    <3>1. ASSUME NEW w \in Worker, Keeps(w, c) PROVE c \in Held
      <4>1. CASE c \in Made(w)
        BY <4>1 DEF Made, Brought, Contents, Held
      <4>2. CASE in_context[w] = c /\ pc[w] = "running"
        BY <4>2 DEF Held
      <4>3. QED
        BY <3>1, <4>1, <4>2 DEF Keeps
    <3>2. QED
      BY <3>1 DEF HandInv, Somewhere
  <2>4. QED
    BY <2>2, <2>3
<1>2. QED
  BY <1>1, HandStarts, HandSteps, PTL DEF Spec

(* While moreover no failed task is tried again and no task routes, the    *)
(* code of a task runs on a context after every upstream task completed    *)
(* there, and never once the task itself has.                              *)
THEOREM RunsOnce == Spec => [](NeverRetries /\ NoChildren /\ NoRouters => RunsInOrder)
<1>1. HandInv => (NeverRetries /\ NoChildren /\ NoRouters => RunsInOrder)
  <2> SUFFICES ASSUME HandInv, NeverRetries, NoChildren, NoRouters, NEW w \in Worker,
                      NEW t \in active[w], ctx[in_context[w]].kind # "loop"
               PROVE  /\ t \notin ctx[in_context[w]].completed
                      /\ upstream_tasks[t] \subseteq ctx[in_context[w]].completed
    BY DEF RunsInOrder
  <2>1. t \notin ctx[in_context[w]].completed
    BY DEF HandInv, NotYet
  <2>2. <<in_context[w], t>> \in Pairs(ctx)
    BY DEF HandInv, CountInv, HoldsContexts
  <2>3. QED
    BY <2>1, <2>2 DEF Pairs
<1>2. QED
  BY <1>1, HandStarts, HandSteps, PTL DEF Spec
=============================================================================
