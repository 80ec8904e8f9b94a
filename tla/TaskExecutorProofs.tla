------------------------- MODULE TaskExecutorProofs -------------------------
(***************************************************************************)
(* The executor of single tasks, for any graph, any number of workers, any *)
(* set of configurations and any bound on the contexts.                    *)
(***************************************************************************)
EXTENDS TaskExecutor, ContextsProofs

-----------------------------------------------------------------------------
(* The states a worker passes through within one step.                     *)

(* The state s counts its contexts, and its queue holds only ready tasks. *)
Whole(s) ==
  /\ s = [ctx |-> s.ctx, counter |-> s.counter, queue |-> s.queue]
  /\ Shape(s.ctx) /\ Tally(s.ctx, s.counter)
  /\ s.queue \in LanesOf(Pairs(s.ctx))

(* Moreover it has the contexts cs, and no OutputContext besides. *)
Sound(cs, s) == Whole(s) /\ Grows(cs, s.ctx) /\ Quiet(cs, s.ctx)

(* Updates of such a state. *)
LEMMA StateFields ==
  ASSUME NEW s, s = [ctx |-> s.ctx, counter |-> s.counter, queue |-> s.queue], NEW d, NEW n
  PROVE  /\ [s EXCEPT !.ctx = d, !.counter = n] = [ctx |-> d, counter |-> n, queue |-> s.queue]
         /\ [s EXCEPT !.ctx = d] = [ctx |-> d, counter |-> s.counter, queue |-> s.queue]
         /\ [s EXCEPT !.queue = d] = [ctx |-> s.ctx, counter |-> s.counter, queue |-> d]
<1> DEFINE a == s.ctx
           b == s.counter
           q == s.queue
<1>1. s = [ctx |-> a, counter |-> b, queue |-> q]
  OBVIOUS
<1> HIDE DEF a, b, q
<1>2. [s EXCEPT !.ctx = d, !.counter = n] = [ctx |-> d, counter |-> n, queue |-> q]
  <2> DEFINE r == [s EXCEPT !.ctx = d, !.counter = n]
  <2>1. DOMAIN r = DOMAIN s /\ r = [x \in DOMAIN r |-> r[x]]
    OBVIOUS
  <2>2. r.ctx = d /\ r.counter = n /\ r.queue = q /\ DOMAIN r = {"ctx", "counter", "queue"}
    BY <1>1
  <2> HIDE DEF r
  <2>3. r = [ctx |-> d, counter |-> n, queue |-> q]
    BY <2>1, <2>2
  <2>4. QED
    BY <2>3 DEF r
<1>3. [s EXCEPT !.ctx = d] = [ctx |-> d, counter |-> b, queue |-> q]
  BY <1>1
<1>4. [s EXCEPT !.queue = d] = [ctx |-> a, counter |-> b, queue |-> d]
  BY <1>1
<1>5. QED
  BY <1>2, <1>3, <1>4 DEF a, b, q

(* Its contexts and counter change to those of another sound sequence. *)
LEMMA ChangeSound ==
  ASSUME NEW cs, NEW s, Sound(cs, s), NEW ds, NEW n,
         Shape(ds), Tally(ds, n), Grows(s.ctx, ds), Quiet(s.ctx, ds)
  PROVE  Sound(cs, [s EXCEPT !.ctx = ds, !.counter = n])
<1> DEFINE r == [s EXCEPT !.ctx = ds, !.counter = n]
<1>1. /\ r.ctx = ds /\ r.counter = n /\ r.queue = s.queue
      /\ r = [ctx |-> r.ctx, counter |-> r.counter, queue |-> r.queue]
  <2>1. s = [ctx |-> s.ctx, counter |-> s.counter, queue |-> s.queue]
    BY DEF Sound, Whole
  <2>2. r = [ctx |-> ds, counter |-> n, queue |-> s.queue]
    BY <2>1, StateFields
  <2>3. QED
    BY <2>2
<1> HIDE DEF r
<1>2. s.queue \in LanesOf(Pairs(ds))
  BY StillContexts DEF Sound, Whole
<1>3. Grows(cs, ds)
  BY GrowsTrans DEF Sound
<1>4. Quiet(cs, ds)
  BY DEF Sound, Quiet, Grows, Later
<1>5. QED
  BY <1>1, <1>2, <1>3, <1>4 DEF Sound, Whole, r

(* AsyncContext.destory. *)
LEMMA DestorySound ==
  ASSUME NEW cs, NEW s, Sound(cs, s), NEW c \in Ids(s.ctx)
  PROVE  Sound(cs, DestoryContext(s, c))
<1> DEFINE D == Doomed(s.ctx, c)
           ds == Destory(s.ctx, D)
           n == s.counter - Cardinality(D)
<1>1. Shape(s.ctx) /\ Tally(s.ctx, s.counter)
  BY DEF Sound, Whole
<1>2. D \subseteq Counted(s.ctx)
  BY <1>1, DoomedCounted DEF Ids
<1> HIDE DEF D
<1>3. Shape(ds) /\ Tally(ds, n) /\ Grows(s.ctx, ds)
  BY <1>1, <1>2, DestoryTally
<1>4. Quiet(s.ctx, ds)
  BY DEF Quiet, Destory
<1> HIDE DEF ds
<1>5. DestoryContext(s, c) = [s EXCEPT !.ctx = ds, !.counter = n]
  BY DEF DestoryContext, ds, D
<1> HIDE DEF n
<1>6. Sound(cs, [s EXCEPT !.ctx = ds, !.counter = n])
  BY <1>3, <1>4, ChangeSound
<1>7. QED
  BY <1>5, <1>6

(* Ready tasks join one of the lanes. *)
LEMMA QueueSound ==
  ASSUME NEW cs, NEW s, Sound(cs, s), NEW p \in ContextPriority,
         NEW line, line \in Seq(Pairs(s.ctx))
  PROVE  Sound(cs, [s EXCEPT !.queue[p] = @ \o line])
<1> DEFINE r == [s EXCEPT !.queue[p] = @ \o line]
           q == [s.queue EXCEPT ![p] = @ \o line]
<1>1. /\ r.ctx = s.ctx /\ r.counter = s.counter /\ r.queue = q
      /\ r = [ctx |-> r.ctx, counter |-> r.counter, queue |-> r.queue]
  <2>1. s = [ctx |-> s.ctx, counter |-> s.counter, queue |-> s.queue]
    BY DEF Sound, Whole
  <2>2. r = [s EXCEPT !.queue = q]
    OBVIOUS
  <2> HIDE DEF q, r
  <2>3. r = [ctx |-> s.ctx, counter |-> s.counter, queue |-> q]
    BY <2>1, <2>2, StateFields
  <2>4. QED
    BY <2>3
<1>2. q \in LanesOf(Pairs(s.ctx))
  <2> DEFINE P == Pairs(s.ctx)
  <2>1. s.queue \in [ContextPriority -> Seq(P)] /\ line \in Seq(P)
    BY DEF Sound, Whole, LanesOf
  <2> HIDE DEF P
  <2>2. s.queue[p] \o line \in Seq(P)
    BY <2>1, ConcatProperties
  <2>3. q \in [ContextPriority -> Seq(P)]
    BY <2>1, <2>2
  <2>4. QED
    BY <2>3 DEF LanesOf, P
<1> HIDE DEF r, q
<1>3. QED
  BY <1>1, <1>2 DEF Sound, Whole, r

(* The available tasks of a context are ready. *)
LEMMA PutSound ==
  ASSUME NEW cs, NEW s, Sound(cs, s), NEW c \in Ids(s.ctx), NEW p \in ContextPriority
  PROVE  \A r \in async_put_context_tasks(s, c, p) : Sound(cs, r)
<1> DEFINE A == s.ctx[c].available
           line(o) == [i \in DOMAIN o |-> <<c, o[i]>>]
<1>0. Shape(s.ctx)
  BY DEF Sound, Whole
<1>1. \A t \in A : <<c, t>> \in Pairs(s.ctx) /\ t \in Node
  BY <1>0, AvailablePairs
<1>2. IsFiniteSet(A) /\ Cardinality(A) \in Nat
  BY <1>1, GraphAssumption, FS_Subset, FS_CardinalityType
<1>3. ASSUME NEW o \in SetToSeqs(A) PROVE line(o) \in Seq(Pairs(s.ctx))
  <2> HIDE DEF A
  <2>1. o \in [1 .. Cardinality(A) -> A]
    BY DEF SetToSeqs
  <2>2. line(o) \in [1 .. Cardinality(A) -> Pairs(s.ctx)]
    BY <1>1, <2>1
  <2> HIDE DEF line
  <2>3. QED
    BY <1>2, <2>2
<1>4. ASSUME NEW o \in SetToSeqs(A) PROVE Sound(cs, [s EXCEPT !.queue[p] = @ \o line(o)])
  <2> HIDE DEF A, line
  <2> QED BY <1>3, QueueSound
<1>5. QED
  BY <1>4 DEF async_put_context_tasks

(* One returned context. *)
LEMMA HandleSound ==
  ASSUME NEW cs, NEW s, Sound(cs, s), NEW x \in DOMAIN cs, NEW c
  PROVE  \A r \in HandleOutput(s, x, c) : Sound(cs, r)
<1>1. CASE s.ctx[x].freezing \/ s.ctx[x].kind = "output"
  BY <1>1 DEF HandleOutput
<1>2. CASE ~(s.ctx[x].freezing \/ s.ctx[x].kind = "output")
  <2>1. x \in Ids(s.ctx)
    BY <1>2 DEF Ids, Sound, Grows
  <2>2. \A p \in ContextPriority : \A r \in async_put_context_tasks(s, x, p) : Sound(cs, r)
    BY <2>1, PutSound
  <2>3. LIFO_HIGH \in ContextPriority /\ FIFO_LOW \in ContextPriority
        /\ FIFO_HIGH \in ContextPriority
    BY DEF LIFO_HIGH, ContextPriority
  <2>4. CASE x # c
    BY <1>2, <2>2, <2>3, <2>4 DEF HandleOutput
  <2>5. CASE x = c
    <3>1. ASSUME NEW r \in async_put_context_tasks(s, x, LIFO_HIGH)
          PROVE  Sound(cs, r) /\ Sound(cs, DestoryContext(r, x))
      <4>1. Sound(cs, r)
        BY <2>2, <2>3
      <4>2. x \in Ids(r.ctx)
        BY <2>1, <4>1 DEF Sound, Grows, Later, Ids
      <4>3. QED
        BY <4>1, <4>2, DestorySound
    <3>2. QED
      BY <1>2, <2>5, <3>1 DEF HandleOutput
  <2>6. QED
    BY <2>4, <2>5
<1>3. QED
  BY <1>1, <1>2

-----------------------------------------------------------------------------
(* What a worker leaves queued.                                            *)

(* r may follow s within a step: nothing queued is lost, and no task is    *)
(* completed.                                                              *)
Tame(s, r) ==
  /\ DOMAIN r.ctx = DOMAIN s.ctx /\ Queued(s.queue) \subseteq Queued(r.queue)
  /\ \A x \in DOMAIN s.ctx : Alike(s.ctx[x], r.ctx[x]) /\ Later(s.ctx[x], r.ctx[x])

(* The available tasks of x are queued, unless it is through or set aside; *)
(* c has one.                                                              *)
Tended(r, c, x) ==
  \/ r.ctx[x].kind = "output" \/ r.ctx[x].freezing \/ r.ctx[x].destory
  \/ /\ \A t \in r.ctx[x].available : <<x, t>> \in Queued(r.queue)
     /\ x = c => r.ctx[x].available # {}

(* Tame is reflexive and transitive, and keeps contexts tended. *)
LEMMA TameRefl == ASSUME NEW s PROVE Tame(s, s)
BY DEF Tame, Alike, Later

LEMMA TameTrans ==
  ASSUME NEW a, NEW b, NEW c, Tame(a, b), Tame(b, c)
  PROVE  Tame(a, c)
BY DEF Tame, Alike, Later

LEMMA StaysTended ==
  ASSUME NEW s, NEW r, Tame(s, r), NEW c, NEW x \in DOMAIN s.ctx, Tended(s, c, x)
  PROVE  Tended(r, c, x)
BY DEF Tame, Tended, Alike, Later

(* Entries join one of the lanes. *)
LEMMA LineAdds ==
  ASSUME NEW P, NEW q \in LanesOf(P), NEW p \in ContextPriority, NEW line \in Seq(P)
  PROVE  Queued([q EXCEPT ![p] = @ \o line]) = Queued(q) \cup ToSet(line)
<1> DEFINE r == [q EXCEPT ![p] = @ \o line]
           s == q[p]
<1>1. q \in [ContextPriority -> Seq(P)] /\ s \in Seq(P)
  BY DEF LanesOf
<1>2. r[p] = s \o line /\ DOMAIN r = ContextPriority
      /\ \A l \in ContextPriority : l # p => r[l] = q[l]
  BY <1>1
<1>3. /\ DOMAIN s = 1 .. Len(s) /\ Len(s) \in Nat
      /\ DOMAIN line = 1 .. Len(line) /\ Len(line) \in Nat
  BY <1>1, LenProperties
<1>4. /\ DOMAIN (s \o line) = 1 .. Len(s) + Len(line)
      /\ \A i \in 1 .. Len(s) + Len(line) :
           (s \o line)[i] = IF i <= Len(s) THEN s[i] ELSE line[i - Len(s)]
  <2>1. /\ s \o line \in Seq(P) /\ Len(s \o line) = Len(s) + Len(line)
        /\ \A i \in 1 .. Len(s) + Len(line) :
             (s \o line)[i] = IF i <= Len(s) THEN s[i] ELSE line[i - Len(s)]
    BY <1>1, ConcatProperties
  <2>2. QED
    BY <2>1, LenProperties
<1>5. ToSet(s \o line) = ToSet(s) \cup ToSet(line)
  <2> DEFINE n == Len(s)
             m == Len(line)
             j == s \o line
  <2>1. /\ DOMAIN j = 1 .. n + m
        /\ \A i \in 1 .. n + m : j[i] = IF i <= n THEN s[i] ELSE line[i - n]
    BY <1>4
  <2> HIDE DEF n, m, j, s
  <2>2. n \in Nat /\ m \in Nat /\ DOMAIN s = 1 .. n /\ DOMAIN line = 1 .. m
    BY <1>3 DEF n, m
  <2>3. ASSUME NEW x \in ToSet(j) PROVE x \in ToSet(s) \cup ToSet(line)
    <3>1. PICK i \in 1 .. n + m : j[i] = x
      BY <2>1 DEF ToSet
    <3>2. CASE i <= n
      BY <2>1, <2>2, <3>1, <3>2 DEF ToSet
    <3>3. CASE ~(i <= n)
      <4>1. i - n \in 1 .. m /\ line[i - n] = x
        BY <2>1, <2>2, <3>1, <3>3
      <4>2. QED
        BY <4>1, <2>2 DEF ToSet
    <3>4. QED
      BY <3>2, <3>3
  <2>4. ASSUME NEW x \in ToSet(s) PROVE x \in ToSet(j)
    <3>1. PICK i \in 1 .. n : s[i] = x
      BY <2>2 DEF ToSet
    <3>2. i \in 1 .. n + m /\ j[i] = x
      BY <2>1, <2>2, <3>1
    <3>3. QED
      BY <3>2, <2>1 DEF ToSet
  <2>5. ASSUME NEW x \in ToSet(line) PROVE x \in ToSet(j)
    <3>1. PICK i \in 1 .. m : line[i] = x
      BY <2>2 DEF ToSet
    <3>2. n + i \in 1 .. n + m /\ ~(n + i <= n) /\ (n + i) - n = i
      BY <2>2
    <3>3. j[n + i] = x
      BY <2>1, <3>1, <3>2
    <3>4. QED
      BY <3>2, <3>3, <2>1 DEF ToSet
  <2>6. QED
    BY <2>3, <2>4, <2>5 DEF j
<1> HIDE DEF r, s
<1>6. \A l \in ContextPriority : l # p => ToSet(r[l]) = ToSet(q[l])
  BY <1>2
<1>7. ToSet(r[p]) = ToSet(q[p]) \cup ToSet(line)
  BY <1>2, <1>5 DEF s
<1>8. Queued(r) = Queued(q) \cup ToSet(line)
  BY <1>6, <1>7 DEF Queued
<1>9. QED
  BY <1>8 DEF r

(* Every order of the available tasks queues them all. *)
LEMMA PutTends ==
  ASSUME NEW cs, NEW s, Sound(cs, s), NEW c \in Ids(s.ctx), NEW p \in ContextPriority
  PROVE  \A r \in async_put_context_tasks(s, c, p) :
           /\ Tame(s, r) /\ r.ctx = s.ctx
           /\ ~s.ctx[c].destory => \A t \in s.ctx[c].available : <<c, t>> \in Queued(r.queue)
<1> DEFINE A == s.ctx[c].available
           line(o) == [i \in DOMAIN o |-> <<c, o[i]>>]
           Fits(r) == /\ Tame(s, r) /\ r.ctx = s.ctx
                      /\ ~s.ctx[c].destory => \A t \in A : <<c, t>> \in Queued(r.queue)
<1>0. Shape(s.ctx) /\ s = [ctx |-> s.ctx, counter |-> s.counter, queue |-> s.queue]
      /\ s.queue \in LanesOf(Pairs(s.ctx))
  BY DEF Sound, Whole
<1>1. \A t \in A : <<c, t>> \in Pairs(s.ctx) /\ t \in Node
  BY <1>0, AvailablePairs
<1>2. IsFiniteSet(A) /\ Cardinality(A) \in Nat
  BY <1>1, GraphAssumption, FS_Subset, FS_CardinalityType
<1>3. ASSUME NEW o \in SetToSeqs(A)
      PROVE  /\ line(o) \in Seq(Pairs(s.ctx))
             /\ \A t \in A : <<c, t>> \in ToSet(line(o))
  <2> HIDE DEF A
  <2>1. o \in [1 .. Cardinality(A) -> A]
    BY DEF SetToSeqs
  <2>2. line(o) \in [1 .. Cardinality(A) -> Pairs(s.ctx)]
    BY <1>1, <2>1
  <2>3. ToSet(o) = A
    BY <1>2, OrderedSet
  <2>4. ASSUME NEW t \in A PROVE <<c, t>> \in ToSet(line(o))
    <3>1. PICK i \in DOMAIN o : o[i] = t
      BY <2>3 DEF ToSet
    <3>2. i \in DOMAIN line(o) /\ line(o)[i] = <<c, t>>
      BY <3>1
    <3> HIDE DEF line
    <3>3. QED
      BY <3>2 DEF ToSet
  <2> HIDE DEF line
  <2>5. QED
    BY <1>2, <2>2, <2>4
<1>4. ASSUME NEW o \in SetToSeqs(A) PROVE Fits([s EXCEPT !.queue[p] = @ \o line(o)])
  <2> DEFINE l == line(o)
             q == [s.queue EXCEPT ![p] = @ \o l]
             r == [s EXCEPT !.queue[p] = @ \o l]
  <2>1. l \in Seq(Pairs(s.ctx)) /\ \A t \in A : <<c, t>> \in ToSet(l)
    BY <1>3
  <2> HIDE DEF l, A
  <2>2. r = [s EXCEPT !.queue = q]
    OBVIOUS
  <2>3. Queued(q) = Queued(s.queue) \cup ToSet(l)
    BY <1>0, <2>1, LineAdds
  <2> HIDE DEF r, q
  <2>4. r = [ctx |-> s.ctx, counter |-> s.counter, queue |-> q]
    BY <1>0, <2>2, StateFields
  <2>5. r.ctx = s.ctx /\ r.queue = q
    BY <2>4
  <2>6. Fits(r)
    BY <2>1, <2>3, <2>5 DEF Tame, Alike, Later
  <2>7. QED
    BY <2>6 DEF r, l
<1>5. ASSUME NEW r \in async_put_context_tasks(s, c, p) PROVE Fits(r)
  <2>1. CASE s.ctx[c].destory
    <3>1. r = s
      BY <2>1, <1>5 DEF async_put_context_tasks
    <3>2. QED
      BY <2>1, <3>1, TameRefl
  <2>2. CASE ~s.ctx[c].destory
    <3>1. PICK o \in SetToSeqs(A) : r = [s EXCEPT !.queue[p] = @ \o line(o)]
      BY <2>2, <1>5 DEF async_put_context_tasks
    <3> HIDE DEF Fits, A, line
    <3>2. QED
      BY <3>1, <1>4
  <2>3. QED
    BY <2>1, <2>2
<1>6. QED
  BY <1>5

(* AsyncContext.destory loses nothing else. *)
LEMMA DestoryTame ==
  ASSUME NEW cs, NEW s, Sound(cs, s), NEW c \in Ids(s.ctx)
  PROVE  /\ Tame(s, DestoryContext(s, c)) /\ DestoryContext(s, c).ctx[c].destory
         /\ DestoryContext(s, c).queue = s.queue
<1> DEFINE D == Doomed(s.ctx, c)
           ds == Destory(s.ctx, D)
           n == s.counter - Cardinality(D)
           r == DestoryContext(s, c)
<1>0. /\ Shape(s.ctx) /\ s = [ctx |-> s.ctx, counter |-> s.counter, queue |-> s.queue]
      /\ c \in DOMAIN s.ctx /\ s.ctx[c].kind # "output"
  BY DEF Sound, Whole, Ids
<1>1. ~s.ctx[c].destory => c \in D
  BY <1>0, DoomedCounted
<1>2. r = [s EXCEPT !.ctx = ds, !.counter = n]
  BY DEF DestoryContext
<1> HIDE DEF D
<1>3. /\ DOMAIN ds = DOMAIN s.ctx /\ Grows(s.ctx, ds)
      /\ \A x \in DOMAIN s.ctx : Alike(s.ctx[x], ds[x])
  <2> DEFINE bs == s.ctx
             es == Destory(bs, D)
  <2>1. Shape(bs)
    BY <1>0
  <2> HIDE DEF bs, ds
  <2>2. DOMAIN es = DOMAIN bs /\ Grows(bs, es)
    BY <2>1, DestoryAlike
  <2>3. \A x \in DOMAIN bs : Alike(bs[x], es[x])
    BY <2>1, DestoryAlike
  <2>4. QED
    BY <2>2, <2>3 DEF bs, ds
<1>4. c \in D => ds[c].destory
  BY <1>0, DestoryEnds
<1> HIDE DEF ds, n, r
<1>5. ds[c].destory
  BY <1>0, <1>1, <1>3, <1>4 DEF Grows, Later
<1>6. r = [ctx |-> ds, counter |-> n, queue |-> s.queue]
  BY <1>0, <1>2, StateFields
<1>7. r.ctx = ds /\ r.queue = s.queue
  BY <1>6
<1>8. Tame(s, r)
  BY <1>3, <1>7 DEF Tame, Grows
<1>9. QED
  BY <1>5, <1>7, <1>8 DEF r

(* One returned context. *)
LEMMA HandleTends ==
  ASSUME NEW cs, NEW s, Sound(cs, s), NEW x \in DOMAIN cs, NEW c
  PROVE  \A r \in HandleOutput(s, x, c) : Tame(s, r) /\ Tended(r, c, x)
<1>1. CASE s.ctx[x].freezing \/ s.ctx[x].kind = "output"
  BY <1>1, TameRefl DEF HandleOutput, Tended
<1>2. CASE ~(s.ctx[x].freezing \/ s.ctx[x].kind = "output")
  <2>1. x \in Ids(s.ctx)
    BY <1>2 DEF Ids, Sound, Grows
  <2>2. ASSUME NEW p \in ContextPriority, NEW r \in async_put_context_tasks(s, x, p)
        PROVE  /\ Tame(s, r) /\ r.ctx = s.ctx /\ Sound(cs, r)
               /\ ~s.ctx[x].destory => \A t \in s.ctx[x].available : <<x, t>> \in Queued(r.queue)
    BY <2>1, <2>2, PutTends, PutSound
  <2>3. LIFO_HIGH \in ContextPriority /\ FIFO_LOW \in ContextPriority
        /\ FIFO_HIGH \in ContextPriority
    BY DEF LIFO_HIGH, ContextPriority
  <2>4. CASE x # c
    <3>1. ASSUME NEW r \in HandleOutput(s, x, c) PROVE Tame(s, r) /\ Tended(r, c, x)
      <4>1. PICK p \in ContextPriority : r \in async_put_context_tasks(s, x, p)
        BY <1>2, <2>3, <2>4, <3>1 DEF HandleOutput
      <4>2. QED
        BY <2>2, <2>4, <4>1 DEF Tended
    <3>2. QED
      BY <3>1
  <2>5. CASE x = c
    <3>1. ASSUME NEW z \in HandleOutput(s, x, c) PROVE Tame(s, z) /\ Tended(z, c, x)
      <4>1. PICK r \in async_put_context_tasks(s, x, LIFO_HIGH) :
              z = IF r.ctx[x].destory \/ r.ctx[x].available = {} THEN DestoryContext(r, x) ELSE r
        BY <1>2, <2>5, <3>1 DEF HandleOutput
      <4>2. /\ Tame(s, r) /\ r.ctx = s.ctx /\ Sound(cs, r)
            /\ ~s.ctx[x].destory => \A t \in s.ctx[x].available : <<x, t>> \in Queued(r.queue)
        BY <2>2, <2>3, <4>1
      <4>3. CASE r.ctx[x].destory \/ r.ctx[x].available = {}
        <5>1. Tame(r, DestoryContext(r, x)) /\ DestoryContext(r, x).ctx[x].destory
          BY <2>1, <4>2, DestoryTame
        <5>2. QED
          BY <4>1, <4>2, <4>3, <5>1, TameTrans DEF Tended
      <4>4. CASE ~(r.ctx[x].destory \/ r.ctx[x].available = {})
        BY <4>1, <4>2, <4>4 DEF Tended
      <4>5. QED
        BY <4>3, <4>4
    <3>2. QED
      BY <3>1
  <2>6. QED
    BY <2>4, <2>5
<1>3. QED
  BY <1>1, <1>2

(* The states S follow q, and the contexts of out at the indices s are     *)
(* tended in them.                                                         *)
AllTended(cs, q, out, c, s, S) ==
  \A r \in S : Sound(cs, r) /\ Tame(q, r) /\ \A i \in s : Tended(r, c, out[i])

(* The loop over the returned contexts. *)
LEMMA HandlesTend ==
  ASSUME NEW cs, NEW q, Sound(cs, q), NEW c, NEW out \in Seq(DOMAIN cs)
  PROVE  \A r \in HandleOutputs(q, out, c) :
           Sound(cs, r) /\ Tame(q, r) /\ \A i \in DOMAIN out : Tended(r, c, out[i])
<1> DEFINE S == DOMAIN out
           pick(s) == Max(s)
           rest(s) == s \ {pick(s)}
           next(v, x) == UNION {HandleOutput(r, out[x], c) : r \in v}
           step(f, s) == IF s = {} THEN {q} ELSE next(f[rest(s)], pick(s))
           Solves(f, k) == /\ f = [s \in SUBSET S |-> f[s]]
                           /\ \A s \in SUBSET S : Cardinality(s) <= k => f[s] = step(f, s)
           Solvable == {k \in Nat : \E f : Solves(f, k)}
<1>0. IsFiniteSet(S) /\ Cardinality(S) \in Nat
  BY LenProperties, FS_Interval, FS_CardinalityType
<1>a. ASSUME NEW s \in SUBSET S, s # {} PROVE pick(s) \in s
  <2>1. DOMAIN out = 1 .. Len(out) /\ Len(out) \in Nat
    BY LenProperties
  <2>2. QED
    BY <2>1, <1>a, MaxOf
<1> HIDE DEF S, pick, next
<1>b. ASSUME NEW s \in SUBSET S, s # {}, NEW k \in Nat, Cardinality(s) <= k + 1
      PROVE  rest(s) \in SUBSET S /\ Cardinality(rest(s)) <= k
  BY <1>0, <1>a, <1>b, Smaller
<1>c. \A s \in SUBSET S : /\ Cardinality(s) <= 0 => s = {}
                         /\ Cardinality(s) <= Cardinality(S)
  BY <1>0, Smaller
<1>1. 0 \in Solvable
  <2>1. Solves([s \in SUBSET S |-> {q}], 0)
    BY <1>c
  <2>2. QED
    BY <2>1
<1>2. ASSUME NEW k \in Nat, k \in Solvable PROVE k + 1 \in Solvable
  <2>1. PICK f : Solves(f, k)
    BY <1>2
  <2> DEFINE g == [s \in SUBSET S |-> IF Cardinality(s) <= k THEN f[s] ELSE step(f, s)]
  <2>2. ASSUME NEW s \in SUBSET S, Cardinality(s) <= k + 1 PROVE g[s] = step(g, s)
    <3>1. g[s] = step(f, s)
      BY <2>1
    <3>2. s # {} => g[rest(s)] = f[rest(s)]
      BY <2>2, <1>b
    <3>3. QED
      BY <3>1, <3>2
  <2>3. Solves(g, k + 1)
    BY <2>2
  <2> HIDE DEF Solves, g
  <2>4. QED
    BY <2>3
<1>3. PICK f : Solves(f, Cardinality(S))
  <2>1. Cardinality(S) \in Solvable
    BY <1>0, <1>1, <1>2, Reaches
  <2>2. QED
    BY <2>1
<1> DEFINE iter == CHOOSE i : i = [s \in SUBSET S |-> step(i, s)]
<1>4. iter = [s \in SUBSET S |-> step(iter, s)]
  <2>1. f = [s \in SUBSET S |-> step(f, s)]
    BY <1>3, <1>c
  <2>2. QED
    BY <2>1
<1>5. HandleOutputs(q, out, c) = iter[S]
  BY DEF HandleOutputs, FoldLeft, MapThenFoldSet, S, pick, next
<1> HIDE DEF iter
<1> DEFINE Reached == {k \in Nat : \A s \in SUBSET S :
                                  Cardinality(s) <= k => AllTended(cs, q, out, c, s, iter[s])}
<1>6. 0 \in Reached
  <2>1. ASSUME NEW s \in SUBSET S, Cardinality(s) <= 0 PROVE AllTended(cs, q, out, c, s, iter[s])
    BY <1>c, <2>1, <1>4, TameRefl DEF AllTended
  <2>2. QED
    BY <2>1
<1>7. ASSUME NEW k \in Nat, k \in Reached PROVE k + 1 \in Reached
  <2>1. ASSUME NEW s \in SUBSET S, Cardinality(s) <= k + 1
        PROVE  AllTended(cs, q, out, c, s, iter[s])
    <3>1. CASE s = {}
      BY <3>1, <1>4, TameRefl DEF AllTended
    <3>2. CASE s # {}
      <4>1. rest(s) \in SUBSET S /\ Cardinality(rest(s)) <= k
        BY <2>1, <3>2, <1>b
      <4>2. AllTended(cs, q, out, c, rest(s), iter[rest(s)])
        BY <4>1, <1>7
      <4>3. iter[s] = next(iter[rest(s)], pick(s))
        BY <1>4, <3>2
      <4>4. out[pick(s)] \in DOMAIN cs
        BY <1>a, <3>2, ElementOfSeq DEF S
      <4>5. QED
        <5> DEFINE x == out[pick(s)]
                   T == rest(s)
        <5>0. /\ AllTended(cs, q, out, c, T, iter[T]) /\ x \in DOMAIN cs
              /\ \A i \in s : i \in T \/ out[i] = x
              /\ \A i \in T : out[i] \in DOMAIN cs
          <6>1. \A i \in S : out[i] \in DOMAIN cs
            BY ElementOfSeq DEF S
          <6>2. QED
            BY <4>1, <4>2, <4>4, <6>1
        <5> HIDE DEF x, T, rest
        <5>1. ASSUME NEW r \in iter[T], NEW z \in HandleOutput(r, x, c)
              PROVE  Sound(cs, z) /\ Tame(q, z) /\ \A i \in s : Tended(z, c, out[i])
          <6>1. Sound(cs, r) /\ Tame(q, r) /\ \A i \in T : Tended(r, c, out[i])
            BY <5>0 DEF AllTended
          <6>2. Sound(cs, z)
            BY <5>0, <6>1, HandleSound
          <6>3. Tame(r, z) /\ Tended(z, c, x)
            BY <5>0, <6>1, HandleTends
          <6>4. \A i \in T : out[i] \in DOMAIN r.ctx
            BY <5>0, <6>1 DEF Sound, Grows
          <6>5. \A i \in T : Tended(z, c, out[i])
            BY <6>1, <6>3, <6>4, StaysTended
          <6>6. QED
            BY <5>0, <6>1, <6>2, <6>3, <6>5, TameTrans
        <5>2. iter[s] = next(iter[T], pick(s)) /\ x = out[pick(s)]
          BY <4>3 DEF T, x
        <5> HIDE DEF pick
        <5>3. QED
          BY <5>1, <5>2 DEF next, AllTended
    <3>3. QED
      BY <3>1, <3>2
  <2>2. QED
    BY <2>1
<1>8. QED
  <2>1. Cardinality(S) \in Reached
    BY <1>0, <1>6, <1>7, Reaches
  <2>2. QED
    BY <2>1, <1>0, <1>5 DEF AllTended, S

(* Masking the bypass tasks of many contexts. *)
LEMMA MaskBypassMarks ==
  ASSUME NEW cs, Shape(cs), NEW X, IsFiniteSet(X), NEW c, NEW t
  PROVE  Marks(cs, MaskBypass(cs, X, c, t), X)
<1> DEFINE S == X
           pick(s) == CHOOSE x \in s : TRUE
           rest(s) == s \ {pick(s)}
           next(v, x) == CompleteAll(v, x, BypassTasks(all_upstream, all_downstream,
                           IF t \in v[c].completed THEN {t} ELSE v[c].completed))
           step(f, s) == IF s = {} THEN cs ELSE next(f[rest(s)], pick(s))
           Solves(f, k) == /\ f = [s \in SUBSET S |-> f[s]]
                           /\ \A s \in SUBSET S : Cardinality(s) <= k => f[s] = step(f, s)
           Solvable == {k \in Nat : \E f : Solves(f, k)}
<1>0. IsFiniteSet(S) /\ Cardinality(S) \in Nat
  BY FS_CardinalityType
<1>a. ASSUME NEW s \in SUBSET S, s # {} PROVE pick(s) \in s
  BY <1>a
<1> HIDE DEF S, pick, next
<1>b. ASSUME NEW s \in SUBSET S, s # {}, NEW k \in Nat, Cardinality(s) <= k + 1
      PROVE  rest(s) \in SUBSET S /\ Cardinality(rest(s)) <= k
  BY <1>0, <1>a, <1>b, Smaller
<1>c. \A s \in SUBSET S : /\ Cardinality(s) <= 0 => s = {}
                         /\ Cardinality(s) <= Cardinality(S)
  BY <1>0, Smaller
<1>1. 0 \in Solvable
  <2>1. Solves([s \in SUBSET S |-> cs], 0)
    BY <1>c
  <2>2. QED
    BY <2>1
<1>2. ASSUME NEW k \in Nat, k \in Solvable PROVE k + 1 \in Solvable
  <2>1. PICK f : Solves(f, k)
    BY <1>2
  <2> DEFINE g == [s \in SUBSET S |-> IF Cardinality(s) <= k THEN f[s] ELSE step(f, s)]
  <2>2. ASSUME NEW s \in SUBSET S, Cardinality(s) <= k + 1 PROVE g[s] = step(g, s)
    <3>1. g[s] = step(f, s)
      BY <2>1
    <3>2. s # {} => g[rest(s)] = f[rest(s)]
      BY <2>2, <1>b
    <3>3. QED
      BY <3>1, <3>2
  <2>3. Solves(g, k + 1)
    BY <2>2
  <2> HIDE DEF Solves, g
  <2>4. QED
    BY <2>3
<1>3. PICK f : Solves(f, Cardinality(S))
  <2>1. Cardinality(S) \in Solvable
    BY <1>0, <1>1, <1>2, Reaches
  <2>2. QED
    BY <2>1
<1> DEFINE iter == CHOOSE i : i = [s \in SUBSET S |-> step(i, s)]
<1>4. iter = [s \in SUBSET S |-> step(iter, s)]
  <2>1. f = [s \in SUBSET S |-> step(f, s)]
    BY <1>3, <1>c
  <2>2. QED
    BY <2>1
<1>5. MaskBypass(cs, X, c, t) = iter[S]
  BY DEF MaskBypass, FoldSet, MapThenFoldSet, S, pick, next
<1> HIDE DEF iter
<1> DEFINE Reached == {k \in Nat : \A s \in SUBSET S :
                                  Cardinality(s) <= k => Marks(cs, iter[s], X)}
<1>6. 0 \in Reached
  <2>1. ASSUME NEW s \in SUBSET S, Cardinality(s) <= 0 PROVE Marks(cs, iter[s], X)
    BY <1>c, <2>1, <1>4, MarksRefl
  <2>2. QED
    BY <2>1
<1>7. ASSUME NEW k \in Nat, k \in Reached PROVE k + 1 \in Reached
  <2>1. ASSUME NEW s \in SUBSET S, Cardinality(s) <= k + 1 PROVE Marks(cs, iter[s], X)
    <3>1. CASE s = {}
      BY <3>1, <1>4, MarksRefl
    <3>2. CASE s # {}
      <4>1. rest(s) \in SUBSET S /\ Cardinality(rest(s)) <= k
        BY <2>1, <3>2, <1>b
      <4>2. Marks(cs, iter[rest(s)], X)
        BY <4>1, <1>7
      <4>3. iter[s] = next(iter[rest(s)], pick(s))
        BY <1>4, <3>2
      <4>4. Marks(iter[rest(s)], next(iter[rest(s)], pick(s)), X)
        <5> DEFINE v == iter[rest(s)]
                   x == pick(s)
        <5>1. x \in X
          BY <1>a, <3>2 DEF S
        <5>2. Shape(v)
          BY <4>2, SameShape DEF Marks
        <5> HIDE DEF v, x
        <5>3. \A T : Marks(v, CompleteAll(v, x, T), {x})
          BY <5>2, CompleteAllMarks
        <5>4. \A T : Marks(v, CompleteAll(v, x, T), X)
          BY <5>1, <5>3 DEF Marks
        <5>5. QED
          BY <5>4 DEF next, v, x
      <4>5. QED
        BY <4>2, <4>3, <4>4, MarksTrans
    <3>3. QED
      BY <3>1, <3>2
  <2>2. QED
    BY <2>1
<1>8. QED
  <2>1. Cardinality(S) \in Reached
    BY <1>0, <1>6, <1>7, Reaches
  <2>2. Marks(cs, iter[S], X)
    BY <2>1, <1>0
  <2>3. QED
    BY <2>2, <1>5

(* Without children nothing else is collected. *)
LEMMA RootsReferenced ==
  ASSUME NEW cs, Shape(cs), Rooted(cs), NEW S, S \subseteq DOMAIN cs
  PROVE  Referenced(cs, S) = S
<1> DEFINE L == Len(cs)
           near(R) == R \cup {y \in Live(cs) : \E x \in R : cs[x].parent = y \/ cs[y].parent = x}
           step(f, n) == IF n = 0 THEN S ELSE near(f[n - 1])
           reach == CHOOSE f : f = [n \in 0 .. L |-> step(f, n)]
           g == [n \in 0 .. L |-> S]
<1>0. L \in Nat /\ DOMAIN cs = 1 .. L
  BY ShapeLen
<1>1. near(S) = S
  <2>1. \A y \in Live(cs) : y # 0 /\ cs[y].parent = 0
    BY <1>0 DEF Live, Rooted
  <2>2. \A x \in S : x # 0 /\ cs[x].parent = 0
    BY <1>0 DEF Rooted
  <2>3. QED
    BY <2>1, <2>2
<1>2. Referenced(cs, S) = reach[L]
  BY DEF Referenced
<1> HIDE DEF L, near
<1>3. g = [n \in 0 .. L |-> step(g, n)]
  <2>1. \A n \in 0 .. L : n # 0 => n - 1 \in 0 .. L
    BY <1>0
  <2>2. \A n \in 0 .. L : step(g, n) = S
    BY <1>1, <2>1
  <2>3. QED
    BY <2>2
<1>4. reach = [n \in 0 .. L |-> step(reach, n)]
  BY <1>3
<1> HIDE DEF reach
<1> DEFINE Reached == {n \in Nat : n <= L => reach[n] = S}
<1>5. 0 \in Reached
  BY <1>0, <1>4
<1>6. ASSUME NEW n \in Nat, n \in Reached PROVE n + 1 \in Reached
  <2>1. ASSUME n + 1 <= L PROVE reach[n + 1] = S
    <3>1. n <= L /\ n + 1 \in 0 .. L /\ n + 1 # 0 /\ (n + 1) - 1 = n
      BY <1>0, <2>1
    <3>2. reach[n + 1] = near(reach[n])
      BY <1>4, <3>1
    <3>3. QED
      BY <1>1, <1>6, <3>1, <3>2
  <2>2. QED
    BY <2>1
<1>7. L \in Reached
  <2> HIDE DEF Reached
  <2>1. QED
    BY <1>0, <1>5, <1>6, Reaches
<1>8. QED
  BY <1>0, <1>2, <1>7

(* _context_postprocess. *)
LEMMA PostTame ==
  ASSUME NEW cs, NEW p, Sound(cs, p), NEW c \in Ids(cs), NEW out, out \subseteq DOMAIN p.ctx, NEW t
  PROVE  LET r == context_postprocess(p, c, out, t)
         IN  /\ Sound(cs, r) /\ DOMAIN r.ctx = DOMAIN p.ctx /\ Grows(p.ctx, r.ctx)
             /\ r.queue = p.queue
             /\ Rooted(p.ctx) =>
                  /\ Rooted(r.ctx)
                  /\ config.enable_context_gc /\ c \notin out => r.ctx[c].destory
                  /\ \A x \in DOMAIN p.ctx :
                       (config.enable_context_bypass => x \notin out \ {c})
                       => /\ r.ctx[x].completed = p.ctx[x].completed
                          /\ r.ctx[x].available = p.ctx[x].available
<1> DEFINE live == {x \in out : ~p.ctx[x].destory}
           gc == config.enable_context_gc
           bypass == config.enable_context_bypass
           kept == IF gc THEN Referenced(p.ctx, live) ELSE live
           swept == IF gc /\ c \notin kept /\ ~p.ctx[c].destory THEN DestoryContext(p, c) ELSE p
           fresh == {x \in Live(p.ctx) \ {c} : x \in kept /\ p.ctx[x].kind # "loop"}
           ds == MaskBypass(swept.ctx, fresh, c, t)
           es == IF bypass THEN ds ELSE swept.ctx
           r == context_postprocess(p, c, out, t)
<1>1. r = IF bypass THEN [swept EXCEPT !.ctx = ds] ELSE swept
  BY DEF context_postprocess
<1>0. Shape(p.ctx) /\ c \in Ids(p.ctx) /\ c \in DOMAIN p.ctx
  BY StillContexts DEF Sound, Whole, Ids
<1>2. Rooted(p.ctx) => kept = live
  <2>1. live \subseteq DOMAIN p.ctx
    OBVIOUS
  <2> HIDE DEF live
  <2>2. QED
    BY <1>0, <2>1, RootsReferenced
<1>3. fresh \subseteq DOMAIN p.ctx /\ (Rooted(p.ctx) => fresh \subseteq out \ {c})
  <2>1. Live(p.ctx) \subseteq DOMAIN p.ctx /\ live \subseteq out
    BY DEF Live
  <2> HIDE DEF live, kept
  <2>2. QED
    BY <1>2, <2>1
<1>4. Rooted(p.ctx) /\ gc /\ c \notin out => swept = DestoryContext(p, c) \/ p.ctx[c].destory
  <2>1. c \notin out => c \notin live
    OBVIOUS
  <2> HIDE DEF live, kept
  <2>2. QED
    BY <1>2, <2>1
<1>5. swept = p \/ swept = DestoryContext(p, c)
  OBVIOUS
<1> HIDE DEF live, kept, swept, fresh, r
<1>6. /\ Sound(cs, swept) /\ Tame(p, swept) /\ swept.queue = p.queue
      /\ swept = DestoryContext(p, c) => swept.ctx[c].destory
  <2>1. Sound(cs, DestoryContext(p, c)) /\ Tame(p, DestoryContext(p, c))
        /\ DestoryContext(p, c).queue = p.queue /\ DestoryContext(p, c).ctx[c].destory
    BY <1>0, DestorySound, DestoryTame
  <2>2. QED
    BY <1>5, <2>1, TameRefl
<1> DEFINE bs == p.ctx
           ss == swept.ctx
<1>7. /\ DOMAIN ss = DOMAIN bs /\ Grows(bs, ss) /\ Shape(ss)
      /\ \A x \in DOMAIN bs : Alike(bs[x], ss[x])
      /\ swept = [ctx |-> swept.ctx, counter |-> swept.counter, queue |-> swept.queue]
  BY <1>6 DEF Tame, Sound, Whole, Grows
<1>8. IsFiniteSet(fresh)
  <2>1. IsFiniteSet(DOMAIN bs)
    BY <1>0, ShapeLen, FS_Interval
  <2>2. QED
    BY <1>3, <2>1, FS_Subset
<1>9. Marks(ss, ds, fresh)
  <2> HIDE DEF ss
  <2>1. Marks(ss, MaskBypass(ss, fresh, c, t), fresh)
    BY <1>7, <1>8, MaskBypassMarks
  <2>2. QED
    BY <2>1 DEF ss
<1> HIDE DEF ds
<1>10. Marks(ss, es, fresh) /\ (~bypass => es = ss)
  BY <1>7, <1>9, MarksRefl
<1>11. /\ r.ctx = es /\ r.queue = p.queue /\ r.counter = swept.counter
       /\ r = [swept EXCEPT !.ctx = es, !.counter = swept.counter]
  <2>1. r = [ctx |-> es, counter |-> swept.counter, queue |-> swept.queue]
    BY <1>1, <1>7, StateFields
  <2>2. [swept EXCEPT !.ctx = es, !.counter = swept.counter]
          = [ctx |-> es, counter |-> swept.counter, queue |-> swept.queue]
    <3> HIDE DEF es
    <3>1. QED
      BY <1>7, StateFields
  <2> HIDE DEF es
  <2>3. QED
    BY <1>6, <2>1, <2>2
<1> HIDE DEF es
<1>12. Same(ss, es) /\ Grows(ss, es)
  BY <1>10, SameGrows DEF Marks
<1>13. Sound(cs, r)
  <2>1. Shape(es) /\ Tally(es, swept.counter) /\ Quiet(ss, es)
    BY <1>6, <1>12, SameTally DEF Sound, Whole, Same, Quiet
  <2>2. Grows(swept.ctx, es) /\ Quiet(swept.ctx, es)
    BY <1>12, <2>1
  <2> DEFINE n == swept.counter
  <2>3. Tally(es, n) /\ Shape(es) /\ Sound(cs, swept)
    BY <1>6, <2>1
  <2> HIDE DEF n
  <2>4. Sound(cs, [swept EXCEPT !.ctx = es, !.counter = n])
    BY <2>2, <2>3, ChangeSound
  <2>5. QED
    BY <1>11, <2>4 DEF n
<1>14. /\ DOMAIN es = DOMAIN bs /\ Grows(bs, es) /\ (Rooted(bs) => Rooted(es))
  <2>1. Rooted(bs) => Rooted(ss)
    BY <1>7 DEF Rooted, Alike
  <2>2. fresh \subseteq DOMAIN ss
    BY <1>3, <1>7
  <2>3. Rooted(ss) => Rooted(es)
    BY <1>10, <2>2, MarksTurns
  <2>4. QED
    BY <1>7, <1>12, <2>1, <2>3, GrowsTrans DEF Same
<1>15. ASSUME Rooted(bs), gc, c \notin out PROVE es[c].destory
  <2>1. ss[c].destory
    BY <1>0, <1>4, <1>6, <1>7, <1>15 DEF Grows, Later
  <2>2. QED
    BY <1>0, <1>7, <1>12, <2>1 DEF Grows, Later
<1>16. ASSUME Rooted(bs), NEW x \in DOMAIN bs, bypass => x \notin out \ {c}
       PROVE  es[x].completed = bs[x].completed /\ es[x].available = bs[x].available
  <2>1. Alike(bs[x], ss[x])
    BY <1>7
  <2>2. Rooted(ss) /\ fresh \subseteq DOMAIN ss /\ x \in DOMAIN ss
    BY <1>3, <1>7, <1>16 DEF Rooted, Alike
  <2>3. es[x] = ss[x]
    BY <1>3, <1>10, <1>16, <2>2 DEF Marks
  <2>4. QED
    BY <2>1, <2>3 DEF Alike
<1>17. QED
  BY <1>11, <1>13, <1>14, <1>15, <1>16 DEF r

-----------------------------------------------------------------------------
(* The inductive invariant.                                                *)

(* The queue and the workers hold only ready tasks. *)
HoldsTasks ==
  /\ queue \in LanesOf(Pairs(ctx))
  /\ DOMAIN pc = Worker /\ DOMAIN item = Worker
  /\ \A w \in Worker : pc[w] \in AtTask => item[w] \in Pairs(ctx)

(* No task waits while it keeps the data locked. *)
Unheld == config.holds = {}

(* The context of a sink that did not wait is alive: nobody ran since the  *)
(* get.                                                                    *)
SinkAlive ==
  /\ \A w \in Worker : pc[w] = "running" /\ item[w][2] = out_task => ~ctx[item[w][1]].destory
  /\ Unheld => \A w \in Worker : pc[w] # "copying"

TaskInv ==
  /\ Shape(ctx) /\ Tally(ctx, counter) /\ (Unheld => Sourced(ctx))
  /\ HoldsTasks /\ SinkAlive
  /\ output \subseteq Outputs(ctx)

(* State is such a state. *)
LEMMA StateWhole == ASSUME TaskInv PROVE Whole(State) /\ State.ctx = ctx
                                         /\ State.counter = counter /\ State.queue = queue
BY DEF TaskInv, HoldsTasks, Whole, State

(* The step of a worker whose label becomes l: the contexts grow, what is  *)
(* queued is ready, and the worker takes nothing new to run or a ready     *)
(* task of a live context, or waits with the one it has.                   *)
LEMMA WorkerStep ==
  ASSUME TaskInv, NEW w \in Worker, LoopFree(w), NEW l,
         Shape(ctx'), Tally(ctx', counter'), Unheld => Sourced(ctx'), Grows(ctx, ctx'),
         queue' \in LanesOf(Pairs(ctx')),
         output' \subseteq output \cup Outputs(ctx'),
         pc' = [pc EXCEPT ![w] = l],
         \/ item' = item /\ l \notin AtTask
         \/ item' = item /\ l = "copying" /\ pc[w] = "running" /\ ~Unheld
         \/ /\ l # "copying"
            /\ \E i \in Pairs(ctx') : /\ item' = [item EXCEPT ![w] = i]
                                      /\ l = "running" => ~ctx'[i[1]].destory
  PROVE  TaskInv'
<1>1. DOMAIN pc = Worker /\ DOMAIN item = Worker
  BY DEF TaskInv, HoldsTasks
<1>2. DOMAIN pc' = Worker /\ DOMAIN item' = Worker
  BY <1>1
<1>0. Unheld' = Unheld
  <2>1. config' = config
    BY DEF LoopFree
  <2>2. QED
    BY <2>1 DEF Unheld
<1>i. ASSUME NEW v \in Worker, v # w PROVE pc'[v] = pc[v] /\ item'[v] = item[v]
  <2>1. pc'[v] = pc[v]
    BY <1>1, <1>i
  <2>2. CASE item' = item
    BY <2>1, <2>2
  <2>3. CASE \E i \in Pairs(ctx') : item' = [item EXCEPT ![w] = i]
    BY <1>1, <1>i, <2>1, <2>3
  <2>4. QED
    BY <2>2, <2>3
<1>3. ASSUME NEW v \in Worker, pc'[v] \in AtTask
      PROVE  /\ item'[v] \in Pairs(ctx')
             /\ pc'[v] = "running" /\ item'[v][2] = out_task => ~ctx'[item'[v][1]].destory
             /\ Unheld => pc'[v] # "copying"
  <2>1. CASE v = w
    <3>1. pc'[w] = l /\ l \in AtTask
      BY <1>1, <1>3, <2>1
    <3>2. CASE item' = item /\ l = "copying" /\ pc[w] = "running" /\ ~Unheld
      <4>1. item[w] \in Pairs(ctx')
        BY <3>2, StillContexts DEF TaskInv, HoldsTasks, AtTask
      <4>2. QED
        BY <2>1, <3>1, <3>2, <4>1
    <3>3. CASE /\ l # "copying"
               /\ \E i \in Pairs(ctx') : /\ item' = [item EXCEPT ![w] = i]
                                         /\ l = "running" => ~ctx'[i[1]].destory
      <4>1. PICK i \in Pairs(ctx') : /\ item' = [item EXCEPT ![w] = i]
                                     /\ l = "running" => ~ctx'[i[1]].destory
        BY <3>3
      <4>2. item'[w] = i
        BY <1>1, <4>1
      <4>3. QED
        BY <2>1, <3>1, <3>3, <4>1, <4>2
    <3>4. QED
      BY <3>1, <3>2, <3>3
  <2>2. CASE v # w
    <3>1. pc[v] = pc'[v] /\ item'[v] = item[v]
      BY <1>i, <2>2
    <3>2. pc[v] = "running" => item[v][2] # out_task
      BY <2>2, <3>1 DEF LoopFree
    <3>3. item[v] \in Pairs(ctx')
      BY <1>3, <3>1, StillContexts DEF TaskInv, HoldsTasks
    <3>4. Unheld => pc[v] # "copying"
      BY DEF TaskInv, SinkAlive
    <3>5. QED
      BY <3>1, <3>2, <3>3, <3>4
  <2>3. QED
    BY <2>1, <2>2
<1>4. output' \subseteq Outputs(ctx')
  BY DEF TaskInv, Outputs, Grows, Later
<1>5. HoldsTasks'
  BY <1>2, <1>3 DEF HoldsTasks, AtTask
<1>6. SinkAlive'
  BY <1>0, <1>3 DEF SinkAlive, AtTask
<1>7. QED
  BY <1>0, <1>4, <1>5, <1>6 DEF TaskInv

(* The second half of _worker_loop. *)
LEMMA HandlesKeeps ==
  ASSUME TaskInv, NEW w \in Worker, LoopFree(w), NEW c \in Ids(ctx), NEW t, NEW s, NEW out,
         Whole(s), Grows(ctx, s.ctx), Unheld => Sourced(s.ctx), out \in Seq(DOMAIN s.ctx),
         Handles(w, c, t, s, out), UNCHANGED item
  PROVE  TaskInv'
<1> DEFINE thawed == {x \in ToSet(out) : ~s.ctx[x].freezing}
<1>1. PICK p \in HandleOutputs(s, out, c) : Becomes(context_postprocess(p, c, thawed, t))
  BY DEF Handles
<1>2. Sound(s.ctx, s)
  BY DEF Sound, Grows, Later, Quiet
<1>3. Sound(s.ctx, p) /\ Tame(s, p)
  BY <1>2, HandlesTend
<1> DEFINE r == context_postprocess(p, c, thawed, t)
<1>4. Sound(s.ctx, r)
  <2>1. c \in Ids(s.ctx)
    BY StillContexts
  <2>2. thawed \subseteq DOMAIN p.ctx
    BY <1>3 DEF Tame, ToSet
  <2> HIDE DEF thawed
  <2>3. QED
    BY <1>3, <2>1, <2>2, PostTame
<1>5. ctx' = r.ctx /\ counter' = r.counter /\ queue' = r.queue
  BY <1>1 DEF Becomes
<1> HIDE DEF r
<1>6. /\ Shape(ctx') /\ Tally(ctx', counter') /\ queue' \in LanesOf(Pairs(ctx'))
      /\ Grows(s.ctx, ctx') /\ Quiet(s.ctx, ctx')
  BY <1>4, <1>5 DEF Sound, Whole
<1>7. Unheld => Sourced(ctx')
  BY <1>6, QuietSourced
<1>8. Grows(ctx, ctx')
  BY <1>6, GrowsTrans
<1>9. output' \subseteq output \cup Outputs(ctx')
  <2>1. output' = output \cup {x \in thawed : s.ctx[x].kind = "output"}
    BY DEF Handles
  <2>2. ToSet(out) \subseteq DOMAIN s.ctx
    BY DEF ToSet
  <2>3. {x \in thawed : s.ctx[x].kind = "output"} \subseteq Outputs(ctx')
    BY <1>6, <2>2 DEF Grows, Later, Outputs
  <2>4. QED
    BY <2>1, <2>3
<1>10. pc' = [pc EXCEPT ![w] = "poll"]
  BY DEF Handles
<1>11. QED
  BY <1>6, <1>7, <1>8, <1>9, <1>10, WorkerStep DEF AtTask

(* The queue without its first pair, which is a ready task. *)
LEMMA PopKeeps ==
  ASSUME TaskInv, ~IsEmpty(queue)
  PROVE  /\ First(queue) \in Pairs(ctx) /\ Whole(Popped)
         /\ Popped.ctx = ctx /\ Popped.counter = counter /\ Popped.queue = Pop(queue)
<1>1. First(queue) \in Pairs(ctx) /\ Pop(queue) \in LanesOf(Pairs(ctx))
  BY Served DEF TaskInv, HoldsTasks
<1>2. Popped = [ctx |-> ctx, counter |-> counter, queue |-> Pop(queue)]
  BY DEF Popped, State
<1>3. QED
  BY <1>1, <1>2 DEF Whole, TaskInv

(* A ready task is queued again. *)
LEMMA AgainWhole ==
  ASSUME NEW s, Whole(s), NEW c, NEW t, <<c, t>> \in Pairs(s.ctx)
  PROVE  LET r == async_put_task(s, c, t, FIFO_HIGH)
         IN  Whole(r) /\ r.ctx = s.ctx
<1> DEFINE i == <<c, t>>
           r == [s EXCEPT !.queue[FIFO_HIGH] = Append(@, i)]
           q == [s.queue EXCEPT ![FIFO_HIGH] = Append(@, i)]
<1>1. r = [s EXCEPT !.queue = q]
  OBVIOUS
<1>2. s = [ctx |-> s.ctx, counter |-> s.counter, queue |-> s.queue]
  BY DEF Whole
<1>3. q \in LanesOf(Pairs(s.ctx))
  <2> DEFINE P == Pairs(s.ctx)
  <2>1. s.queue \in [ContextPriority -> Seq(P)] /\ i \in P /\ FIFO_HIGH \in ContextPriority
    BY DEF Whole, LanesOf, ContextPriority
  <2> HIDE DEF P, i
  <2>2. Append(s.queue[FIFO_HIGH], i) \in Seq(P)
    BY <2>1, AppendProperties
  <2>3. q \in [ContextPriority -> Seq(P)]
    BY <2>1, <2>2
  <2>4. QED
    BY <2>3 DEF LanesOf, P
<1>4. async_put_task(s, c, t, FIFO_HIGH) = r
  BY DEF async_put_task
<1> HIDE DEF q, r
<1>5. r = [ctx |-> s.ctx, counter |-> s.counter, queue |-> q]
  BY <1>1, <1>2, StateFields
<1>6. r.ctx = s.ctx /\ r.counter = s.counter /\ r.queue = q
  BY <1>5
<1>7. QED
  BY <1>3, <1>4, <1>5, <1>6 DEF Whole

(* Nothing grows when nothing changes. *)
LEMMA GrowsRefl == ASSUME NEW cs PROVE Grows(cs, cs) /\ Quiet(cs, cs)
BY DEF Grows, Later, Quiet

(* check_get_task. *)
LEMMA FetchKeeps ==
  ASSUME TaskInv, NEW w \in Worker, Fetches(w)
  PROVE  TaskInv'
<1> DEFINE c == First(queue)[1]
           t == First(queue)[2]
<1>0. LoopFree(w) /\ ~IsEmpty(queue)
  BY DEF Fetches, AtGet
<1>1. /\ First(queue) \in Pairs(ctx) /\ Whole(Popped)
      /\ Popped.ctx = ctx /\ Popped.counter = counter /\ Popped.queue = Pop(queue)
  BY <1>0, PopKeeps
<1>2. First(queue) = <<c, t>> /\ c \in Ids(ctx)
  BY <1>1 DEF Pairs
<1> HIDE DEF c, t
<1>3. CASE SkipDestroyed(w, c, t)
  <2>1. /\ pc' = [pc EXCEPT ![w] = "poll"] /\ item' = [item EXCEPT ![w] = <<c, t>>]
        /\ UNCHANGED <<ctx, counter, output>> /\ queue' = Pop(queue)
    BY <1>1, <1>3 DEF SkipDestroyed, Gets, Becomes
  <2>2. /\ Shape(ctx') /\ Tally(ctx', counter') /\ (Unheld => Sourced(ctx'))
        /\ Grows(ctx, ctx')
        /\ queue' \in LanesOf(Pairs(ctx')) /\ <<c, t>> \in Pairs(ctx')
    BY <1>1, <1>2, <2>1, GrowsRefl DEF TaskInv, Whole
  <2>3. QED
    BY <1>0, <2>1, <2>2, WorkerStep
<1>4. CASE GetTask(w, c, t)
  <2>1. /\ pc' = [pc EXCEPT ![w] = "running"] /\ item' = [item EXCEPT ![w] = <<c, t>>]
        /\ UNCHANGED <<ctx, counter, output>> /\ queue' = Pop(queue) /\ ~ctx[c].destory
    BY <1>1, <1>4 DEF GetTask, Gets, Becomes, CanRun
  <2>2. /\ Shape(ctx') /\ Tally(ctx', counter') /\ (Unheld => Sourced(ctx'))
        /\ Grows(ctx, ctx')
        /\ queue' \in LanesOf(Pairs(ctx')) /\ <<c, t>> \in Pairs(ctx')
        /\ ~ctx'[<<c, t>>[1]].destory
    BY <1>1, <1>2, <2>1, GrowsRefl DEF TaskInv, Whole
  <2>3. QED
    BY <1>0, <2>1, <2>2, WorkerStep
<1>5. CASE DestroyStalled(w, c, t)
  <2> DEFINE r == DestoryContext(Popped, c)
  <2>1. Sound(ctx, r)
    <3>1. Sound(ctx, Popped) /\ c \in Ids(Popped.ctx)
      BY <1>1, <1>2, GrowsRefl DEF Sound
    <3>2. QED
      BY <3>1, DestorySound
  <2>2. /\ pc' = [pc EXCEPT ![w] = "poll"] /\ item' = [item EXCEPT ![w] = <<c, t>>]
        /\ output' = output
        /\ ctx' = r.ctx /\ counter' = r.counter /\ queue' = r.queue
    BY <1>5 DEF DestroyStalled, Gets, Becomes
  <2> HIDE DEF r
  <2>3. /\ Shape(ctx') /\ Tally(ctx', counter') /\ Grows(ctx, ctx') /\ Quiet(ctx, ctx')
        /\ queue' \in LanesOf(Pairs(ctx'))
    BY <2>1, <2>2 DEF Sound, Whole
  <2>4. (Unheld => Sourced(ctx')) /\ <<c, t>> \in Pairs(ctx')
    BY <1>1, <1>2, <2>3, QuietSourced, StillContexts DEF TaskInv
  <2>5. QED
    BY <1>0, <2>2, <2>3, <2>4, WorkerStep
<1>6. CASE NotAwake(w, c, t)
  <2> DEFINE s == async_put_task(Popped, c, t, FIFO_HIGH)
  <2>1. Whole(s) /\ s.ctx = ctx
    BY <1>1, <1>2, AgainWhole
  <2>2. Handles(w, c, t, s, <<>>) /\ UNCHANGED item
    BY <1>6 DEF NotAwake
  <2> HIDE DEF s
  <2>3. Grows(ctx, s.ctx) /\ (Unheld => Sourced(s.ctx)) /\ <<>> \in Seq(DOMAIN s.ctx)
    BY <2>1, GrowsRefl DEF TaskInv
  <2>4. QED
    BY <1>0, <1>2, <2>1, <2>2, <2>3, HandlesKeeps
<1>7. QED
  BY <1>3, <1>4, <1>5, <1>6 DEF Fetches, c, t

(* What the loop goes on with after a good result. *)
LEMMA AfterReturn ==
  ASSUME TaskInv, NEW w \in Worker, NEW c \in Ids(ctx), NEW t \in Node, NEW r,
         Good(ctx, counter, r),
         \/ Returns(w, c, t, r)
         \/ Routes(w, c, t, r) /\ r.delta = 0
  PROVE  \E s : /\ Handles(w, c, t, s, r.out) /\ UNCHANGED item
                /\ Whole(s) /\ s.ctx = Told(r, t).ctx /\ s.queue = queue
<1> DEFINE ds == Told(r, t).ctx
           n == counter + r.delta
           s == [State EXCEPT !.ctx = ds, !.counter = n]
<1>1. Shape(ds) /\ Tally(ds, n) /\ Grows(ctx, ds)
  BY ToldGood
<1>2. Handles(w, c, t, s, r.out) /\ UNCHANGED item
  <2>1. CASE Returns(w, c, t, r)
    BY <2>1 DEF Returns, State
  <2>2. CASE Routes(w, c, t, r) /\ r.delta = 0
    <3>1. n = counter
      BY <2>2, TallyInt DEF TaskInv
    <3>2. s = [State EXCEPT !.ctx = ds]
      <4> HIDE DEF ds, n
      <4> QED BY <3>1, StateWhole, StateFields DEF Whole
    <3>3. QED
      BY <2>2, <3>2 DEF Routes
  <2>3. QED
    BY <2>1, <2>2
<1> HIDE DEF ds, n
<1>3. s = [ctx |-> ds, counter |-> n, queue |-> queue]
  <2>1. /\ State = [ctx |-> State.ctx, counter |-> State.counter, queue |-> State.queue]
        /\ State.queue = queue
    BY StateWhole DEF Whole
  <2>2. [State EXCEPT !.ctx = ds, !.counter = n]
            = [ctx |-> ds, counter |-> n, queue |-> State.queue]
    BY <2>1, StateFields
  <2>3. QED
    BY <2>1, <2>2
<1> HIDE DEF s
<1>4. s.ctx = ds /\ s.counter = n /\ s.queue = queue
  BY <1>3
<1>5. queue \in LanesOf(Pairs(ds))
  BY <1>1, StillContexts DEF TaskInv, HoldsTasks
<1>6. Whole(s)
  BY <1>1, <1>3, <1>4, <1>5 DEF Whole
<1>7. QED
  BY <1>2, <1>4, <1>6 DEF ds

(* The code of a task ends with a good result. *)
LEMMA ReturnsKeeps ==
  ASSUME TaskInv, NEW w \in Worker, LoopFree(w), NEW c \in Ids(ctx), NEW t \in Node, NEW r,
         Good(ctx, counter, r), Unheld => Sourced(r.ctx),
         \/ Returns(w, c, t, r)
         \/ Routes(w, c, t, r) /\ r.delta = 0
  PROVE  TaskInv'
<1> DEFINE ds == Told(r, t).ctx
<1>1. Grows(ctx, ds) /\ r.out \in Seq(DOMAIN ds) /\ Same(r.ctx, ds)
  BY ToldGood
<1>2. Unheld => Sourced(ds)
  BY <1>1, SameGrows, QuietSourced DEF Same, Quiet
<1>3. PICK s : Handles(w, c, t, s, r.out) /\ UNCHANGED item /\ Whole(s) /\ s.ctx = ds
  BY AfterReturn
<1> HIDE DEF ds
<1>4. QED
  BY <1>1, <1>2, <1>3, HandlesKeeps

(* Without a new OutputContext. *)
LEMMA OrdinaryKeeps ==
  ASSUME TaskInv, NEW w \in Worker, LoopFree(w), NEW c \in Ids(ctx), NEW t \in Node, NEW r,
         Ordinary(ctx, counter, r), Returns(w, c, t, r)
  PROVE  TaskInv'
<1>1. Good(ctx, counter, r) /\ Grows(ctx, r.ctx) /\ Quiet(ctx, r.ctx)
  BY DEF Ordinary, Good
<1>2. Unheld => Sourced(r.ctx)
  BY <1>1, QuietSourced DEF TaskInv
<1>3. QED
  BY <1>1, <1>2, ReturnsKeeps

(* Every end of a task's code. *)
LEMMA EndKeeps ==
  ASSUME TaskInv, NEW w \in Worker, Executes(w) \/ Throttled(w)
  PROVE  TaskInv'
<1> DEFINE c == item[w][1]
           t == item[w][2]
<1>0. LoopFree(w) /\ pc[w] \in AtTask
  BY DEF Executes, Throttled, ReturnSame, ReturnNothing, ReturnNew, ReturnBoth,
         ReturnChildren, ReturnFrozen, Route, Misroute, LoopYield, LoopExhausted, RaiseRetry,
         RaiseError, RunSink, RateLimited, Ends, AtTask
<1>1. /\ c \in Ids(ctx) /\ c \in DOMAIN ctx /\ t \in Node /\ <<c, t>> \in Pairs(ctx)
      /\ Shape(ctx) /\ Tally(ctx, counter) /\ Same(ctx, ctx)
  <2>1. item[w] \in Pairs(ctx) /\ Shape(ctx) /\ Tally(ctx, counter)
    BY <1>0 DEF TaskInv, HoldsTasks
  <2>2. QED
    BY <2>1, SameRefl DEF Pairs, Ids
<1>2. Doomed(ctx, c) \subseteq Counted(ctx)
  BY <1>1, DoomedCounted DEF Ids
<1>s. Unheld /\ t = out_task => ~ctx[c].destory
  BY <1>0 DEF TaskInv, SinkAlive, AtTask
<1>r. ASSUME NEW r, Ordinary(ctx, counter, r), Returns(w, c, t, r) PROVE TaskInv'
  <2> HIDE DEF c, t
  <2> QED BY <1>0, <1>1, <1>r, OrdinaryKeeps
<1> HIDE DEF c, t
<1>3. CASE ReturnSame(w, c, t)
  BY <1>1, <1>3, <1>r, SameGood DEF ReturnSame, SameResult
<1>4. CASE ReturnNothing(w, c, t)
  BY <1>1, <1>4, <1>r, SameGood DEF ReturnNothing, NoResult
<1>5. CASE ReturnNew(w, c, t) \/ ReturnBoth(w, c, t)
  BY <1>1, <1>5, <1>r, NewGood DEF ReturnNew, ReturnBoth
<1>6. CASE ReturnChildren(w, c, t)
  BY <1>1, <1>6, <1>r, ChildrenGood DEF ReturnChildren
<1>7. CASE ReturnFrozen(w, c, t)
  BY <1>1, <1>7, <1>r, FrozenSame, SameGood DEF ReturnFrozen, FrozenResult
<1>8. CASE Route(w, c, t)
  <2>1. PICK R : Routes(w, c, t, RouteResult(ctx, c, t, R))
    BY <1>8 DEF Route
  <2> DEFINE r == RouteResult(ctx, c, t, R)
  <2>2. Ordinary(ctx, counter, r) /\ r.delta = 0
    BY <1>1, CompleteAllSame, SameGood, ResultFields DEF RouteResult
  <2> HIDE DEF r
  <2>3. Good(ctx, counter, r) /\ (Unheld => Sourced(r.ctx))
    BY <2>2, QuietSourced DEF Ordinary, Good, TaskInv
  <2>4. Routes(w, c, t, r)
    BY <2>1 DEF r
  <2>5. QED
    BY <1>0, <1>1, <2>2, <2>3, <2>4, ReturnsKeeps
<1>9. CASE Misroute(w, c, t)
  BY <1>1, <1>2, <1>9, <1>r, DestroyedGood DEF Misroute
<1>10. CASE LoopYield(w, c, t)
  BY <1>1, <1>10, <1>r, YieldGood DEF LoopYield
<1>11. CASE LoopExhausted(w, c, t)
  <2> DEFINE D == IF ctx[c].kind = "loop" THEN Doomed(ctx, c) ELSE {}
  <2>1. D \subseteq Counted(ctx)
    BY <1>2
  <2>2. Returns(w, c, t, DestroyedResult(ctx, D))
    BY <1>11 DEF LoopExhausted, ExhaustedResult
  <2> HIDE DEF D
  <2>3. QED
    BY <1>1, <1>r, <2>1, <2>2, DestroyedGood
<1>12. CASE RaiseRetry(w, c, t)
  <2>1. PICK n, A : Handles(w, c, t, async_put_task(
                      [State EXCEPT !.ctx[c].retry[t] = n, !.ctx[c].asleep = A], c, t, FIFO_HIGH),
                      <<>>)
    BY <1>12 DEF RaiseRetry
  <2> DEFINE ds == [ctx EXCEPT ![c].retry[t] = n, ![c].asleep = A]
             r == [State EXCEPT !.ctx[c].retry[t] = n, !.ctx[c].asleep = A]
             s == async_put_task(r, c, t, FIFO_HIGH)
  <2>2. Same(ctx, ds)
    BY <1>1, RetrySame
  <2>3. r = [State EXCEPT !.ctx = ds]
    BY StateWhole DEF State
  <2> HIDE DEF ds
  <2>4. Whole(r) /\ r.ctx = ds
    <3> HIDE DEF r
    <3>1. r = [ctx |-> ds, counter |-> counter, queue |-> queue]
      BY <2>3, StateWhole, StateFields DEF Whole
    <3>2. r.ctx = ds /\ r.counter = counter /\ r.queue = queue
      BY <3>1
    <3>3. Shape(ds) /\ Tally(ds, counter) /\ queue \in LanesOf(Pairs(ds))
      BY <1>1, <2>2, SameTally, SameGrows, StillContexts DEF TaskInv, HoldsTasks
    <3>4. QED
      BY <3>1, <3>2, <3>3 DEF Whole
  <2>5. Handles(w, c, t, s, <<>>) /\ UNCHANGED item
    BY <1>12, <2>1 DEF RaiseRetry
  <2> HIDE DEF r
  <2>6. Grows(ctx, ds) /\ Quiet(ctx, ds)
    BY <2>2, SameGrows DEF Same, Quiet
  <2>7. Whole(s) /\ s.ctx = ds
    BY <1>1, <2>4, <2>6, StillContexts, AgainWhole
  <2> HIDE DEF s
  <2>8. (Unheld => Sourced(s.ctx)) /\ <<>> \in Seq(DOMAIN s.ctx)
    BY <2>6, <2>7, QuietSourced DEF TaskInv
  <2>9. QED
    BY <1>0, <1>1, <2>5, <2>6, <2>7, <2>8, HandlesKeeps
<1>13. CASE RaiseError(w, c, t)
  <2>1. PICK n : Returns(w, c, t, DestroyedResult([ctx EXCEPT ![c].retry[t] = n], Doomed(ctx, c)))
    BY <1>13 DEF RaiseError
  <2>2. Same(ctx, [ctx EXCEPT ![c].retry[t] = n])
    BY <1>1, RetrySame
  <2>3. Ordinary(ctx, counter, DestroyedResult([ctx EXCEPT ![c].retry[t] = n], Doomed(ctx, c)))
    BY <1>1, <1>2, <2>2, DestroyedGood
  <2>4. QED
    BY <2>1, <2>3, <1>r
<1>14. CASE RunSink(w, c, t)
  <2>1. Good(ctx, counter, SinkResult(ctx, c)) /\ (Unheld => Sourced(SinkResult(ctx, c).ctx))
    BY <1>1, <1>14, <1>s, SinkGood DEF RunSink, TaskInv
  <2>2. Returns(w, c, t, SinkResult(ctx, c))
    BY <1>14 DEF RunSink
  <2>3. QED
    BY <1>0, <1>1, <2>1, <2>2, ReturnsKeeps
<1>15. CASE RateLimited(w, c, t)
  <2>1. Handles(w, c, t, State, <<c>>) /\ UNCHANGED item
    BY <1>15 DEF RateLimited
  <2>2. Whole(State) /\ State.ctx = ctx
    BY StateWhole
  <2>3. Grows(ctx, State.ctx) /\ (Unheld => Sourced(State.ctx)) /\ <<c>> \in Seq(DOMAIN State.ctx)
    BY <1>1, <2>2, GrowsRefl DEF TaskInv
  <2>4. QED
    BY <1>0, <1>1, <2>1, <2>2, <2>3, HandlesKeeps
<1>16. QED
  BY <1>3, <1>4, <1>5, <1>6, <1>7, <1>8, <1>9, <1>10, <1>11, <1>12, <1>13, <1>14, <1>15
     DEF Executes, Throttled, c, t

(* What run() gives the tasks. *)
LEMMA InputsQueued ==
  ASSUME Init
  PROVE  LET r == Complete(Context("plain", 0), in_task)
             inputs == [c \in 1 .. config.input_num |-> r]
         IN  /\ DOMAIN inputs = DOMAIN ctx /\ \A c \in DOMAIN ctx : inputs[c] = r
             /\ Sound(inputs, State)
             /\ \A c \in DOMAIN ctx : Alike(r, ctx[c]) /\ Tended(State, 0, c)
<1> DEFINE n == config.input_num
           r == Complete(Context("plain", 0), in_task)
           inputs == [c \in 1 .. n |-> r]
           line == [c \in 1 .. n |-> c]
           s0 == [ctx |-> inputs, counter |-> n, queue |-> EmptyLanes]
<1>0. n \in Nat
  BY ConfigAssumption DEF Init
<1>1. /\ DOMAIN r = Field /\ r.kind = "plain" /\ r.parent = 0 /\ r.child_num = 0
      /\ r.destory = FALSE /\ Prepared(r)
  BY InputContext
<1>2. PICK s \in HandleOutputs(s0, line, 0) : ctx = s.ctx /\ counter = s.counter /\ queue = s.queue
  BY DEF Init
<1> HIDE DEF n, r
<1>3. Shape(inputs) /\ Tally(inputs, n)
  BY <1>0, <1>1, InputsTally
<1>4. EmptyLanes \in LanesOf(Pairs(inputs))
  BY DEF EmptyLanes, LanesOf
<1>5. DOMAIN inputs = 1 .. n /\ \A c \in 1 .. n : inputs[c] = r
  OBVIOUS
<1> HIDE DEF inputs
<1>6. Sound(inputs, s0) /\ s0.ctx = inputs
  <2>1. s0.ctx = inputs /\ s0.counter = n /\ s0.queue = EmptyLanes
    OBVIOUS
  <2>2. s0 = [ctx |-> s0.ctx, counter |-> s0.counter, queue |-> s0.queue]
    OBVIOUS
  <2> HIDE DEF s0
  <2>3. QED
    BY <1>3, <1>4, <2>1, <2>2, GrowsRefl DEF Sound, Whole
<1>7. line \in Seq(DOMAIN inputs) /\ DOMAIN line = 1 .. n /\ \A c \in 1 .. n : line[c] = c
  BY <1>0, <1>5
<1> HIDE DEF line, s0
<1>8. Tame(s0, s) /\ Sound(inputs, s) /\ \A c \in 1 .. n : Tended(s, 0, c)
  <2>1. Tame(s0, s) /\ Sound(inputs, s) /\ \A c \in DOMAIN line : Tended(s, 0, line[c])
    BY <1>2, <1>6, <1>7, HandlesTend
  <2>2. QED
    BY <1>7, <2>1
<1>9. State = s
  BY <1>2, <1>8 DEF State, Sound, Whole
<1>10. DOMAIN ctx = 1 .. n /\ \A c \in 1 .. n : Alike(r, ctx[c])
  BY <1>2, <1>5, <1>6, <1>8 DEF Tame
<1>11. QED
  BY <1>5, <1>8, <1>9, <1>10 DEF n, r, inputs

(* run() starts with the input contexts counted and their tasks queued. *)
LEMMA TaskStarts == Init => TaskInv
<1> SUFFICES ASSUME Init PROVE TaskInv
  OBVIOUS
<1> DEFINE r == Complete(Context("plain", 0), in_task)
           inputs == [c \in 1 .. config.input_num |-> r]
<1>1. /\ DOMAIN inputs = DOMAIN ctx /\ \A c \in DOMAIN ctx : inputs[c] = r
      /\ Sound(inputs, State)
  BY InputsQueued
<1>2. r.kind = "plain"
  BY InputContext
<1> HIDE DEF r, inputs
<1>3. State.ctx = ctx /\ State.counter = counter /\ State.queue = queue
  BY DEF State
<1>4. /\ Shape(ctx) /\ Tally(ctx, counter) /\ queue \in LanesOf(Pairs(ctx))
      /\ Grows(inputs, ctx) /\ Quiet(inputs, ctx)
  BY <1>1, <1>3 DEF Sound, Whole
<1>5. Sourced(inputs)
  BY <1>1, <1>2 DEF Sourced, Outputs
<1>6. Sourced(ctx)
  BY <1>4, <1>5, QuietSourced
<1>7. HoldsTasks /\ SinkAlive /\ output \subseteq Outputs(ctx)
  BY <1>4 DEF Init, HoldsTasks, SinkAlive, AtTask
<1>8. QED
  BY <1>4, <1>6, <1>7 DEF TaskInv

(* Every step keeps the invariant. *)
LEMMA TaskSteps == TaskInv /\ [Next]_vars => TaskInv'
<1> SUFFICES ASSUME TaskInv, [Next]_vars PROVE TaskInv'
  OBVIOUS
<1>1. CASE UNCHANGED vars
  <2>1. UNCHANGED <<config, ctx, counter, queue, pc, item, output>>
    BY <1>1 DEF vars
  <2>2. HoldsTasks' /\ SinkAlive'
    BY <2>1 DEF TaskInv, HoldsTasks, SinkAlive, Unheld
  <2>3. QED
    BY <2>1, <2>2 DEF TaskInv, Unheld
<1>2. ASSUME NEW w \in Worker, Polls(w) \/ TimesOut(w) PROVE TaskInv'
  <2>1. PICK l \in {"stopped", "waiting", "poll"} :
          /\ LoopFree(w) /\ pc' = [pc EXCEPT ![w] = l]
          /\ UNCHANGED <<ctx, counter, queue, item, output>>
    BY <1>2 DEF Polls, TimesOut, Stop, Wait, Timeout
  <2>2. /\ Shape(ctx') /\ Tally(ctx', counter') /\ (Unheld => Sourced(ctx'))
        /\ Grows(ctx, ctx')
        /\ queue' \in LanesOf(Pairs(ctx')) /\ output' \subseteq output \cup Outputs(ctx')
    BY <2>1, GrowsRefl DEF TaskInv, HoldsTasks
  <2>3. QED
    BY <2>1, <2>2, WorkerStep DEF AtTask
<1>s. ASSUME NEW w \in Worker, Suspends(w) PROVE TaskInv'
  <2>1. /\ LoopFree(w) /\ pc[w] = "running" /\ pc' = [pc EXCEPT ![w] = "copying"]
        /\ UNCHANGED <<ctx, counter, queue, item, output>>
    BY <1>s DEF Suspends, SinkWaits
  <2>2. ~Unheld
    <3>1. PICK v \in Worker : pc[v] = "copying" \/ item[v][2] \in config.holds
      BY <1>s DEF Suspends, SinkWaits
    <3>2. QED
      BY <3>1 DEF Unheld, TaskInv, SinkAlive
  <2>3. /\ Shape(ctx') /\ Tally(ctx', counter') /\ (Unheld => Sourced(ctx'))
        /\ Grows(ctx, ctx')
        /\ queue' \in LanesOf(Pairs(ctx')) /\ output' \subseteq output \cup Outputs(ctx')
    BY <2>1, GrowsRefl DEF TaskInv, HoldsTasks
  <2>4. QED
    BY <2>1, <2>2, <2>3, WorkerStep
<1>3. ASSUME NEW w \in Worker, Fetches(w) \/ Executes(w) \/ Throttled(w) PROVE TaskInv'
  BY <1>3, FetchKeeps, EndKeeps
<1>4. ASSUME NEW c \in DOMAIN ctx, NEW t, AwakeTimePasses(c, t) PROVE TaskInv'
  <2>1. PICK A : ctx' = [ctx EXCEPT ![c].asleep = A]
    BY <1>4 DEF AwakeTimePasses
  <2>2. UNCHANGED <<config, counter, queue, pc, item, output>>
    BY <1>4 DEF AwakeTimePasses
  <2>3. Same(ctx, ctx')
    BY <2>1, RetrySame DEF TaskInv
  <2>4. Shape(ctx') /\ Tally(ctx', counter') /\ Grows(ctx, ctx') /\ Quiet(ctx, ctx')
    BY <2>2, <2>3, SameTally, SameGrows DEF TaskInv, Same, Quiet
  <2>5. (Unheld => Sourced(ctx')) /\ Unheld' = Unheld
    BY <2>2, <2>4, QuietSourced DEF TaskInv, Unheld
  <2>6. HoldsTasks'
    BY <2>2, <2>4, StillContexts DEF TaskInv, HoldsTasks
  <2>7. \A x \in DOMAIN ctx : ctx'[x].destory = ctx[x].destory
    BY <2>3 DEF Same, Kept
  <2>8. SinkAlive'
    <3>1. ASSUME NEW w \in Worker, pc'[w] = "running", item'[w][2] = out_task
          PROVE  ~ctx'[item'[w][1]].destory
      <4>1. item[w] \in Pairs(ctx) /\ ~ctx[item[w][1]].destory
        BY <2>2, <3>1 DEF TaskInv, HoldsTasks, SinkAlive, AtTask
      <4>2. item[w][1] \in DOMAIN ctx
        BY <4>1 DEF Pairs, Ids
      <4>3. QED
        BY <2>2, <2>7, <4>1, <4>2
    <3>2. QED
      BY <2>2, <2>5, <3>1 DEF TaskInv, SinkAlive
  <2>9. output' \subseteq Outputs(ctx')
    BY <2>2, <2>4 DEF TaskInv, Outputs, Grows, Later
  <2>10. QED
    BY <2>4, <2>5, <2>6, <2>8, <2>9 DEF TaskInv
<1>5. QED
  BY <1>1, <1>2, <1>s, <1>3, <1>4 DEF Next

(* The invariant holds in every state of a run. *)
LEMMA TaskInvariant == Spec => []TaskInv
BY TaskStarts, TaskSteps, PTL DEF Spec

-----------------------------------------------------------------------------
(* No task is forgotten, and every completed task ran.                     *)

(* What the theorems below ask of the tasks and their configuration.       *)
NoChildren == \A t \in Node : "children" \notin config.behaviour[t]

Creates(t) == config.behaviour[t] \cap {"new", "fork", "yield"} # {}

(* Bypass masks no context a task created. *)
NoMasks == config.enable_context_bypass => \A t \in Node : ~Creates(t)

(* A new context has a task to go on with. *)
Releases ==
  \A t \in Node : t = in_task \/ Creates(t) => \E d \in Node \ {t} : upstream_tasks[d] = {t}

(* Every live context has available tasks, and they are queued or run. *)
Attended ==
  \A c \in Alive :
    /\ ctx[c].available # {}
    /\ \A t \in ctx[c].available : <<c, t>> \in Queued(queue) \cup InHand

(* The tasks completed on a plain context ran for it. *)
Credited == \A c \in DOMAIN ctx : ctx[c].kind = "plain" => ctx[c].completed \subseteq ran[c]

TendInv ==
  /\ TaskInv
  /\ NoChildren => Rooted(ctx)
  /\ NoChildren /\ NoMasks /\ Releases /\ config.enable_context_gc => Attended
  /\ DOMAIN ran = DOMAIN ctx
  /\ NoChildren /\ NoMasks => Credited

(* Completing t makes d available, which waits for nothing else. *)
LEMMA CompleteReleases ==
  ASSUME NEW s, DOMAIN s = Field, s.completed = {}, ~s.skip, NEW t \in Node,
         NEW d \in Node \ {t}, upstream_tasks[d] = {t}
  PROVE  d \in Complete(s, t).available
<1>1. d \in Released({t}, t)
  BY GraphAssumption DEF Released, downstream_tasks, Converse
<1>2. Complete(s, t) = [s EXCEPT !.completed = {} \cup {t},
                                 !.available = (@ \ {t}) \cup Released({} \cup {t}, t)]
  BY DEF Complete
<1>3. {} \cup {t} = {t}
  OBVIOUS
<1>4. Complete(s, t).available = (s.available \ {t}) \cup Released({t}, t)
  BY <1>2, <1>3 DEF Field
<1>5. QED
  BY <1>1, <1>4

(* What complete(task) leaves of a call's result. *)
LEMMA ToldTends ==
  ASSUME NEW cs, NEW n, NEW r, Good(cs, n, r), NEW c \in DOMAIN cs, Yields(cs, c, r),
         NEW t \in Node
  PROVE  LET ds == Told(r, t).ctx
         IN  /\ DOMAIN ds = DOMAIN r.ctx /\ Grows(r.ctx, ds)
             /\ \A x \in DOMAIN ds \ DOMAIN cs : ~ds[x].freezing
             /\ Rooted(r.ctx) =>
                  /\ Rooted(ds)
                  /\ \A x \in DOMAIN cs : x # c => /\ ds[x].completed = cs[x].completed
                                                   /\ ds[x].available = cs[x].available
                  /\ c \notin ToSet(r.out) => ds[c].completed = r.ctx[c].completed
                  /\ \A x \in DOMAIN ds : ds[x].completed \subseteq r.ctx[x].completed \cup {t}
                  /\ \A x \in DOMAIN ds \ DOMAIN cs :
                       /\ ds[x].completed \subseteq {t}
                       /\ (\E d \in Node \ {t} : upstream_tasks[d] = {t})
                          => ds[x].available # {}
<1> DEFINE C == {x \in ToSet(r.out) : r.ctx[x].kind # "loop"}
           bs == r.ctx
           ds == CompleteIn(bs, C, t)
<1>1. Told(r, t).ctx = ds
  <2>1. "ctx" \in DOMAIN r
    BY DEF Good, Result
  <2>2. QED
    BY <2>1 DEF Told
<1>2. Told(r, t).ctx = ds /\ DOMAIN ds = DOMAIN bs /\ Grows(bs, ds) /\ (Rooted(bs) => Rooted(ds))
      /\ Turns(cs, ds, {c}, {c})
      /\ \A x \in DOMAIN bs : ds[x].completed \subseteq bs[x].completed \cup {t}
  <2> DEFINE es == Told(r, t).ctx
  <2>1. /\ DOMAIN es = DOMAIN r.ctx /\ Grows(r.ctx, es) /\ Turns(cs, es, {c}, {c})
        /\ Rooted(r.ctx) => Rooted(es)
        /\ \A x \in DOMAIN r.ctx : es[x].completed \subseteq r.ctx[x].completed \cup {t}
    BY ToldYields
  <2>2. es = ds
    BY <1>1
  <2> HIDE DEF ds, es
  <2>3. QED
    BY <2>1, <2>2 DEF es
<1>3. C \subseteq DOMAIN bs /\ Shape(bs)
  BY DEF Good, ToSet
<1>4. \A x \in DOMAIN bs \ DOMAIN cs :
        /\ bs[x].completed = {} /\ ~bs[x].skip /\ bs[x].kind \in Kinds /\ DOMAIN bs[x] = Field
        /\ bs[x].kind = "loop" => bs[x].available # {}
        /\ x \in ToSet(r.out)
  BY <1>3 DEF Yields, Blank, Shape
<1>5. \A x \in DOMAIN ds \ DOMAIN cs : ~ds[x].freezing
  <2> HIDE DEF ds
  <2>1. QED
    BY <1>2 DEF Turns
<1>6. ASSUME Rooted(bs)
      PROVE  /\ Rooted(ds)
             /\ \A x \in DOMAIN cs : x # c => /\ ds[x].completed = cs[x].completed
                                              /\ ds[x].available = cs[x].available
             /\ c \notin ToSet(r.out) => ds[c].completed = r.ctx[c].completed
             /\ \A x \in DOMAIN ds : ds[x].completed \subseteq r.ctx[x].completed \cup {t}
             /\ \A x \in DOMAIN ds \ DOMAIN cs :
                  /\ ds[x].completed \subseteq {t}
                  /\ (\E d \in Node \ {t} : upstream_tasks[d] = {t})
                     => ds[x].available # {}
  <2>1. \A x \in DOMAIN bs : x \notin C => ds[x] = bs[x]
    <3> HIDE DEF C
    <3>1. Marks(bs, ds, C)
      BY <1>3, CompleteInMarks
    <3>2. QED
      BY <1>3, <1>6, <3>1 DEF Marks
  <2>2. ASSUME NEW x \in C PROVE ds[x] = Complete(bs[x], t)
    <3>1. x \in UNION {Lineage(bs, y) : y \in C}
      BY <1>3, <1>6, RootLineage
    <3>2. QED
      BY <1>3, <3>1 DEF CompleteIn
  <2>3. ASSUME NEW x \in DOMAIN bs \ DOMAIN cs,
               NEW d \in Node \ {t}, upstream_tasks[d] = {t}
        PROVE  ds[x].available # {}
    <3>1. CASE bs[x].kind = "loop"
      BY <1>4, <2>1, <3>1
    <3>2. CASE bs[x].kind # "loop"
      <4>1. x \in C
        BY <1>4, <3>2
      <4>2. d \in Complete(bs[x], t).available
        BY <1>4, <2>3, CompleteReleases
      <4>3. QED
        BY <2>2, <4>1, <4>2
    <3>3. QED
      BY <3>1, <3>2
  <2>4. c \notin ToSet(r.out) => ds[c].completed = bs[c].completed
    BY <2>1 DEF Good, Grows
  <2> HIDE DEF C, ds
  <2>5. \A x \in DOMAIN cs : x # c => /\ ds[x].completed = cs[x].completed
                                      /\ ds[x].available = cs[x].available
    BY <1>2, <1>6 DEF Turns
  <2>6. \A x \in DOMAIN ds \ DOMAIN cs : ds[x].completed \subseteq {t}
    BY <1>2, <1>4
  <2>7. \A x \in DOMAIN ds \ DOMAIN cs :
          (\E d \in Node \ {t} : upstream_tasks[d] = {t}) => ds[x].available # {}
    BY <1>2, <2>3
  <2>8. QED
    BY <1>2, <1>6, <2>4, <2>5, <2>6, <2>7
<1> HIDE DEF C, ds
<1>7. QED
  BY <1>2, <1>5, <1>6

(* The state s, between the call of a task of c and the rest of the loop,  *)
(* once the call returned out.                                             *)
Leaves(c, s, out) ==
  /\ DOMAIN s.ctx \ DOMAIN ctx \subseteq ToSet(out)
  /\ ToSet(out) \subseteq (DOMAIN s.ctx \ DOMAIN ctx) \cup {c}
  /\ \A x \in DOMAIN s.ctx \ DOMAIN ctx :
       /\ ~s.ctx[x].freezing
       /\ NoChildren /\ Releases => s.ctx[x].kind = "output" \/ s.ctx[x].available # {}
       /\ NoChildren /\ NoMasks /\ config.enable_context_bypass => s.ctx[x].kind = "output"
  /\ NoChildren => /\ Rooted(s.ctx)
                   /\ \A x \in DOMAIN ctx : x # c => s.ctx[x].available = ctx[x].available
  /\ \A i \in Queued(queue) : i[1] = c \/ i \in Queued(s.queue)

(* The loop over the returned contexts queues what is available. *)
LEMMA HandlesTends ==
  ASSUME TendInv, TaskInv', NEW w \in Worker, NEW c \in Ids(ctx), NEW t, NEW s, NEW out,
         Whole(s), Grows(ctx, s.ctx), out \in Seq(DOMAIN s.ctx),
         Handles(w, c, t, s, out), UNCHANGED <<config, item>>,
         Leaves(c, s, out), pc[w] \in AtTask => item[w][1] = c,
         DOMAIN ran' = DOMAIN s.ctx,
         NoChildren /\ NoMasks =>
           \A x \in DOMAIN s.ctx : s.ctx[x].kind = "plain" => s.ctx[x].completed \subseteq ran'[x]
  PROVE  TendInv'
<1> DEFINE thawed == {x \in ToSet(out) : ~s.ctx[x].freezing}
<1>1. PICK p \in HandleOutputs(s, out, c) : Becomes(context_postprocess(p, c, thawed, t))
  BY DEF Handles
<1>2. Sound(s.ctx, s)
  BY DEF Sound, Grows, Later, Quiet
<1>3. /\ Sound(s.ctx, p) /\ Tame(s, p)
      /\ \A i \in DOMAIN out : Tended(p, c, out[i])
  BY <1>2, HandlesTend
<1>4. ToSet(out) \subseteq DOMAIN s.ctx /\ \A x \in ToSet(out) : Tended(p, c, x)
  <2>1. \A x \in ToSet(out) : Tended(p, c, x)
    BY <1>3 DEF ToSet
  <2>2. QED
    BY <2>1 DEF ToSet
<1> DEFINE r == context_postprocess(p, c, thawed, t)
<1>5. /\ Sound(s.ctx, r) /\ DOMAIN r.ctx = DOMAIN p.ctx /\ Grows(p.ctx, r.ctx)
      /\ r.queue = p.queue
      /\ Rooted(p.ctx) =>
           /\ Rooted(r.ctx)
           /\ config.enable_context_gc /\ c \notin thawed => r.ctx[c].destory
           /\ \A x \in DOMAIN p.ctx :
                (config.enable_context_bypass => x \notin thawed \ {c})
                => /\ r.ctx[x].completed = p.ctx[x].completed
                   /\ r.ctx[x].available = p.ctx[x].available
  <2>1. c \in Ids(s.ctx)
    BY StillContexts
  <2>2. thawed \subseteq DOMAIN p.ctx
    BY <1>3, <1>4 DEF Tame
  <2> HIDE DEF thawed
  <2>3. QED
    BY <1>3, <2>1, <2>2, PostTame
<1>6. ctx' = r.ctx /\ queue' = p.queue
  BY <1>1, <1>5 DEF Becomes
<1>7. c \in DOMAIN ctx /\ DOMAIN ctx \subseteq DOMAIN s.ctx /\ c \notin DOMAIN s.ctx \ DOMAIN ctx
  BY DEF Ids, Grows
<1> HIDE DEF r
<1>8. /\ DOMAIN ctx' = DOMAIN s.ctx /\ DOMAIN p.ctx = DOMAIN s.ctx
      /\ \A x \in DOMAIN s.ctx :
           /\ ctx'[x].kind = s.ctx[x].kind /\ (s.ctx[x].destory => ctx'[x].destory)
           /\ p.ctx[x].destory => ctx'[x].destory
           /\ p.ctx[x].kind = s.ctx[x].kind /\ Alike(s.ctx[x], p.ctx[x])
      /\ Queued(s.queue) \subseteq Queued(queue')
  BY <1>3, <1>5, <1>6 DEF Tame, Grows, Later
<1>9. NoChildren => Rooted(p.ctx)
  BY <1>8 DEF Leaves, Rooted, Alike
<1>10. NoChildren => Rooted(ctx')
  BY <1>5, <1>6, <1>9
<1>11. ASSUME NoChildren, NoMasks, NEW x \in DOMAIN s.ctx, s.ctx[x].kind # "output"
       PROVE  ctx'[x].completed = s.ctx[x].completed /\ ctx'[x].available = s.ctx[x].available
  <2>1. config.enable_context_bypass => x \notin thawed \ {c}
    BY <1>11 DEF Leaves
  <2>2. ctx'[x].completed = p.ctx[x].completed /\ ctx'[x].available = p.ctx[x].available
    BY <1>5, <1>6, <1>8, <1>9, <1>11, <2>1
  <2>3. QED
    BY <1>8, <2>2 DEF Alike
<1>12. UNCHANGED config /\ DOMAIN pc = Worker /\ pc' = [pc EXCEPT ![w] = "poll"]
  BY DEF TendInv, TaskInv, HoldsTasks, Handles
<1>13. \A i \in InHand : i[1] = c \/ i \in InHand'
  BY <1>12 DEF InHand
<1>14. ASSUME NoChildren, NoMasks, Releases, config.enable_context_gc, NEW x \in Alive'
       PROVE  /\ ctx'[x].available # {}
              /\ \A u \in ctx'[x].available : <<x, u>> \in Queued(queue') \cup InHand'
  <2>1. /\ x \in DOMAIN s.ctx /\ ~ctx'[x].destory /\ s.ctx[x].kind # "output"
        /\ ~s.ctx[x].destory /\ ~p.ctx[x].destory /\ p.ctx[x].kind # "output"
        /\ p.ctx[x].freezing = s.ctx[x].freezing
    BY <1>8, <1>14 DEF Alive, Counted, Live, Alike
  <2>2. /\ ctx'[x].available = s.ctx[x].available
        /\ p.ctx[x].available = s.ctx[x].available
    BY <1>8, <1>11, <1>14, <2>1 DEF Alike
  <2>3. CASE x = c
    <3>1. c \in thawed
      BY <1>5, <1>6, <1>9, <1>14, <2>1, <2>3
    <3>2. Tended(p, c, x) /\ ~s.ctx[x].freezing
      BY <1>4, <2>3, <3>1
    <3>3. QED
      BY <1>6, <2>1, <2>2, <2>3, <3>2 DEF Tended
  <2>4. CASE x \notin DOMAIN ctx
    <3>1. x \in ToSet(out) /\ ~s.ctx[x].freezing /\ s.ctx[x].available # {}
      BY <1>14, <2>1, <2>4 DEF Leaves
    <3>2. Tended(p, c, x)
      BY <1>4, <3>1
    <3>3. QED
      BY <1>6, <2>1, <2>2, <3>1, <3>2 DEF Tended
  <2>5. CASE x \in DOMAIN ctx /\ x # c
    <3>1. s.ctx[x].available = ctx[x].available /\ x \in Alive
      BY <1>14, <2>1, <2>5 DEF Leaves, Grows, Later, Alive, Counted, Live
    <3>2. /\ ctx[x].available # {}
          /\ \A u \in ctx[x].available : <<x, u>> \in Queued(queue) \cup InHand
      BY <1>14, <3>1 DEF TendInv, Attended
    <3>3. ASSUME NEW u \in ctx[x].available PROVE <<x, u>> \in Queued(queue') \cup InHand'
      <4> DEFINE i == <<x, u>>
      <4>1. i[1] # c /\ i \in Queued(queue) \cup InHand
        BY <2>5, <3>2, <3>3
      <4> HIDE DEF i
      <4>2. i \in Queued(queue') \cup InHand'
        BY <1>8, <1>13, <4>1 DEF Leaves
      <4>3. QED
        BY <4>2 DEF i
    <3>4. QED
      BY <2>2, <3>1, <3>2, <3>3
  <2>6. QED
    BY <2>3, <2>4, <2>5
<1>15. NoChildren /\ NoMasks /\ Releases /\ config.enable_context_gc => Attended'
  BY <1>14 DEF Attended
<1>16. NoChildren /\ NoMasks => Credited'
  <2>1. ASSUME NoChildren, NoMasks, NEW x \in DOMAIN ctx', ctx'[x].kind = "plain"
        PROVE  ctx'[x].completed \subseteq ran'[x]
    BY <1>8, <1>11, <2>1
  <2>2. QED
    BY <2>1 DEF Credited
<1>17. DOMAIN ran' = DOMAIN ctx'
  BY <1>8
<1>18. /\ NoChildren' = NoChildren /\ NoMasks' = NoMasks /\ Releases' = Releases
       /\ config' = config
  BY <1>12 DEF NoChildren, NoMasks, Releases, Creates
<1>19. QED
  BY <1>10, <1>15, <1>16, <1>17, <1>18 DEF TendInv

(* The code of a task ends: what it returned is queued, and its completed  *)
(* tasks ran.                                                              *)
LEMMA ReturnsTends ==
  ASSUME TendInv, TaskInv', NEW w \in Worker, LoopFree(w), NEW c \in Ids(ctx), NEW t \in Node,
         pc[w] \in AtTask, item[w][1] = c, NEW r, Good(ctx, counter, r), Yields(ctx, c, r),
         NoChildren => Rooted(r.ctx),
         NoChildren => \A x \in DOMAIN r.ctx \ DOMAIN ctx : r.ctx[x].kind = "output" \/ Creates(t),
         \/ Returns(w, c, t, r) /\ Unmasked(ctx, r)
         \/ Routes(w, c, t, r) /\ r.delta = 0 /\ r.out = <<c>>
  PROVE  TendInv'
<1> DEFINE ds == Told(r, t).ctx
           N == DOMAIN r.ctx \ DOMAIN ctx
<1>0. TaskInv
  BY DEF TendInv
<1>1. PICK s : /\ Handles(w, c, t, s, r.out) /\ UNCHANGED item
               /\ Whole(s) /\ s.ctx = ds /\ s.queue = queue
  BY <1>0, AfterReturn
<1>2. /\ c \in DOMAIN ctx /\ UNCHANGED config /\ DOMAIN ctx \subseteq DOMAIN r.ctx
      /\ \A x \in DOMAIN ctx : r.ctx[x].kind = ctx[x].kind
  BY DEF Ids, LoopFree, Good, Grows, Later
<1>3. /\ DOMAIN ds = DOMAIN r.ctx /\ Grows(r.ctx, ds) /\ r.out \in Seq(DOMAIN ds)
      /\ \A x \in N : ~ds[x].freezing
      /\ \A x \in DOMAIN r.ctx : ds[x].kind = r.ctx[x].kind
      /\ Grows(ctx, ds)
  <2>1. /\ DOMAIN ds = DOMAIN r.ctx /\ Grows(r.ctx, ds)
        /\ \A x \in DOMAIN ds \ DOMAIN ctx : ~ds[x].freezing
    BY <1>2, ToldTends
  <2>2. r.out \in Seq(DOMAIN ds) /\ Grows(ctx, ds)
    BY ToldGood
  <2> HIDE DEF ds
  <2>3. QED
    BY <2>1, <2>2 DEF Grows, Later
<1>4. ASSUME NoChildren
      PROVE  /\ Rooted(ds)
             /\ \A x \in DOMAIN ctx : x # c => /\ ds[x].completed = ctx[x].completed
                                               /\ ds[x].available = ctx[x].available
             /\ c \notin ToSet(r.out) => ds[c].completed = r.ctx[c].completed
             /\ \A x \in DOMAIN ds : ds[x].completed \subseteq r.ctx[x].completed \cup {t}
             /\ \A x \in N : ds[x].completed \subseteq {t}
             /\ \A x \in N : (\E d \in Node \ {t} : upstream_tasks[d] = {t})
                             => ds[x].available # {}
  <2>1. /\ Rooted(ds)
        /\ \A x \in DOMAIN ctx : x # c => /\ ds[x].completed = ctx[x].completed
                                          /\ ds[x].available = ctx[x].available
        /\ c \notin ToSet(r.out) => ds[c].completed = r.ctx[c].completed
        /\ \A x \in DOMAIN ds : ds[x].completed \subseteq r.ctx[x].completed \cup {t}
        /\ \A x \in DOMAIN ds \ DOMAIN ctx :
             /\ ds[x].completed \subseteq {t}
             /\ (\E d \in Node \ {t} : upstream_tasks[d] = {t}) => ds[x].available # {}
    BY <1>2, <1>4, ToldTends
  <2> HIDE DEF ds
  <2>2. QED
    BY <1>3, <2>1
<1> HIDE DEF ds
<1>5. N \subseteq ToSet(r.out) /\ ToSet(r.out) \subseteq N \cup {c}
  BY DEF Yields
<1>6. Leaves(c, s, r.out)
  <2>1. ASSUME NEW x \in N
        PROVE  /\ ~ds[x].freezing
               /\ NoChildren /\ Releases => ds[x].kind = "output" \/ ds[x].available # {}
               /\ NoChildren /\ NoMasks /\ config.enable_context_bypass => ds[x].kind = "output"
    <3>1. NoChildren => ds[x].kind = "output" \/ Creates(t)
      BY <1>3
    <3>2. Releases /\ Creates(t) => \E d \in Node \ {t} : upstream_tasks[d] = {t}
      BY DEF Releases
    <3>3. QED
      BY <1>3, <1>4, <3>1, <3>2 DEF NoMasks
  <2>2. QED
    BY <1>1, <1>3, <1>4, <1>5, <2>1 DEF Leaves
<1>7. /\ DOMAIN ran' = DOMAIN s.ctx
      /\ NoChildren /\ NoMasks =>
           \A x \in DOMAIN s.ctx : s.ctx[x].kind = "plain" => s.ctx[x].completed \subseteq ran'[x]
  <2>1. /\ DOMAIN ran = DOMAIN ctx
        /\ NoChildren /\ NoMasks =>
             \A x \in DOMAIN ctx : ctx[x].kind = "plain" => ctx[x].completed \subseteq ran[x]
    BY DEF TendInv, Credited
  <2>2. CASE Returns(w, c, t, r) /\ Unmasked(ctx, r)
    <3>1. ran' = [x \in DOMAIN r.ctx |->
                    (IF x \in DOMAIN ran THEN ran[x] ELSE {})
                      \cup IF x \in ToSet(r.out) THEN ran[c] \cup {t} ELSE {}]
      BY <2>2 DEF Returns
    <3>2. ASSUME NoChildren, NoMasks, NEW x \in DOMAIN ds, ds[x].kind = "plain"
          PROVE  ds[x].completed \subseteq ran'[x]
      <4>1. CASE x \in N
        BY <1>3, <1>4, <1>5, <3>1, <3>2, <4>1
      <4>2. CASE x \in DOMAIN ctx /\ x # c
        <5>1. ctx[x].completed \subseteq ran[x] /\ ran[x] \subseteq ran'[x]
          BY <1>2, <1>3, <2>1, <3>1, <3>2, <4>2
        <5>2. QED
          BY <1>4, <3>2, <4>2, <5>1
      <4>3. CASE x = c
        <5>1. ctx[c].completed \subseteq ran[c] /\ ran[c] \subseteq ran'[c]
          BY <1>2, <1>3, <2>1, <3>1, <3>2, <4>3
        <5>2. r.ctx[c].completed = ctx[c].completed
          BY <1>2, <2>2 DEF Unmasked
        <5>3. c \in ToSet(r.out) => t \in ran'[c]
          BY <1>2, <3>1
        <5>4. ds[c].completed \subseteq r.ctx[c].completed \cup {t}
          BY <1>4, <3>2, <4>3
        <5>5. c \notin ToSet(r.out) => ds[c].completed = r.ctx[c].completed
          BY <1>4, <3>2
        <5>6. QED
          BY <4>3, <5>1, <5>2, <5>3, <5>4, <5>5
      <4>4. QED
        BY <1>3, <4>1, <4>2, <4>3
    <3>3. QED
      BY <1>1, <1>3, <3>1, <3>2
  <2>3. CASE Routes(w, c, t, r) /\ r.delta = 0 /\ r.out = <<c>>
    <3>1. ran' = [ran EXCEPT ![c] = @ \cup ds[c].completed]
      BY <2>3 DEF Routes, ds
    <3>2. DOMAIN ds = DOMAIN ctx
      <4>1. ToSet(r.out) = {c}
        BY <2>3, ShortLists
      <4>2. QED
        BY <1>2, <1>3, <1>5, <4>1
    <3>3. ASSUME NoChildren, NoMasks, NEW x \in DOMAIN ds, ds[x].kind = "plain"
          PROVE  ds[x].completed \subseteq ran'[x]
      <4>1. CASE x # c
        BY <1>2, <1>3, <1>4, <2>1, <3>1, <3>2, <3>3, <4>1
      <4>2. CASE x = c
        BY <2>1, <3>1, <3>2, <4>2
      <4>3. QED
        BY <4>1, <4>2
    <3>4. QED
      BY <1>1, <2>1, <3>1, <3>2, <3>3
  <2>4. QED
    BY <2>2, <2>3
<1>8. Grows(ctx, s.ctx) /\ r.out \in Seq(DOMAIN s.ctx)
  BY <1>1, <1>3
<1>9. QED
  BY <1>1, <1>2, <1>6, <1>7, <1>8, HandlesTends

(* A pair joins the queue again. *)
LEMMA AgainQueued ==
  ASSUME NEW s, Whole(s), NEW c, NEW t, <<c, t>> \in Pairs(s.ctx)
  PROVE  Queued(async_put_task(s, c, t, FIFO_HIGH).queue) = Queued(s.queue) \cup {<<c, t>>}
<1> DEFINE i == <<c, t>>
           P == Pairs(s.ctx)
           q == [s.queue EXCEPT ![FIFO_HIGH] = Append(@, i)]
           r == [s EXCEPT !.queue[FIFO_HIGH] = Append(@, i)]
<1>1. r = [s EXCEPT !.queue = q]
  OBVIOUS
<1>2. s = [ctx |-> s.ctx, counter |-> s.counter, queue |-> s.queue]
  BY DEF Whole
<1>3. FIFO_HIGH \in ContextPriority /\ FIFO_HIGH # LIFO
  BY DEF ContextPriority, FIFO_HIGH, LIFO
<1>4. q = Put(s.queue, i, FIFO_HIGH)
  BY <1>3 DEF Put
<1>5. Queued(q) = Queued(s.queue) \cup {i}
  <2>1. s.queue \in LanesOf(P) /\ i \in P
    BY DEF Whole
  <2> HIDE DEF P, i, q
  <2>2. Queued(Put(s.queue, i, FIFO_HIGH)) = Queued(s.queue) \cup {i}
    BY <1>3, <2>1, PutQueued
  <2>3. QED
    BY <1>4, <2>2
<1>6. async_put_task(s, c, t, FIFO_HIGH) = r
  BY DEF async_put_task
<1> HIDE DEF q, r
<1>7. r.queue = q
  <2>1. r = [ctx |-> s.ctx, counter |-> s.counter, queue |-> q]
    BY <1>1, <1>2, StateFields
  <2>2. QED
    BY <2>1
<1>8. QED
  BY <1>5, <1>6, <1>7

(* The loop goes on without a completed task or a new context. *)
LEMMA AgainTends ==
  ASSUME TendInv, TaskInv', NEW w \in Worker, NEW c \in Ids(ctx), NEW t, NEW s, NEW out,
         Whole(s), DOMAIN s.ctx = DOMAIN ctx, Turns(ctx, s.ctx, {}, {}),
         Rooted(ctx) => Rooted(s.ctx),
         out = <<>> \/ out = <<c>>, Handles(w, c, t, s, out), UNCHANGED <<config, item, ran>>,
         \A i \in Queued(queue) : i[1] = c \/ i \in Queued(s.queue),
         pc[w] \in AtTask => item[w][1] = c
  PROVE  TendInv'
<1>1. /\ Grows(ctx, s.ctx) /\ c \in DOMAIN s.ctx /\ (NoChildren => Rooted(s.ctx))
      /\ \A x \in DOMAIN ctx : s.ctx[x].kind = ctx[x].kind
      /\ NoChildren => \A x \in DOMAIN ctx : /\ s.ctx[x].completed = ctx[x].completed
                                             /\ s.ctx[x].available = ctx[x].available
  BY DEF TendInv, Turns, Ids, Grows, Later
<1>2. out \in Seq(DOMAIN s.ctx) /\ ToSet(out) \subseteq {c}
  <2>1. CASE out = <<>>
    BY <2>1, ShortLists
  <2>2. CASE out = <<c>>
    <3>1. <<c>> \in Seq(DOMAIN s.ctx)
      BY <1>1
    <3>2. ToSet(<<c>>) = {c}
      BY ShortLists
    <3>3. QED
      BY <2>2, <3>1, <3>2
  <2>3. QED
    BY <2>1, <2>2
<1>3. Leaves(c, s, out)
  BY <1>1, <1>2 DEF Leaves
<1>4. /\ DOMAIN ran' = DOMAIN s.ctx
      /\ NoChildren /\ NoMasks =>
           \A x \in DOMAIN s.ctx : s.ctx[x].kind = "plain" => s.ctx[x].completed \subseteq ran'[x]
  BY <1>1 DEF TendInv, Credited
<1>5. QED
  BY <1>1, <1>2, <1>3, <1>4, HandlesTends

(* Every end of a task's code. *)
LEMMA EndTends ==
  ASSUME TendInv, TaskInv', NEW w \in Worker, Executes(w) \/ Throttled(w)
  PROVE  TendInv'
<1> DEFINE c == item[w][1]
           t == item[w][2]
<1>0. LoopFree(w) /\ pc[w] \in AtTask /\ UNCHANGED config
  BY DEF Executes, Throttled, ReturnSame, ReturnNothing, ReturnNew, ReturnBoth,
         ReturnChildren, ReturnFrozen, Route, Misroute, LoopYield, LoopExhausted, RaiseRetry,
         RaiseError, RunSink, RateLimited, Ends, LoopFree, AtTask
<1>1. /\ c \in Ids(ctx) /\ c \in DOMAIN ctx /\ t \in Node /\ <<c, t>> \in Pairs(ctx)
      /\ Shape(ctx) /\ Tally(ctx, counter) /\ Same(ctx, ctx)
      /\ NoChildren => Rooted(ctx)
  <2>1. item[w] \in Pairs(ctx) /\ Shape(ctx) /\ Tally(ctx, counter)
    BY <1>0 DEF TendInv, TaskInv, HoldsTasks
  <2>2. QED
    BY <2>1, SameRefl DEF Pairs, Ids, TendInv
<1>2. Doomed(ctx, c) \subseteq Counted(ctx)
  BY <1>1, DoomedCounted DEF Ids
<1>i. item[w][1] = c
  OBVIOUS
<1> HIDE DEF c, t
<1>r. ASSUME NEW r, Good(ctx, counter, r), Yields(ctx, c, r), Unmasked(ctx, r),
             Returns(w, c, t, r), NoChildren => (Rooted(ctx) => Rooted(r.ctx)),
             NoChildren => \A x \in DOMAIN r.ctx \ DOMAIN ctx : r.ctx[x].kind = "output" \/ Creates(t)
      PROVE  TendInv'
  BY <1>0, <1>1, <1>i, <1>r, ReturnsTends
<1>3. CASE ReturnSame(w, c, t)
  <2> DEFINE r == SameResult(ctx, c)
  <2>1. Good(ctx, counter, r)
    BY <1>1, SameGood DEF SameResult, Ordinary
  <2>2. Yields(ctx, c, r) /\ Unmasked(ctx, r) /\ (Rooted(ctx) => Rooted(r.ctx))
    BY <1>1, SameYields
  <2>3. Returns(w, c, t, r) /\ r.ctx = ctx
    BY <1>3, ResultFields DEF ReturnSame, SameResult
  <2> HIDE DEF r
  <2>4. QED
    BY <1>r, <2>1, <2>2, <2>3
<1>4. CASE ReturnNothing(w, c, t)
  <2> DEFINE r == NoResult(ctx)
  <2>1. Good(ctx, counter, r)
    BY <1>1, SameGood DEF NoResult, Ordinary
  <2>2. Yields(ctx, c, r) /\ Unmasked(ctx, r) /\ (Rooted(ctx) => Rooted(r.ctx))
    BY <1>1, SameYields
  <2>3. Returns(w, c, t, r) /\ r.ctx = ctx
    BY <1>4, ResultFields DEF ReturnNothing, NoResult
  <2> HIDE DEF r
  <2>4. QED
    BY <1>r, <2>1, <2>2, <2>3
<1>5. CASE ReturnNew(w, c, t)
  <2> DEFINE r == NewResult(ctx)
  <2>1. Good(ctx, counter, r)
    BY <1>1, NewGood DEF Ordinary
  <2>2. Yields(ctx, c, r) /\ Unmasked(ctx, r) /\ (Rooted(ctx) => Rooted(r.ctx))
    BY <1>1, NewYields
  <2>3. Returns(w, c, t, r) /\ Creates(t)
    BY <1>5 DEF ReturnNew, Ends, Creates
  <2> HIDE DEF r
  <2>4. QED
    BY <1>r, <2>1, <2>2, <2>3
<1>6. CASE ReturnBoth(w, c, t)
  <2> DEFINE r == ForkResult(ctx, c)
  <2>1. Good(ctx, counter, r)
    BY <1>1, NewGood DEF Ordinary
  <2>2. Yields(ctx, c, r) /\ Unmasked(ctx, r) /\ (Rooted(ctx) => Rooted(r.ctx))
    BY <1>1, NewYields
  <2>3. Returns(w, c, t, r) /\ Creates(t)
    BY <1>6 DEF ReturnBoth, Ends, Creates
  <2> HIDE DEF r
  <2>4. QED
    BY <1>r, <2>1, <2>2, <2>3
<1>7. CASE ReturnChildren(w, c, t)
  <2> DEFINE r == ChildrenResult(ctx, c, 2)
  <2>1. Good(ctx, counter, r)
    BY <1>1, ChildrenGood DEF Ordinary
  <2>2. Yields(ctx, c, r) /\ Unmasked(ctx, r)
    BY <1>1, ChildrenYields
  <2>3. Returns(w, c, t, r) /\ ~NoChildren
    BY <1>1, <1>7 DEF ReturnChildren, Ends, NoChildren
  <2> HIDE DEF r
  <2>4. QED
    BY <1>r, <2>1, <2>2, <2>3
<1>8. CASE ReturnFrozen(w, c, t)
  <2> DEFINE r == FrozenResult(ctx, c)
  <2>1. Good(ctx, counter, r)
    BY <1>1, FrozenSame, SameGood DEF FrozenResult, Ordinary
  <2>2. Yields(ctx, c, r) /\ Unmasked(ctx, r) /\ (Rooted(ctx) => Rooted(r.ctx))
    BY <1>1, FrozenYields
  <2>3. Returns(w, c, t, r) /\ DOMAIN r.ctx = DOMAIN ctx
    BY <1>8, ResultFields DEF ReturnFrozen, FrozenResult
  <2> HIDE DEF r
  <2>4. QED
    BY <1>r, <2>1, <2>2, <2>3
<1>9. CASE Route(w, c, t)
  <2>1. PICK R : Routes(w, c, t, RouteResult(ctx, c, t, R))
    BY <1>9 DEF Route
  <2> DEFINE r == RouteResult(ctx, c, t, R)
  <2>2. Good(ctx, counter, r) /\ r.delta = 0 /\ r.out = <<c>>
    BY <1>1, CompleteAllSame, SameGood, ResultFields DEF RouteResult, Ordinary
  <2>3. Yields(ctx, c, r) /\ (Rooted(ctx) => Rooted(r.ctx))
    BY <1>1, RouteYields
  <2>4. Routes(w, c, t, r)
    BY <2>1 DEF r
  <2> HIDE DEF r
  <2>5. DOMAIN r.ctx \ DOMAIN ctx = {}
    <3>1. ToSet(r.out) = {c}
      BY <2>2, ShortLists
    <3>2. QED
      BY <1>1, <2>3, <3>1 DEF Yields
  <2>6. QED
    BY <1>0, <1>1, <1>i, <2>2, <2>3, <2>4, <2>5, ReturnsTends
<1>d. ASSUME NEW ds, Same(ctx, ds), NEW D, D \subseteq Counted(ctx),
             LET r == DestroyedResult(ds, D)
             IN  /\ Returns(w, c, t, r)
                 /\ Yields(ctx, c, r) /\ Unmasked(ctx, r) /\ (Rooted(ctx) => Rooted(r.ctx))
      PROVE  TendInv'
  <2> DEFINE r == DestroyedResult(ds, D)
  <2>1. Good(ctx, counter, r)
    BY <1>1, <1>d, DestroyedGood DEF Ordinary
  <2>2. r.out = <<>>
    BY ResultFields DEF DestroyedResult
  <2>3. /\ Returns(w, c, t, r)
        /\ Yields(ctx, c, r) /\ Unmasked(ctx, r) /\ (Rooted(ctx) => Rooted(r.ctx))
    BY <1>d
  <2> HIDE DEF r
  <2>4. DOMAIN r.ctx \ DOMAIN ctx = {}
    BY <2>2, <2>3, ShortLists DEF Yields
  <2>5. QED
    BY <1>r, <2>1, <2>3, <2>4
<1>10. CASE Misroute(w, c, t)
  <2> DEFINE D == Doomed(ctx, c)
  <2>1. Returns(w, c, t, DestroyedResult(ctx, D)) /\ D \subseteq Counted(ctx)
    BY <1>2, <1>10 DEF Misroute
  <2> HIDE DEF D
  <2>2. LET r == DestroyedResult(ctx, D)
        IN  Yields(ctx, c, r) /\ Unmasked(ctx, r) /\ (Rooted(ctx) => Rooted(r.ctx))
    BY <1>1, DestroyedYields
  <2>3. QED
    BY <1>1, <1>d, <2>1, <2>2
<1>11. CASE LoopYield(w, c, t)
  <2> DEFINE r == YieldResult(ctx, c, t)
  <2>1. Good(ctx, counter, r)
    BY <1>1, YieldGood DEF Ordinary
  <2>2. Yields(ctx, c, r) /\ Unmasked(ctx, r) /\ (Rooted(ctx) => Rooted(r.ctx))
    BY <1>1, YieldYields
  <2>3. Returns(w, c, t, r) /\ Creates(t)
    BY <1>11 DEF LoopYield, Ends, Creates
  <2> HIDE DEF r
  <2>4. QED
    BY <1>r, <2>1, <2>2, <2>3
<1>12. CASE LoopExhausted(w, c, t)
  <2> DEFINE D == IF ctx[c].kind = "loop" THEN Doomed(ctx, c) ELSE {}
  <2>1. Returns(w, c, t, DestroyedResult(ctx, D)) /\ D \subseteq Counted(ctx)
    BY <1>2, <1>12 DEF LoopExhausted, ExhaustedResult
  <2> HIDE DEF D
  <2>2. LET r == DestroyedResult(ctx, D)
        IN  Yields(ctx, c, r) /\ Unmasked(ctx, r) /\ (Rooted(ctx) => Rooted(r.ctx))
    BY <1>1, DestroyedYields
  <2>3. QED
    BY <1>1, <1>d, <2>1, <2>2
<1>13. CASE RaiseRetry(w, c, t)
  <2>1. PICK n, A : Handles(w, c, t, async_put_task(
                      [State EXCEPT !.ctx[c].retry[t] = n, !.ctx[c].asleep = A], c, t, FIFO_HIGH),
                      <<>>)
    BY <1>13 DEF RaiseRetry
  <2> DEFINE ds == Retrying(ctx, c, t, n, A)
             r == [State EXCEPT !.ctx[c].retry[t] = n, !.ctx[c].asleep = A]
             s == async_put_task(r, c, t, FIFO_HIGH)
  <2>2. Same(ctx, ds) /\ DOMAIN ds = DOMAIN ctx /\ Turns(ctx, ds, {}, {})
        /\ (Rooted(ctx) => Rooted(ds))
    <3>1. Same(ctx, ds)
      BY <1>1, RetrySame DEF Retrying
    <3>2. DOMAIN ds = DOMAIN ctx /\ Turns(ctx, ds, {}, {}) /\ (Rooted(ctx) => Rooted(ds))
      BY <1>1, RetryTurns
    <3>3. QED
      BY <3>1, <3>2
  <2>3. r = [State EXCEPT !.ctx = ds]
    BY StateWhole DEF State, TendInv, Retrying
  <2> HIDE DEF ds
  <2>4. Whole(r) /\ r.ctx = ds /\ r.queue = queue
    <3> HIDE DEF r
    <3>1. r = [ctx |-> ds, counter |-> counter, queue |-> queue]
      BY <2>3, StateWhole, StateFields DEF Whole, TendInv
    <3>2. r.ctx = ds /\ r.counter = counter /\ r.queue = queue
      BY <3>1
    <3>3. Shape(ds) /\ Tally(ds, counter) /\ queue \in LanesOf(Pairs(ds))
      BY <1>1, <2>2, SameTally, SameGrows, StillContexts DEF TendInv, TaskInv, HoldsTasks
    <3>4. QED
      BY <3>1, <3>2, <3>3 DEF Whole
  <2>5. Handles(w, c, t, s, <<>>) /\ UNCHANGED <<item, ran>>
    BY <1>13, <2>1 DEF RaiseRetry
  <2> HIDE DEF r
  <2>6. <<c, t>> \in Pairs(r.ctx)
    BY <1>1, <2>2, <2>4, SameGrows, StillContexts
  <2>7. Whole(s) /\ s.ctx = ds /\ Queued(s.queue) = Queued(queue) \cup {<<c, t>>}
    BY <2>4, <2>6, AgainWhole, AgainQueued
  <2> HIDE DEF s
  <2>8. QED
    BY <1>0, <1>1, <1>i, <2>2, <2>5, <2>7, AgainTends
<1>14. CASE RaiseError(w, c, t)
  <2>1. PICK n : Returns(w, c, t, DestroyedResult([ctx EXCEPT ![c].retry[t] = n], Doomed(ctx, c)))
    BY <1>14 DEF RaiseError
  <2> DEFINE D == Doomed(ctx, c)
             ds == [ctx EXCEPT ![c].retry[t] = n]
  <2>2. LET r == DestroyedResult([ctx EXCEPT ![c].retry[t] = n], D)
        IN  Yields(ctx, c, r) /\ Unmasked(ctx, r) /\ (Rooted(ctx) => Rooted(r.ctx))
    <3> HIDE DEF D
    <3>1. QED
      BY <1>1, FailedYields
  <2>3. Same(ctx, ds) /\ D \subseteq Counted(ctx)
    BY <1>1, <1>2, RetrySame
  <2>4. LET r == DestroyedResult(ds, D)
        IN  /\ Returns(w, c, t, r)
            /\ Yields(ctx, c, r) /\ Unmasked(ctx, r) /\ (Rooted(ctx) => Rooted(r.ctx))
    BY <2>1, <2>2
  <2> HIDE DEF D, ds
  <2>5. QED
    BY <1>d, <2>3, <2>4
<1>15. CASE RunSink(w, c, t)
  <2> DEFINE r == SinkResult(ctx, c)
  <2>1. Good(ctx, counter, r)
    BY <1>1, SinkGood
  <2>2. /\ Yields(ctx, c, r) /\ Unmasked(ctx, r) /\ (Rooted(ctx) => Rooted(r.ctx))
        /\ \A x \in DOMAIN r.ctx \ DOMAIN ctx : r.ctx[x].kind = "output"
    BY <1>1, SinkYields
  <2>3. Returns(w, c, t, r)
    BY <1>15 DEF RunSink
  <2> HIDE DEF r
  <2>4. QED
    BY <1>r, <2>1, <2>2, <2>3
<1>16. CASE RateLimited(w, c, t)
  <2>1. Handles(w, c, t, State, <<c>>) /\ UNCHANGED <<item, ran>>
    BY <1>16 DEF RateLimited
  <2>2. Whole(State) /\ State.ctx = ctx /\ State.queue = queue
    BY StateWhole DEF TendInv
  <2>3. Turns(ctx, ctx, {}, {})
    BY StillTurns
  <2>4. QED
    BY <1>0, <1>1, <1>i, <2>1, <2>2, <2>3, AgainTends
<1>17. QED
  BY <1>3, <1>4, <1>5, <1>6, <1>7, <1>8, <1>9, <1>10, <1>11, <1>12, <1>13, <1>14, <1>15, <1>16
     DEF Executes, Throttled, c, t

(* Nothing is completed, and what was queued or in a worker's hands still  *)
(* is, unless its context is destroyed.                                    *)
LEMMA StillTends ==
  ASSUME TendInv, TaskInv', DOMAIN ctx' = DOMAIN ctx, Turns(ctx, ctx', {}, {}),
         Rooted(ctx) => Rooted(ctx'), UNCHANGED <<config, ran>>,
         \A i \in Queued(queue) \cup InHand :
           i \in Queued(queue') \cup InHand' \/ ctx'[i[1]].destory
  PROVE  TendInv'
<1>1. NoChildren => Rooted(ctx')
  BY DEF TendInv
<1>2. \A x \in DOMAIN ctx : Later(ctx[x], ctx'[x])
  BY DEF Turns, Grows
<1>3. NoChildren => \A x \in DOMAIN ctx : /\ ctx'[x].completed = ctx[x].completed
                                          /\ ctx'[x].available = ctx[x].available
  BY <1>1 DEF Turns
<1>4. ASSUME NoChildren, Attended PROVE Attended'
  <2>1. ASSUME NEW x \in Alive'
        PROVE  /\ ctx'[x].available # {}
               /\ \A u \in ctx'[x].available : <<x, u>> \in Queued(queue') \cup InHand'
    <3>1. x \in Alive /\ ~ctx'[x].destory /\ ctx'[x].available = ctx[x].available
      BY <1>2, <1>3, <1>4, <2>1 DEF Alive, Counted, Live, Later
    <3>2. /\ ctx[x].available # {}
          /\ \A u \in ctx[x].available : <<x, u>> \in Queued(queue) \cup InHand
      BY <1>4, <3>1 DEF Attended
    <3>3. ASSUME NEW u \in ctx[x].available PROVE <<x, u>> \in Queued(queue') \cup InHand'
      <4> DEFINE i == <<x, u>>
      <4>1. i[1] = x /\ i \in Queued(queue) \cup InHand
        BY <3>2, <3>3
      <4> HIDE DEF i
      <4>2. i \in Queued(queue') \cup InHand'
        BY <3>1, <4>1
      <4>3. QED
        BY <4>2 DEF i
    <3>4. QED
      BY <3>1, <3>2, <3>3
  <2>2. QED
    BY <2>1 DEF Attended
<1>5. ASSUME NoChildren, Credited PROVE Credited'
  BY <1>2, <1>3, <1>5 DEF Credited, Later
<1>6. /\ NoChildren' = NoChildren /\ NoMasks' = NoMasks /\ Releases' = Releases
      /\ config' = config
  BY DEF NoChildren, NoMasks, Releases, Creates
<1>7. QED
  BY <1>1, <1>4, <1>5, <1>6 DEF TendInv

(* Contexts that are alike turn into each other. *)
LEMMA AlikeTurns ==
  ASSUME NEW cs, NEW ds, DOMAIN ds = DOMAIN cs,
         \A x \in DOMAIN cs : Alike(cs[x], ds[x]) /\ Later(cs[x], ds[x])
  PROVE  Turns(cs, ds, {}, {}) /\ (Rooted(cs) => Rooted(ds))
BY DEF Turns, Grows, Alike, AllSeparated, Separated, Rooted

(* A worker gets the first pair, or does no more than change its label. *)
LEMMA GetTends ==
  ASSUME TendInv, TaskInv', NEW w \in Worker, NEW l, pc[w] \in AtTask => l \in AtTask /\ item' = item,
         pc' = [pc EXCEPT ![w] = l], UNCHANGED <<config, ran>>,
         DOMAIN ctx' = DOMAIN ctx,
         \A x \in DOMAIN ctx : Alike(ctx[x], ctx'[x]) /\ Later(ctx[x], ctx'[x]),
         \/ UNCHANGED <<queue, item>>
         \/ \E i \in Pairs(ctx) :
              /\ item' = [item EXCEPT ![w] = i] /\ Queued(queue) \subseteq Queued(queue') \cup {i}
              /\ l = "running" \/ ctx'[i[1]].destory
  PROVE  TendInv'
<1>1. DOMAIN pc = Worker /\ DOMAIN item = Worker
  BY DEF TendInv, TaskInv, HoldsTasks
<1>2. \A v \in Worker \ {w} : pc'[v] = pc[v] /\ item'[v] = item[v]
  BY <1>1
<1>3. InHand \subseteq InHand'
  BY <1>2 DEF InHand
<1>4. \A i \in Queued(queue) : i \in Queued(queue') \cup InHand' \/ ctx'[i[1]].destory
  <2>1. ASSUME NEW i \in Pairs(ctx), item' = [item EXCEPT ![w] = i], l = "running"
        PROVE  i \in InHand'
    BY <1>1, <2>1 DEF InHand, AtTask
  <2>2. QED
    BY <2>1
<1>5. Turns(ctx, ctx', {}, {}) /\ (Rooted(ctx) => Rooted(ctx'))
  <2> DEFINE cs == ctx
             ds == ctx'
  <2>1. DOMAIN ds = DOMAIN cs /\ \A x \in DOMAIN cs : Alike(cs[x], ds[x]) /\ Later(cs[x], ds[x])
    OBVIOUS
  <2> HIDE DEF cs, ds
  <2>2. Turns(cs, ds, {}, {}) /\ (Rooted(cs) => Rooted(ds))
    BY <2>1, AlikeTurns
  <2>3. QED
    BY <2>2 DEF cs, ds
<1>6. QED
  BY <1>3, <1>4, <1>5, StillTends

(* check_get_task. *)
LEMMA FetchTends ==
  ASSUME TendInv, TaskInv', NEW w \in Worker, Fetches(w)
  PROVE  TendInv'
<1> DEFINE c == First(queue)[1]
           t == First(queue)[2]
<1>0. /\ LoopFree(w) /\ ~IsEmpty(queue) /\ pc[w] \notin AtTask /\ UNCHANGED config
      /\ TaskInv /\ Shape(ctx)
  BY DEF Fetches, AtGet, LoopFree, TendInv, TaskInv, AtTask
<1>1. /\ First(queue) \in Pairs(ctx) /\ Whole(Popped)
      /\ Popped.ctx = ctx /\ Popped.queue = Pop(queue)
  BY <1>0, PopKeeps
<1>2. First(queue) = <<c, t>> /\ <<c, t>> \in Pairs(ctx) /\ c \in Ids(ctx)
  BY <1>1 DEF Pairs
<1>3. Queued(queue) = Queued(Pop(queue)) \cup {<<c, t>>}
  <2>1. queue \in LanesOf(Pairs(ctx))
    BY <1>0 DEF TaskInv, HoldsTasks
  <2>2. QED
    BY <1>0, <1>2, <2>1, PopQueued
<1> HIDE DEF c, t
<1>4. ASSUME SkipDestroyed(w, c, t) \/ GetTask(w, c, t) PROVE TendInv'
  <2>1. PICK l : /\ pc' = [pc EXCEPT ![w] = l] /\ item' = [item EXCEPT ![w] = <<c, t>>]
                 /\ l = "running" \/ ctx[c].destory
    BY <1>4 DEF SkipDestroyed, GetTask, Gets
  <2>2. ctx' = ctx /\ queue' = Pop(queue) /\ ran' = ran
    BY <1>1, <1>4 DEF SkipDestroyed, GetTask, Gets, Becomes
  <2>3. \A x \in DOMAIN ctx : Alike(ctx[x], ctx'[x]) /\ Later(ctx[x], ctx'[x])
    BY <2>2 DEF Alike, Later
  <2>4. \E i \in Pairs(ctx) :
          /\ item' = [item EXCEPT ![w] = i] /\ Queued(queue) \subseteq Queued(queue') \cup {i}
          /\ l = "running" \/ ctx'[i[1]].destory
    BY <1>2, <1>3, <2>1, <2>2
  <2>5. QED
    BY <1>0, <2>1, <2>2, <2>3, <2>4, GetTends
<1>5. CASE DestroyStalled(w, c, t)
  <2> DEFINE r == DestoryContext(Popped, c)
  <2>1. Sound(ctx, Popped) /\ c \in Ids(Popped.ctx)
    BY <1>1, <1>2, GrowsRefl DEF Sound
  <2>2. Tame(Popped, r) /\ r.ctx[c].destory /\ r.queue = Popped.queue
    BY <2>1, DestoryTame
  <2>3. /\ pc' = [pc EXCEPT ![w] = "poll"] /\ item' = [item EXCEPT ![w] = <<c, t>>]
        /\ ctx' = r.ctx /\ queue' = r.queue /\ ran' = ran
    BY <1>5 DEF DestroyStalled, Gets, Becomes
  <2> HIDE DEF r
  <2>4. /\ DOMAIN ctx' = DOMAIN ctx /\ ctx'[c].destory /\ queue' = Pop(queue)
        /\ \A x \in DOMAIN ctx : Alike(ctx[x], ctx'[x]) /\ Later(ctx[x], ctx'[x])
    BY <1>1, <2>2, <2>3 DEF Tame
  <2>5. \E i \in Pairs(ctx) :
          /\ item' = [item EXCEPT ![w] = i] /\ Queued(queue) \subseteq Queued(queue') \cup {i}
          /\ "poll" = "running" \/ ctx'[i[1]].destory
    BY <1>2, <1>3, <2>3, <2>4
  <2>6. QED
    BY <1>0, <2>3, <2>4, <2>5, GetTends
<1>6. CASE NotAwake(w, c, t)
  <2> DEFINE s == async_put_task(Popped, c, t, FIFO_HIGH)
  <2>1. Whole(s) /\ s.ctx = ctx
    BY <1>1, <1>2, AgainWhole
  <2>2. Queued(s.queue) = Queued(queue)
    BY <1>1, <1>2, <1>3, AgainQueued
  <2>3. Handles(w, c, t, s, <<>>) /\ UNCHANGED <<item, ran>>
    BY <1>6 DEF NotAwake
  <2> HIDE DEF s
  <2>4. Turns(ctx, s.ctx, {}, {})
    BY <2>1, StillTurns
  <2>5. QED
    BY <1>0, <1>2, <2>1, <2>2, <2>3, <2>4, AgainTends
<1>7. QED
  BY <1>4, <1>5, <1>6 DEF Fetches, c, t

(* What run() gives the tasks. *)
LEMMA InputTask ==
  LET r == Complete(Context("plain", 0), in_task)
  IN  /\ r.completed = {in_task} /\ ~r.freezing
      /\ Releases => r.available # {}
<1> DEFINE s == Context("plain", 0)
<1>1. /\ DOMAIN s = Field /\ s.completed = {} /\ ~s.skip /\ ~s.freezing /\ in_task \in Node
  BY GraphAssumption DEF Context, Field
<1> HIDE DEF s
<1>2. Complete(s, in_task) = [s EXCEPT !.completed = {} \cup {in_task},
                               !.available = (@ \ {in_task}) \cup Released({} \cup {in_task}, in_task)]
  BY <1>1 DEF Complete
<1>3. Complete(s, in_task).completed = {in_task} /\ ~Complete(s, in_task).freezing
  BY <1>1, <1>2 DEF Field
<1>4. ASSUME Releases PROVE Complete(s, in_task).available # {}
  <2>1. PICK d \in Node \ {in_task} : upstream_tasks[d] = {in_task}
    BY <1>1, <1>4 DEF Releases
  <2>2. d \in Complete(s, in_task).available
    BY <1>1, <2>1, CompleteReleases
  <2>3. QED
    BY <2>2
<1>5. QED
  BY <1>3, <1>4 DEF s

(* run() starts with the input contexts queued. *)
LEMMA TendStarts == Init => TendInv
<1> SUFFICES ASSUME Init PROVE TendInv
  OBVIOUS
<1> DEFINE r == Complete(Context("plain", 0), in_task)
<1>1. \A c \in DOMAIN ctx : Alike(r, ctx[c]) /\ Tended(State, 0, c)
  BY InputsQueued
<1>2. r.parent = 0 /\ r.completed = {in_task} /\ ~r.freezing /\ (Releases => r.available # {})
  BY InputContext, InputTask
<1> HIDE DEF r
<1>3. DOMAIN ran = DOMAIN ctx /\ \A c \in DOMAIN ctx : ran[c] = {in_task}
  BY DEF Init
<1>4. Rooted(ctx)
  BY <1>1, <1>2 DEF Rooted, Alike
<1>5. ASSUME Releases, NEW c \in Alive
      PROVE  /\ ctx[c].available # {}
             /\ \A t \in ctx[c].available : <<c, t>> \in Queued(queue) \cup InHand
  <2>1. c \in DOMAIN ctx /\ ~ctx[c].destory /\ ctx[c].kind # "output"
    BY DEF Alive, Counted, Live
  <2>2. ctx[c].available # {} /\ ~ctx[c].freezing /\ Tended(State, 0, c)
    BY <1>1, <1>2, <1>5, <2>1 DEF Alike
  <2>3. QED
    BY <2>1, <2>2 DEF Tended, State
<1>6. Releases => Attended
  BY <1>5 DEF Attended
<1>7. Credited
  BY <1>1, <1>2, <1>3 DEF Credited, Alike
<1>8. QED
  BY <1>3, <1>4, <1>6, <1>7, TaskStarts DEF TendInv

(* The clock reaches an entry of awake_time. *)
LEMMA AwakeTends ==
  ASSUME TendInv, TaskInv', NEW c \in DOMAIN ctx, NEW t, AwakeTimePasses(c, t)
  PROVE  TendInv'
<1>1. PICK A : ctx' = [ctx EXCEPT ![c].asleep = A]
  BY DEF AwakeTimePasses
<1>2. UNCHANGED <<config, queue, pc, item, ran>>
  BY DEF AwakeTimePasses
<1>3. DOMAIN ctx' = DOMAIN ctx /\ Turns(ctx, ctx', {}, {}) /\ (Rooted(ctx) => Rooted(ctx'))
  <2> DEFINE cs == ctx
             ds == Waiting(cs, c, A)
  <2>1. ctx' = ds
    BY <1>1 DEF Waiting
  <2>2. Shape(cs) /\ c \in DOMAIN cs
    BY DEF TendInv, TaskInv
  <2> HIDE DEF cs
  <2>3. DOMAIN ds = DOMAIN cs /\ Turns(cs, ds, {}, {}) /\ (Rooted(cs) => Rooted(ds))
    BY <2>2, RetryTurns
  <2> HIDE DEF ds
  <2>4. QED
    BY <2>1, <2>3 DEF cs
<1>4. InHand' = InHand
  BY <1>2 DEF InHand
<1>5. QED
  BY <1>2, <1>3, <1>4, StillTends

(* Every step keeps the invariant. *)
LEMMA TendSteps == TendInv /\ [Next]_vars => TendInv'
<1> SUFFICES ASSUME TendInv, [Next]_vars PROVE TendInv'
  OBVIOUS
<1>0. TaskInv' /\ TaskInv
  BY TaskSteps DEF TendInv
<1>1. CASE UNCHANGED vars
  <2>1. UNCHANGED <<config, ctx, queue, pc, item, ran>>
    BY <1>1 DEF vars
  <2>2. InHand' = InHand
    BY <2>1 DEF InHand
  <2>3. Turns(ctx, ctx', {}, {})
    BY <2>1, StillTurns
  <2>4. QED
    BY <1>0, <2>1, <2>2, <2>3, StillTends
<1>2. ASSUME NEW w \in Worker, Polls(w) \/ TimesOut(w) PROVE TendInv'
  <2>1. PICK l : pc' = [pc EXCEPT ![w] = l]
    BY <1>2 DEF Polls, TimesOut, Stop, Wait, Timeout
  <2>2. UNCHANGED <<config, ctx, queue, item, ran>> /\ pc[w] \notin AtTask
    BY <1>2 DEF Polls, TimesOut, LoopFree, Stop, Wait, Timeout, AtTask
  <2>3. \A x \in DOMAIN ctx : Alike(ctx[x], ctx'[x]) /\ Later(ctx[x], ctx'[x])
    BY <2>2 DEF Alike, Later
  <2>4. QED
    BY <1>0, <2>1, <2>2, <2>3, GetTends
<1>s. ASSUME NEW w \in Worker, Suspends(w) PROVE TendInv'
  <2>1. /\ pc' = [pc EXCEPT ![w] = "copying"]
        /\ UNCHANGED <<config, ctx, queue, item, ran>>
    BY <1>s DEF Suspends, SinkWaits, LoopFree
  <2>2. \A x \in DOMAIN ctx : Alike(ctx[x], ctx'[x]) /\ Later(ctx[x], ctx'[x])
    BY <2>1 DEF Alike, Later
  <2>3. QED
    BY <1>0, <2>1, <2>2, GetTends DEF AtTask
<1>3. ASSUME NEW w \in Worker, Fetches(w) \/ Executes(w) \/ Throttled(w) PROVE TendInv'
  BY <1>0, <1>3, FetchTends, EndTends
<1>4. ASSUME NEW c \in DOMAIN ctx, NEW t, AwakeTimePasses(c, t) PROVE TendInv'
  BY <1>0, <1>4, AwakeTends
<1>5. QED
  BY <1>1, <1>2, <1>s, <1>3, <1>4 DEF Next

(* The invariant holds in every state of a run. *)
LEMMA TendInvariant == Spec => []TendInv
BY TendStarts, TendSteps, PTL DEF Spec

-----------------------------------------------------------------------------
(* Runtime.counter is the number of contexts alive, and every child_num    *)
(* the number of children alive, in any run of the task executor, although *)
(* a context may be destroyed while other workers run tasks of it.         *)
THEOREM TaskCounterIsExact == Spec => []CounterCountsLive
<1>1. TaskInv => CounterCountsLive
  BY DEF TaskInv, Tally, CounterCountsLive, Alive, Children
<1>2. QED
  BY <1>1, TaskInvariant, PTL

(* While no task waits with the data of its context locked, no context     *)
(* gives two OutputContexts, however often its sink is queued: the sink    *)
(* destroys the context before another worker can get it.                  *)
THEOREM OneOutputPerContext == Spec => []OneOutputEach
<1>1. TaskInv => OneOutputEach
  BY DEF TaskInv, Sourced, OneOutputEach, Unheld
<1>2. QED
  BY <1>1, TaskInvariant, PTL

(* Every upstream task of a task in a worker's hands is completed on the   *)
(* context it runs for, unless that is a LoopContext.                      *)
UpstreamCompleted ==
  \A i \in InHand : ctx[i[1]].kind # "loop" => upstream_tasks[i[2]] \subseteq ctx[i[1]].completed

(* The task executor runs a task's code for a context only after all its   *)
(* upstream tasks completed there, although the pair waited in the queue   *)
(* while other workers changed the context.                                *)
THEOREM TaskUpstreamFirst == Spec => []UpstreamCompleted
<1>1. TaskInv => UpstreamCompleted
  BY DEF TaskInv, HoldsTasks, UpstreamCompleted, InHand, Pairs
<1>2. QED
  BY <1>1, TaskInvariant, PTL

(* With context GC, while no task creates children, every task in_task and *)
(* the creating tasks release exists, and bypass masks no created context, *)
(* every available task of a live context is queued or in a worker's       *)
(* hands: no step of any worker drops a task that run() waits for.         *)
THEOREM NoTaskForgotten == Spec => [](NoChildren /\ NoMasks /\ Releases => NothingForgotten)
<1>1. TendInv => (NoChildren /\ NoMasks /\ Releases => NothingForgotten)
  BY DEF TendInv, Attended, NothingForgotten
<1>2. QED
  BY <1>1, TendInvariant, PTL

(* "Task scheduling based on dependencies": while no task creates children *)
(* and bypass masks no created context, the code of a task runs only once  *)
(* all its upstream tasks ran for its context or the one that was made     *)
(* from, or a router masked them, although a pair waits in the queue while *)
(* other workers run other tasks of the same context.                      *)
THEOREM DependenciesFirst == Spec => [](NoChildren /\ NoMasks => DependenciesRan)
<1>1. ASSUME TendInv, NoChildren, NoMasks PROVE DependenciesRan
  <2>1. ASSUME NEW i \in InHand, ctx[i[1]].kind # "loop"
        PROVE  upstream_tasks[i[2]] \subseteq ran[i[1]]
    <3>1. i \in Pairs(ctx) /\ Shape(ctx)
      BY <1>1 DEF InHand, TendInv, TaskInv, HoldsTasks
    <3>2. /\ i[1] \in DOMAIN ctx /\ ctx[i[1]].kind = "plain"
          /\ upstream_tasks[i[2]] \subseteq ctx[i[1]].completed
      BY <2>1, <3>1 DEF Pairs, Ids, Shape, Kinds
    <3>3. QED
      BY <1>1, <3>2 DEF TendInv, Credited
  <2>2. QED
    BY <2>1 DEF DependenciesRan
<1>2. TendInv => (NoChildren /\ NoMasks => DependenciesRan)
  BY <1>1
<1>3. QED
  BY <1>2, TendInvariant, PTL
=============================================================================
