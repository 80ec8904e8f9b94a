--------------------------- MODULE ContextsProofs ---------------------------
(***************************************************************************)
(* What the operators of Contexts and ContextLanes preserve, for any graph *)
(* and any number of contexts; both executors' proofs rest on it.          *)
(***************************************************************************)
EXTENDS Contexts, ContextLanes, FiniteSetTheorems, SequenceTheorems, WellFoundedInduction,
        TLAPS

-----------------------------------------------------------------------------
(* Numbers, sets and folds. *)

(* Every set of natural numbers that is not empty has a least element. *)
LEMMA Least ==
  ASSUME NEW T, T \subseteq Nat, T # {}
  PROVE  \E x \in T : \A y \in T : x <= y
<1>1. PICK n \in T : TRUE
  OBVIOUS
<1> DEFINE F == {0 .. k : k \in {i \in T : i <= n}}
<1>2. IsFiniteSet(0 .. n)
  BY <1>1, FS_Interval
<1>3. IsWellFoundedOn(StrictSubsetOrdering(0 .. n), SUBSET (0 .. n))
  BY <1>2, FS_StrictSubsetOrderingWellFounded, FS_FiniteSubsetsOfFinite
<1>4. F \subseteq SUBSET (0 .. n) /\ F # {}
  BY <1>1
<1>5. PICK X \in F : \A Y \in F : <<Y, X>> \notin StrictSubsetOrdering(0 .. n)
  BY <1>3, <1>4, WFMin
<1>6. PICK x \in T : x <= n /\ X = 0 .. x
  BY <1>5
<1>7. ASSUME NEW y \in T PROVE x <= y
  <2> SUFFICES ASSUME y < x PROVE FALSE
    BY <1>1, <1>6
  <2>1. 0 .. y \in F
    BY <1>6, <1>1
  <2>2. (0 .. y) \subseteq (0 .. x) /\ 0 .. y # 0 .. x
    BY <1>6
  <2> QED BY <2>1, <2>2, <1>5, <1>6, <1>4 DEF StrictSubsetOrdering
<1> QED BY <1>7

(* Induction on the natural numbers, with a set for the property. *)
LEMMA Reaches ==
  ASSUME NEW S, 0 \in S, \A n \in Nat : n \in S => n + 1 \in S
  PROVE  Nat \subseteq S
<1> SUFFICES ASSUME Nat \ S # {} PROVE FALSE
  OBVIOUS
<1>1. PICK x \in Nat \ S : \A y \in Nat \ S : x <= y
  BY Least
<1>2. x # 0 /\ x - 1 \in Nat /\ x - 1 \in S
  BY <1>1
<1>3. QED
  BY <1>1, <1>2

(* The size of a union of disjoint sets. *)
LEMMA DisjointUnion ==
  ASSUME NEW S, NEW T, IsFiniteSet(S), IsFiniteSet(T), S \cap T = {}
  PROVE  Cardinality(S \cup T) = Cardinality(S) + Cardinality(T)
<1>1. Cardinality(S \cap T) = 0
  BY FS_EmptySet
<1>2. Cardinality(S) \in Nat /\ Cardinality(T) \in Nat
  BY FS_CardinalityType
<1>3. Cardinality(S \cup T) = Cardinality(S) + Cardinality(T) - Cardinality(S \cap T)
  BY FS_Union
<1>4. QED
  BY <1>1, <1>2, <1>3

(* What the folds over sets recur on. *)
LEMMA Smaller ==
  ASSUME NEW S, IsFiniteSet(S), NEW s \in SUBSET S
  PROVE  /\ Cardinality(s) \in Nat /\ Cardinality(s) <= Cardinality(S)
         /\ Cardinality(s) <= 0 => s = {}
         /\ \A x \in s : /\ s \ {x} \in SUBSET S
                        /\ Cardinality(s) # 0 /\ Cardinality(s \ {x}) = Cardinality(s) - 1
<1>1. IsFiniteSet(s) /\ Cardinality(s) \in Nat /\ Cardinality(s) <= Cardinality(S)
  BY FS_Subset, FS_CardinalityType
<1>2. Cardinality(s) <= 0 <=> s = {}
  BY <1>1, FS_EmptySet
<1>3. ASSUME NEW x \in s PROVE Cardinality(s \ {x}) = Cardinality(s) - 1
  BY <1>1, FS_RemoveElement
<1>4. QED
  BY <1>1, <1>2, <1>3

(* The index FoldLeft recurs on is one of the indices. *)
LEMMA MaxOf ==
  ASSUME NEW n \in Nat, NEW s \in SUBSET (1 .. n), s # {}
  PROVE  Max(s) \in s
<1> DEFINE T == {n - x : x \in s}
<1>1. T \subseteq Nat /\ T # {}
  <2>1. \A x \in s : n - x \in Nat
    OBVIOUS
  <2>2. QED
    BY <2>1
<1>2. PICK y \in T : \A z \in T : y <= z
  BY <1>1, Least
<1>3. PICK x \in s : y = n - x
  BY <1>2
<1>4. \A z \in s : x >= z
  <2> SUFFICES ASSUME NEW z \in s PROVE x >= z
    OBVIOUS
  <2>1. n - x <= n - z
    BY <1>2, <1>3
  <2>2. x \in Nat /\ z \in Nat
    OBVIOUS
  <2>3. QED
    BY <2>1, <2>2
<1>5. QED
  BY <1>4 DEF Max

(* All orders of a finite set. *)
LEMMA OrderedSet ==
  ASSUME NEW S, IsFiniteSet(S), NEW out \in SetToSeqs(S)
  PROVE  ToSet(out) = S /\ IsInjective(out)
<1> DEFINE n == Cardinality(S)
<1>1. n \in Nat
  BY FS_CardinalityType
<1>2. out \in [1 .. n -> S] /\ \A i, j \in 1 .. n : i # j => out[i] # out[j]
  BY DEF SetToSeqs
<1> DEFINE I == 1 .. n
<1>3. IsFiniteSet(I) /\ Cardinality(I) = n
  BY <1>1, FS_Interval
<1>4. IsInjective(out)
  BY <1>2 DEF IsInjective
<1>5. ASSUME NEW x \in S PROVE \E i \in I : out[i] = x
  <2> SUFFICES ASSUME \A i \in I : out[i] # x PROVE FALSE
    OBVIOUS
  <2> DEFINE T == S \ {x}
  <2>1. IsFiniteSet(T) /\ Cardinality(T) = n - 1
    BY FS_RemoveElement
  <2>2. out \in [I -> T]
    BY <1>2
  <2>3. Cardinality(T) < Cardinality(I)
    BY <1>1, <1>3, <2>1
  <2> HIDE DEF I, T
  <2>4. \E a, b \in I : a # b /\ out[a] = out[b]
    BY <1>3, <2>1, <2>2, <2>3, FS_PigeonHole
  <2>5. QED
    BY <1>2, <2>4 DEF I
<1> HIDE DEF n
<1>6. ToSet(out) = S
  BY <1>2, <1>5 DEF ToSet
<1>7. QED
  BY <1>4, <1>6

-----------------------------------------------------------------------------
(* The runtime counter.  Shape is what every sequence of contexts looks    *)
(* like, Tally what CounterCountsLive says of it.                          *)

Kinds == {"plain", "loop", "output"}
Field == {"completed", "available", "skip", "kind", "parent", "child_num", "destory",
          "freezing", "retry", "asleep", "source"}

(* Only ready tasks are available; a LoopContext has its loop task from    *)
(* the start.                                                              *)
Prepared(r) ==
  /\ r.available \subseteq Node
  /\ r.kind # "loop" => \A d \in r.available : upstream_tasks[d] \subseteq r.completed

(* Contexts in the order of their creation: a parent is older than its     *)
(* child, only plain contexts have one, and none is an OutputContext.      *)
Shape(cs) ==
  /\ Len(cs) \in Nat /\ DOMAIN cs = 1 .. Len(cs) /\ cs = [c \in DOMAIN cs |-> cs[c]]
  /\ \A c \in DOMAIN cs :
       /\ DOMAIN cs[c] = Field
       /\ cs[c].kind \in Kinds /\ cs[c].child_num \in Int /\ cs[c].destory \in BOOLEAN
       /\ cs[c].parent \in 0 .. c - 1
       /\ cs[c].parent # 0 => cs[c].kind = "plain" /\ cs[cs[c].parent].kind # "output"
       /\ Prepared(cs[c])

(* A context keeps its kind and its source for good, stays destroyed, and  *)
(* its completed tasks stay completed.                                     *)
Later(r, s) ==
  /\ s.kind = r.kind /\ s.source = r.source /\ (r.destory => s.destory)
  /\ r.completed \subseteq s.completed

(* The context r may become s without any count being wrong. *)
Kept(r, s) ==
  /\ DOMAIN s = DOMAIN r /\ s.parent = r.parent /\ s.child_num = r.child_num
  /\ s.destory = r.destory /\ Later(r, s) /\ (Prepared(r) => Prepared(s))

(* ds is cs but for fields that no count depends on. *)
Same(cs, ds) ==
  /\ DOMAIN ds = DOMAIN cs /\ Len(ds) = Len(cs) /\ ds = [c \in DOMAIN ds |-> ds[c]]
  /\ \A c \in DOMAIN cs : Kept(cs[c], ds[c])

(* The children of c that are alive. *)
Children(cs, c) == {x \in Counted(cs) : cs[x].parent = c}

Tally(cs, n) ==
  /\ n = Cardinality(Counted(cs))
  /\ \A c \in DOMAIN cs : cs[c].child_num = Cardinality(Children(cs, c))

(* Same is transitive. *)
LEMMA SameTrans == ASSUME NEW a, NEW b, NEW c, Same(a, b), Same(b, c) PROVE Same(a, c)
<1>1. \A r, s, t : Kept(r, s) /\ Kept(s, t) => Kept(r, t)
  BY DEF Kept, Later
<1>2. QED
  BY <1>1 DEF Same

(* The contexts that may be queued and run. *)
Ids(cs) == {c \in DOMAIN cs : cs[c].kind # "output"}

Outputs(cs) == {c \in DOMAIN cs : cs[c].kind = "output"}

(* No context goes away. *)
Grows(cs, ds) == DOMAIN cs \subseteq DOMAIN ds /\ \A c \in DOMAIN cs : Later(cs[c], ds[c])

(* No OutputContext is new. *)
Quiet(cs, ds) == \A c \in DOMAIN ds : ds[c].kind = "output" => c \in DOMAIN cs

(* Lanes that hold elements of S. *)
LanesOf(S) == [ContextPriority -> Seq(S)]

(* The tasks that may be queued or run, with their contexts: every         *)
(* upstream task is completed there, but for a LoopContext.                *)
Pairs(cs) ==
  {i \in Ids(cs) \X Node :
     cs[i[1]].kind # "loop" => upstream_tasks[i[2]] \subseteq cs[i[1]].completed}

(* The runtime counts finitely many contexts. *)
LEMMA CountedFinite ==
  ASSUME NEW cs, Shape(cs)
  PROVE  IsFiniteSet(Counted(cs)) /\ Cardinality(Counted(cs)) \in Nat
<1>1. Counted(cs) \in SUBSET (1 .. Len(cs)) /\ Len(cs) \in Nat
  BY DEF Shape, Counted, Live
<1>2. IsFiniteSet(1 .. Len(cs))
  BY <1>1, FS_Interval
<1>3. QED
  BY <1>1, <1>2, FS_Subset, FS_CardinalityType

(* Contexts are numbered from 1. *)
LEMMA ShapeLen == ASSUME NEW cs, Shape(cs) PROVE Len(cs) \in Nat /\ DOMAIN cs = 1 .. Len(cs)
BY DEF Shape

(* The tally is a natural number. *)
LEMMA TallyInt == ASSUME NEW cs, Shape(cs), NEW n, Tally(cs, n) PROVE n \in Nat
BY CountedFinite DEF Tally

(* Grows is transitive. *)
LEMMA GrowsTrans == ASSUME NEW a, NEW b, NEW c, Grows(a, b), Grows(b, c) PROVE Grows(a, c)
<1>1. \A r, s, t : Later(r, s) /\ Later(s, t) => Later(r, t)
  BY DEF Later
<1>2. QED
  BY <1>1 DEF Grows

(* Same is reflexive on contexts. *)
LEMMA SameRefl == ASSUME NEW cs, Shape(cs) PROVE Same(cs, cs)
BY DEF Shape, Same, Kept, Later

(* A change of other fields loses no context. *)
LEMMA SameGrows == ASSUME NEW cs, NEW ds, Same(cs, ds) PROVE Grows(cs, ds)
BY DEF Same, Grows, Kept

(* Destroying contexts that are counted keeps the tally. *)
LEMMA DestoryTally ==
  ASSUME NEW cs, Shape(cs), NEW n, Tally(cs, n), NEW D, D \subseteq Counted(cs)
  PROVE  LET ds == Destory(cs, D)
         IN  Shape(ds) /\ Tally(ds, n - Cardinality(D)) /\ Grows(cs, ds) /\ Len(ds) = Len(cs)
<1> DEFINE ds == Destory(cs, D)
           of(c) == {y \in D : cs[y].parent = c}
<1>1. DOMAIN ds = DOMAIN cs /\ ds = [c \in DOMAIN ds |-> ds[c]] /\ Len(ds) = Len(cs)
  BY DEF Destory, Shape
<1>2. ASSUME NEW c \in DOMAIN cs
      PROVE  /\ DOMAIN ds[c] = Field /\ ds[c].kind = cs[c].kind
             /\ ds[c].parent = cs[c].parent
             /\ ds[c].destory = (cs[c].destory \/ c \in D)
             /\ ds[c].child_num = cs[c].child_num - Cardinality(of(c))
             /\ ds[c].source = cs[c].source /\ ds[c].completed = cs[c].completed
             /\ ds[c].available = cs[c].available
  BY DEF Destory, Shape, Field
<1>a. \A c \in DOMAIN cs : Later(cs[c], ds[c]) /\ Prepared(ds[c])
  <2>1. \A c \in DOMAIN cs : Prepared(cs[c])
    BY DEF Shape
  <2> HIDE DEF ds
  <2>2. QED
    BY <1>2, <2>1 DEF Later, Prepared
<1>3. IsFiniteSet(Counted(cs)) /\ Cardinality(Counted(cs)) \in Nat
  BY CountedFinite
<1>4. \A c : /\ IsFiniteSet(Children(cs, c)) /\ Cardinality(Children(cs, c)) \in Nat
             /\ IsFiniteSet(of(c)) /\ Cardinality(of(c)) \in Nat
  BY <1>3, FS_Subset, FS_CardinalityType DEF Children
<1> HIDE DEF ds
<1>5. Counted(ds) = Counted(cs) \ D
  BY <1>1, <1>2 DEF Counted, Live
<1>6. Cardinality(Counted(ds)) = n - Cardinality(D)
  <2>1. Counted(cs) \cap D = D
    OBVIOUS
  <2>2. n = Cardinality(Counted(cs))
    BY DEF Tally
  <2>3. QED
    BY <1>3, <1>5, <2>1, <2>2, FS_Difference
<1>7. ASSUME NEW c \in DOMAIN cs PROVE ds[c].child_num = Cardinality(Children(ds, c))
  <2>1. Children(ds, c) = Children(cs, c) \ of(c)
    BY <1>2, <1>5 DEF Children, Counted, Live
  <2>2. Children(cs, c) \cap of(c) = of(c)
    BY DEF Children
  <2> HIDE DEF of
  <2>3. Cardinality(Children(ds, c)) = Cardinality(Children(cs, c)) - Cardinality(of(c))
    BY <1>4, <2>1, <2>2, FS_Difference
  <2>4. QED
    BY <1>2, <2>3 DEF Tally
<1>8. Shape(ds)
  <2> HIDE DEF of
  <2>0. \A c \in DOMAIN cs : cs[c].child_num \in Int /\ Cardinality(of(c)) \in Int
    BY <1>4 DEF Shape
  <2>1. ASSUME NEW c \in DOMAIN cs PROVE ds[c].child_num \in Int /\ ds[c].destory \in BOOLEAN
    <3>1. ds[c].child_num = cs[c].child_num - Cardinality(of(c))
      BY <1>2
    <3>2. ds[c].destory = (cs[c].destory \/ c \in D)
      BY <1>2
    <3>3. ds[c].destory \in BOOLEAN
      BY <3>2
    <3>4. QED
      BY <3>1, <3>3, <2>0
  <2>2. QED
    BY <1>1, <1>2, <1>a, <2>1 DEF Shape
<1>9. QED
  BY <1>1, <1>a, <1>6, <1>7, <1>8 DEF Tally, Grows, ds

(* The context r is new, below p or a root. *)
Fresh(r, p) ==
  /\ DOMAIN r = Field /\ r.kind \in {"plain", "loop"} /\ r.parent = p
  /\ r.child_num = 0 /\ r.destory = FALSE
  /\ p # 0 => r.kind = "plain"
  /\ Prepared(r)

(* ds is cs and k new contexts below p, or roots when p is 0. *)
Extended(cs, ds, k, p) ==
  /\ Len(ds) = Len(cs) + k /\ DOMAIN ds = 1 .. Len(ds)
  /\ ds = [c \in DOMAIN ds |-> ds[c]]
  /\ \A c \in DOMAIN cs :
       /\ DOMAIN ds[c] = Field
       /\ ds[c].parent = cs[c].parent /\ ds[c].destory = cs[c].destory
       /\ ds[c].child_num = IF c = p THEN cs[c].child_num + k ELSE cs[c].child_num
       /\ Later(cs[c], ds[c]) /\ Prepared(ds[c])
  /\ \A c \in Len(cs) + 1 .. Len(ds) : Fresh(ds[c], p)

(* New contexts are counted, in the runtime counter and by their parent. *)
LEMMA NewTally ==
  ASSUME NEW cs, Shape(cs), NEW n, Tally(cs, n), NEW k \in Nat, NEW p \in {0} \cup Ids(cs),
         NEW ds, Extended(cs, ds, k, p)
  PROVE  Shape(ds) /\ Tally(ds, n + k) /\ Grows(cs, ds) /\ Quiet(cs, ds)
<1> USE DEF Extended
<1> DEFINE L == Len(cs)
           new == L + 1 .. L + k
<1>1. L \in Nat /\ DOMAIN cs = 1 .. L
  BY DEF Shape
<1>2. DOMAIN ds = DOMAIN cs \cup new /\ DOMAIN cs \cap new = {} /\ p \in 0 .. L
  BY <1>1 DEF Ids
<1>3. IsFiniteSet(new) /\ Cardinality(new) = k
  <2> DEFINE a == L + 1
             b == L + k
  <2>1. a \in Int /\ b \in Int /\ (a > b <=> k = 0) /\ b - a + 1 = k
    BY <1>1
  <2> HIDE DEF a, b
  <2>2. IsFiniteSet(a .. b) /\ Cardinality(a .. b) = IF a > b THEN 0 ELSE b - a + 1
    BY <2>1, FS_Interval
  <2>3. QED
    BY <2>1, <2>2 DEF a, b
<1> HIDE DEF new, L
<1>4. \A c \in new : /\ DOMAIN ds[c] = Field /\ ds[c].kind \in {"plain", "loop"}
                     /\ ds[c].parent = p /\ ds[c].child_num = 0 /\ ds[c].destory = FALSE
                     /\ p # 0 => ds[c].kind = "plain"
                     /\ Prepared(ds[c])
  BY DEF new, L, Fresh
<1>a. \A c \in DOMAIN cs : ds[c].kind = cs[c].kind /\ Later(cs[c], ds[c]) /\ Prepared(ds[c])
  BY DEF Later
<1>5. Counted(ds) = Counted(cs) \cup new /\ Counted(cs) \cap new = {}
  BY <1>2, <1>4, <1>a DEF Counted, Live
<1>6. IsFiniteSet(Counted(cs)) /\ Cardinality(Counted(cs)) \in Nat
  BY CountedFinite
<1>7. Cardinality(Counted(ds)) = n + k
  <2>1. n = Cardinality(Counted(cs))
    BY DEF Tally
  <2>2. Cardinality(Counted(cs) \cup new) = Cardinality(Counted(cs)) + Cardinality(new)
    BY <1>3, <1>5, <1>6, DisjointUnion
  <2>3. QED
    BY <1>3, <1>5, <2>1, <2>2
<1>8. \A c : IsFiniteSet(Children(cs, c)) /\ Cardinality(Children(cs, c)) \in Nat
  BY <1>6, FS_Subset, FS_CardinalityType DEF Children
<1>9. ASSUME NEW c \in DOMAIN cs, c # p PROVE Children(ds, c) = Children(cs, c)
  BY <1>4, <1>5, <1>9 DEF Children, Counted, Live
<1>10. ASSUME p \in DOMAIN cs PROVE Cardinality(Children(ds, p)) = Cardinality(Children(cs, p)) + k
  <2>1. Children(ds, p) = Children(cs, p) \cup new /\ Children(cs, p) \cap new = {}
    BY <1>4, <1>5 DEF Children, Counted, Live
  <2>2. QED
    BY <1>3, <1>8, <2>1, DisjointUnion
<1>11. ASSUME NEW c \in new PROVE Children(ds, c) = {}
  <2>1. \A x \in DOMAIN cs : cs[x].parent # c
    BY <1>1, <1>11 DEF Shape, new
  <2>2. p # c
    BY <1>1, <1>2, <1>11 DEF new
  <2>3. QED
    BY <2>1, <2>2, <1>4, <1>5 DEF Children, Counted, Live
<1>12. Tally(ds, n + k)
  <2>1. ASSUME NEW c \in DOMAIN ds PROVE ds[c].child_num = Cardinality(Children(ds, c))
    <3>1. CASE c \in new
      BY <3>1, <1>4, <1>11, FS_EmptySet
    <3>2. CASE c \in DOMAIN cs /\ c # p
      BY <3>2, <1>9 DEF Tally
    <3>3. CASE c \in DOMAIN cs /\ c = p
      BY <3>3, <1>10 DEF Tally
    <3>4. QED
      BY <3>1, <3>2, <3>3, <1>2
  <2>2. QED
    BY <2>1, <1>7 DEF Tally
<1>13. Shape(ds)
  <2>1. ASSUME NEW c \in DOMAIN ds
        PROVE  /\ DOMAIN ds[c] = Field
               /\ ds[c].kind \in Kinds /\ ds[c].child_num \in Int /\ ds[c].destory \in BOOLEAN
               /\ ds[c].parent \in 0 .. c - 1
               /\ ds[c].parent # 0 => ds[c].kind = "plain" /\ ds[ds[c].parent].kind # "output"
               /\ Prepared(ds[c])
    <3>1. CASE c \in new
      <4>1. p \in 0 .. c - 1
        BY <3>1, <1>1, <1>2 DEF new
      <4>2. p # 0 => ds[p].kind # "output"
        BY <1>a DEF Ids
      <4>3. QED
        <5>1. ds[c].kind \in Kinds /\ ds[c].child_num \in Int
          BY <3>1, <1>4 DEF Kinds
        <5>2. ds[c].destory \in BOOLEAN
          BY <3>1, <1>4
        <5>3. QED
          BY <3>1, <4>1, <4>2, <5>1, <5>2, <1>4
    <3>2. CASE c \in DOMAIN cs
      <4>1. cs[c].parent # 0 => cs[c].parent \in DOMAIN cs
        BY <3>2, <1>1 DEF Shape
      <4>2. ds[c].child_num \in Int
        BY <3>2 DEF Shape
      <4>3. QED
        BY <3>2, <4>1, <4>2, <1>a DEF Shape
    <3>3. QED
      BY <3>1, <3>2, <1>2
  <2>2. QED
    BY <2>1, <1>1 DEF Shape, L
<1>14. Grows(cs, ds) /\ Quiet(cs, ds)
  BY <1>2, <1>4, <1>a DEF Grows, Quiet
<1>15. QED
  BY <1>12, <1>13, <1>14

(* A change of the fields no count depends on keeps the shape. *)
LEMMA SameShape == ASSUME NEW a, NEW b, Same(a, b), Shape(a) PROVE Shape(b)
<1>1. ASSUME NEW c \in DOMAIN b
      PROVE  /\ DOMAIN b[c] = Field
             /\ b[c].kind \in Kinds /\ b[c].child_num \in Int /\ b[c].destory \in BOOLEAN
             /\ b[c].parent \in 0 .. c - 1 /\ Prepared(b[c])
             /\ b[c].kind = a[c].kind /\ b[c].parent = a[c].parent
  BY DEF Same, Shape, Kept, Later
<1>2. ASSUME NEW c \in DOMAIN b, b[c].parent # 0
      PROVE  b[c].kind = "plain" /\ b[b[c].parent].kind # "output"
  <2>1. b[c].parent \in DOMAIN b /\ b[c].parent = a[c].parent
    BY <1>1, <1>2 DEF Same, Shape
  <2>2. a[c].kind = "plain" /\ a[a[c].parent].kind # "output"
    BY <1>2, <2>1 DEF Same, Shape
  <2>3. QED
    BY <1>1, <2>1, <2>2
<1>3. Len(b) \in Nat /\ DOMAIN b = 1 .. Len(b) /\ b = [c \in DOMAIN b |-> b[c]]
  BY DEF Same, Shape
<1>4. QED
  BY <1>1, <1>2, <1>3 DEF Shape

(* It keeps the tally, too. *)
LEMMA SameTally ==
  ASSUME NEW a, NEW b, Same(a, b), Shape(a), NEW n, Tally(a, n)
  PROVE  Shape(b) /\ Tally(b, n)
<1>1. Shape(b)
  BY SameShape
<1>2. Counted(b) = Counted(a)
  BY DEF Same, Kept, Later, Shape, Counted, Live
<1>3. \A c : Children(b, c) = Children(a, c)
  BY <1>2 DEF Same, Kept, Children, Counted, Live
<1>4. Tally(b, n)
  BY <1>2, <1>3 DEF Tally, Same, Kept
<1>5. QED
  BY <1>1, <1>4

-----------------------------------------------------------------------------
(* Changes that no count depends on. *)

(* _complete touches none of the counted fields and releases ready tasks. *)
LEMMA CompleteKept ==
  ASSUME NEW s, NEW t \in Node, DOMAIN s = Field
  PROVE  Kept(s, Complete(s, t))
<1> DEFINE done == s.completed \cup {t}
           av == (s.available \ {t}) \cup Released(done, t)
           r1 == [s EXCEPT !.skip = FALSE]
           r2 == [s EXCEPT !.completed = done, !.available = av]
<1>1. Complete(s, t) = r1 \/ Complete(s, t) = s \/ Complete(s, t) = r2
  BY DEF Complete
<1>2. Kept(s, r1)
  BY DEF Field, Kept, Later, Prepared
<1>3. Kept(s, s)
  BY DEF Kept, Later
<1>4. Kept(s, r2)
  <2>1. Released(done, t) \subseteq Node
    BY GraphAssumption DEF Released, downstream_tasks, Converse
  <2>2. \A d \in Released(done, t) : upstream_tasks[d] \subseteq done
    BY DEF Released
  <2>3. s.completed \subseteq done /\ \A d \in av : d \in s.available \/ d \in Released(done, t)
    OBVIOUS
  <2> HIDE DEF done, av
  <2>4. /\ DOMAIN r2 = DOMAIN s /\ r2.kind = s.kind /\ r2.parent = s.parent
        /\ r2.child_num = s.child_num /\ r2.destory = s.destory /\ r2.source = s.source
        /\ r2.completed = done /\ r2.available = av
    BY DEF Field
  <2> HIDE DEF r2
  <2>5. Prepared(s) => Prepared(r2)
    BY <2>1, <2>2, <2>3, <2>4 DEF Prepared
  <2>6. QED
    BY <2>3, <2>4, <2>5 DEF Kept, Later
<1>5. QED
  BY <1>1, <1>2, <1>3, <1>4

(* No context has a parent. *)
Rooted(cs) == \A c \in DOMAIN cs : cs[c].parent = 0

(* No task is available that is completed. *)
Separated(r) == r.available \cap r.completed = {}

(* A task of r is completed: r is frozen and waits no more than before. *)
Marked(r, s) ==
  /\ Kept(r, s) /\ s.freezing = r.freezing /\ s.asleep = r.asleep
  /\ Separated(r) => Separated(s)

(* ds is cs but for tasks completed in the contexts of X and above them.   *)
Marks(cs, ds, X) ==
  /\ Same(cs, ds)
  /\ \A c \in DOMAIN cs :
       /\ Marked(cs[c], ds[c])
       /\ Rooted(cs) /\ X \subseteq DOMAIN cs /\ c \notin X => ds[c] = cs[c]

(* Marks is reflexive on contexts, and transitive. *)
LEMMA MarksRefl == ASSUME NEW cs, Shape(cs), NEW X PROVE Marks(cs, cs, X)
BY SameRefl DEF Marks, Marked, Kept, Later

LEMMA MarksTrans ==
  ASSUME NEW a, NEW b, NEW c, NEW X, Marks(a, b, X), Marks(b, c, X)
  PROVE  Marks(a, c, X)
<1>1. \A r, s, t : Marked(r, s) /\ Marked(s, t) => Marked(r, t)
  BY DEF Marked, Kept, Later
<1>2. Same(a, c) /\ DOMAIN a = DOMAIN b
  BY SameTrans DEF Marks, Same
<1>3. Rooted(a) => Rooted(b)
  BY <1>2 DEF Marks, Marked, Kept, Rooted
<1>4. QED
  BY <1>1, <1>2, <1>3 DEF Marks

(* A root has no ancestor. *)
LEMMA RootLineage ==
  ASSUME NEW cs, Shape(cs), Rooted(cs), NEW c \in DOMAIN cs
  PROVE  Lineage(cs, c) = {c}
<1> DEFINE L == Len(cs)
           step(f, n) == IF n = 0 THEN {} ELSE {n} \cup f[cs[n].parent]
           up == CHOOSE f : f = [n \in 0 .. L |-> step(f, n)]
           g == [n \in 0 .. L |-> IF n = 0 THEN {} ELSE {n}]
<1>0. L \in Nat /\ DOMAIN cs = 1 .. L /\ \A n \in 1 .. L : cs[n].parent = 0
  BY DEF Shape, Rooted
<1> HIDE DEF L
<1>1. g = [n \in 0 .. L |-> step(g, n)]
  <2>1. \A n \in 0 .. L : n # 0 => g[cs[n].parent] = {}
    BY <1>0
  <2>2. \A n \in 0 .. L : g[n] = step(g, n)
    BY <2>1
  <2>3. g = [n \in 0 .. L |-> g[n]]
    OBVIOUS
  <2> HIDE DEF g
  <2>4. QED
    BY <2>2, <2>3
<1> HIDE DEF g
<1>2. up = [n \in 0 .. L |-> step(up, n)]
  BY <1>1
<1>3. Lineage(cs, c) = up[c]
  BY DEF Lineage, L
<1> HIDE DEF up
<1>4. up[0] = {}
  BY <1>0, <1>2
<1>5. up[c] = {c} \cup up[cs[c].parent] /\ cs[c].parent = 0
  BY <1>0, <1>2
<1>6. QED
  BY <1>3, <1>4, <1>5

(* _complete and what it leaves alone. *)
LEMMA CompleteMarked ==
  ASSUME NEW s, NEW t \in Node, DOMAIN s = Field
  PROVE  /\ Marked(s, Complete(s, t))
         /\ Complete(s, t).completed \subseteq s.completed \cup {t}
<1> DEFINE done == s.completed \cup {t}
           av == (s.available \ {t}) \cup Released(done, t)
           r1 == [s EXCEPT !.skip = FALSE]
           r2 == [s EXCEPT !.completed = done, !.available = av]
<1>1. Complete(s, t) = r1 \/ Complete(s, t) = s \/ Complete(s, t) = r2
  BY DEF Complete
<1>2. Kept(s, Complete(s, t))
  BY CompleteKept
<1>3. /\ r1.freezing = s.freezing /\ r1.asleep = s.asleep /\ r1.available = s.available
      /\ r1.completed = s.completed
  BY DEF Field
<1>4. Released(done, t) \cap done = {}
  BY DEF Released
<1>5. /\ r2.freezing = s.freezing /\ r2.asleep = s.asleep /\ r2.available = av
      /\ r2.completed = done
  BY DEF Field
<1>6. Separated(s) => Separated(r2)
  BY <1>4, <1>5 DEF Separated
<1> HIDE DEF r1, r2
<1>7. QED
  BY <1>1, <1>2, <1>3, <1>5, <1>6 DEF Marked, Separated

(* complete on a set of contexts. *)
LEMMA CompleteInMarks ==
  ASSUME NEW cs, Shape(cs), NEW C, NEW t \in Node
  PROVE  /\ Marks(cs, CompleteIn(cs, C, t), C)
         /\ \A c \in DOMAIN cs :
              CompleteIn(cs, C, t)[c].completed \subseteq cs[c].completed \cup {t}
<1> DEFINE ds == CompleteIn(cs, C, t)
           reached == UNION {Lineage(cs, c) : c \in C}
<1>1. /\ DOMAIN ds = DOMAIN cs /\ ds = [c \in DOMAIN ds |-> ds[c]]
      /\ \A c \in DOMAIN cs : ds[c] = IF c \in reached THEN Complete(cs[c], t) ELSE cs[c]
  BY DEF CompleteIn
<1>2. Len(ds) = Len(cs)
  BY <1>1 DEF Shape
<1>3. Rooted(cs) /\ C \subseteq DOMAIN cs => reached \subseteq C
  BY RootLineage
<1> HIDE DEF ds, reached
<1>4. ASSUME NEW c \in DOMAIN cs
      PROVE  Marked(cs[c], ds[c]) /\ ds[c].completed \subseteq cs[c].completed \cup {t}
  <2>1. DOMAIN cs[c] = Field
    BY DEF Shape
  <2>2. Marked(cs[c], cs[c])
    BY DEF Marked, Kept, Later
  <2>3. QED
    BY <1>1, <2>1, <2>2, CompleteMarked
<1>5. Same(cs, ds)
  BY <1>1, <1>2, <1>4 DEF Same, Marked
<1>6. QED
  BY <1>1, <1>3, <1>4, <1>5 DEF Marks, ds

(* destory marks live contexts the runtime counts, when it starts at one   *)
(* that is not an OutputContext.                                           *)
LEMMA DoomedCounted ==
  ASSUME NEW cs, Shape(cs), NEW c \in DOMAIN cs, cs[c].kind # "output"
  PROVE  Doomed(cs, c) \subseteq Counted(cs) /\ (~cs[c].destory => c \in Doomed(cs, c))
<1> DEFINE N == Len(cs)
           below(n) == {y \in n + 1 .. N : cs[y].parent = n}
           step(f, n) == IF cs[n].destory THEN {}
                         ELSE {n} \cup UNION {f[x] : x \in below(n)}
           Solves(f, k) == /\ f = [n \in 1 .. N |-> f[n]]
                           /\ \A n \in 1 .. N : n > N - k => f[n] = step(f, n)
           Solvable == {k \in Nat : \E f : Solves(f, k)}
<1>0. N \in Nat /\ DOMAIN cs = 1 .. N
  BY DEF Shape
<1> HIDE DEF N
<1>1. 0 \in Solvable
  <2>1. Solves([n \in 1 .. N |-> {}], 0)
    BY <1>0
  <2>2. QED
    BY <2>1
<1>2. ASSUME NEW k \in Nat, k \in Solvable PROVE k + 1 \in Solvable
  <2>1. PICK f : Solves(f, k)
    BY <1>2
  <2> DEFINE g == [n \in 1 .. N |-> IF n > N - k THEN f[n] ELSE step(f, n)]
  <2>2. \A n \in 1 .. N : n > N - (k + 1) => \A x \in below(n) : x \in 1 .. N /\ g[x] = f[x]
    BY <1>0
  <2>3. ASSUME NEW n \in 1 .. N, n > N - (k + 1) PROVE g[n] = step(g, n)
    <3>1. g[n] = step(f, n)
      BY <2>1, <1>0
    <3> HIDE DEF g
    <3>2. {f[x] : x \in below(n)} = {g[x] : x \in below(n)}
      BY <2>2, <2>3
    <3>3. QED
      BY <3>1, <3>2
  <2>4. Solves(g, k + 1)
    BY <2>3
  <2> HIDE DEF Solves, g
  <2>5. QED
    BY <2>4
<1>3. PICK f : Solves(f, N)
  <2>1. N \in Solvable
    BY <1>0, <1>1, <1>2, Reaches
  <2>2. QED
    BY <2>1
<1> DEFINE doomed == CHOOSE h : h = [n \in 1 .. N |-> step(h, n)]
<1>4. doomed = [n \in 1 .. N |-> step(doomed, n)]
  <2>1. f = [n \in 1 .. N |-> step(f, n)]
    BY <1>3, <1>0
  <2>2. QED
    BY <2>1
<1>5. Doomed(cs, c) = doomed[c]
  BY DEF Doomed, N
<1> HIDE DEF doomed
<1> DEFINE Fine(n) == cs[n].kind # "output" => doomed[n] \subseteq Counted(cs)
           Reached == {k \in Nat : \A n \in 1 .. N : n > N - k => Fine(n)}
<1>6. 0 \in Reached
  BY <1>0
<1>7. ASSUME NEW k \in Nat, k \in Reached PROVE k + 1 \in Reached
  <2>1. ASSUME NEW n \in 1 .. N, n > N - (k + 1), cs[n].kind # "output"
        PROVE  doomed[n] \subseteq Counted(cs)
    <3>1. ASSUME NEW x \in below(n) PROVE doomed[x] \subseteq Counted(cs)
      <4>1. x \in 1 .. N /\ x > N - k /\ cs[x].parent # 0
        BY <1>0, <2>1
      <4>2. cs[x].kind # "output"
        BY <4>1, <1>0 DEF Shape
      <4>3. QED
        BY <1>7, <4>1, <4>2
    <3>2. ~cs[n].destory => n \in Counted(cs)
      BY <2>1, <1>0 DEF Counted, Live
    <3>3. doomed[n] = step(doomed, n)
      BY <1>4
    <3>4. QED
      BY <3>1, <3>2, <3>3
  <2>2. QED
    BY <2>1
<1>8. Doomed(cs, c) \subseteq Counted(cs)
  <2>1. N \in Reached
    BY <1>0, <1>6, <1>7, Reaches
  <2>2. QED
    BY <2>1, <1>0, <1>5
<1>9. ~cs[c].destory => c \in Doomed(cs, c)
  <2>1. doomed[c] = step(doomed, c)
    BY <1>0, <1>4
  <2>2. QED
    BY <2>1, <1>5
<1>10. QED
  BY <1>8, <1>9

(* Masking tasks, one complete after the other. *)
LEMMA CompleteAllMarks ==
  ASSUME NEW cs, Shape(cs), NEW c, NEW T
  PROVE  Marks(cs, CompleteAll(cs, c, T), {c})
<1> DEFINE S == T \cap Node
           pick(s) == CHOOSE x \in s : TRUE
           rest(s) == s \ {pick(s)}
           next(v, x) == CompleteIn(v, {c}, x)
           step(f, s) == IF s = {} THEN cs ELSE next(f[rest(s)], pick(s))
           Solves(f, k) == /\ f = [s \in SUBSET S |-> f[s]]
                           /\ \A s \in SUBSET S : Cardinality(s) <= k => f[s] = step(f, s)
           Solvable == {k \in Nat : \E f : Solves(f, k)}
<1>0. IsFiniteSet(S) /\ Cardinality(S) \in Nat
  BY GraphAssumption, FS_Subset, FS_CardinalityType
<1>a. ASSUME NEW s \in SUBSET S, s # {} PROVE pick(s) \in s
  BY <1>a
<1> HIDE DEF S, pick, next
<1>b. ASSUME NEW s \in SUBSET S, s # {}, NEW k \in Nat, Cardinality(s) <= k + 1
      PROVE  rest(s) \in SUBSET S /\ Cardinality(rest(s)) <= k
  BY <1>0, <1>a, <1>b, Smaller
<1>c. \A s \in SUBSET S : /\ Cardinality(s) <= 0 => s = {}
                         /\ Cardinality(s) <= Cardinality(S)
  BY <1>0, Smaller
<1>1. 0 \in Solvable
  <2>1. Solves([s \in SUBSET S |-> cs], 0)
    BY <1>c
  <2>2. QED
    BY <2>1
<1>2. ASSUME NEW k \in Nat, k \in Solvable PROVE k + 1 \in Solvable
  <2>1. PICK f : Solves(f, k)
    BY <1>2
  <2> DEFINE g == [s \in SUBSET S |-> IF Cardinality(s) <= k THEN f[s] ELSE step(f, s)]
  <2>2. ASSUME NEW s \in SUBSET S, Cardinality(s) <= k + 1 PROVE g[s] = step(g, s)
    <3>1. g[s] = step(f, s)
      BY <2>1
    <3>2. s # {} => g[rest(s)] = f[rest(s)]
      BY <2>2, <1>b
    <3>3. QED
      BY <3>1, <3>2
  <2>3. Solves(g, k + 1)
    BY <2>2
  <2> HIDE DEF Solves, g
  <2>4. QED
    BY <2>3
<1>3. PICK f : Solves(f, Cardinality(S))
  <2>1. Cardinality(S) \in Solvable
    BY <1>0, <1>1, <1>2, Reaches
  <2>2. QED
    BY <2>1
<1> DEFINE iter == CHOOSE i : i = [s \in SUBSET S |-> step(i, s)]
<1>4. iter = [s \in SUBSET S |-> step(iter, s)]
  <2>1. f = [s \in SUBSET S |-> step(f, s)]
    BY <1>3, <1>c
  <2>2. QED
    BY <2>1
<1>5. CompleteAll(cs, c, T) = iter[S]
  BY DEF CompleteAll, FoldSet, MapThenFoldSet, S, pick, next
<1> HIDE DEF iter
<1> DEFINE X == {c}
<1> HIDE DEF X
<1> DEFINE Reached == {k \in Nat : \A s \in SUBSET S :
                                  Cardinality(s) <= k => Marks(cs, iter[s], X)}
<1>6. 0 \in Reached
  <2>1. ASSUME NEW s \in SUBSET S, Cardinality(s) <= 0 PROVE Marks(cs, iter[s], X)
    BY <1>c, <2>1, <1>4, MarksRefl
  <2>2. QED
    BY <2>1
<1>7. ASSUME NEW k \in Nat, k \in Reached PROVE k + 1 \in Reached
  <2>1. ASSUME NEW s \in SUBSET S, Cardinality(s) <= k + 1 PROVE Marks(cs, iter[s], X)
    <3>1. CASE s = {}
      BY <3>1, <1>4, MarksRefl
    <3>2. CASE s # {}
      <4>1. rest(s) \in SUBSET S /\ Cardinality(rest(s)) <= k
        BY <2>1, <3>2, <1>b
      <4>2. Marks(cs, iter[rest(s)], X)
        BY <4>1, <1>7
      <4>3. iter[s] = next(iter[rest(s)], pick(s))
        BY <1>4, <3>2
      <4>4. Marks(iter[rest(s)], next(iter[rest(s)], pick(s)), X)
        <5>1. pick(s) \in Node
          BY <1>a, <3>2 DEF S
        <5>2. Shape(iter[rest(s)])
          BY <4>2, SameShape DEF Marks
        <5>3. Marks(iter[rest(s)], CompleteIn(iter[rest(s)], X, pick(s)), X)
          BY <5>1, <5>2, CompleteInMarks
        <5>4. QED
          BY <5>3 DEF next, X
      <4>5. QED
        BY <4>2, <4>3, <4>4, MarksTrans
    <3>3. QED
      BY <3>1, <3>2
  <2>2. QED
    BY <2>1
<1>8. QED
  <2>1. Cardinality(S) \in Reached
    BY <1>0, <1>6, <1>7, Reaches
  <2>2. Marks(cs, iter[S], X)
    BY <2>1, <1>0
  <2>3. QED
    BY <2>2, <1>5 DEF X

(* It changes no count. *)
LEMMA CompleteAllSame ==
  ASSUME NEW cs, Shape(cs), NEW c, NEW T
  PROVE  Same(cs, CompleteAll(cs, c, T))
BY CompleteAllMarks DEF Marks

(* A change of one context's other fields. *)
LEMMA OneSame ==
  ASSUME NEW cs, Shape(cs), NEW c \in DOMAIN cs, NEW r, Kept(cs[c], r)
  PROVE  Same(cs, [cs EXCEPT ![c] = r])
<1> DEFINE ds == [cs EXCEPT ![c] = r]
<1>1. DOMAIN ds = DOMAIN cs /\ ds = [x \in DOMAIN ds |-> ds[x]]
  OBVIOUS
<1>2. ds[c] = r /\ \A x \in DOMAIN cs : x # c => ds[x] = cs[x]
  OBVIOUS
<1> HIDE DEF ds
<1>3. Len(ds) = Len(cs)
  BY <1>1 DEF Shape
<1>4. \A x : Kept(cs[x], cs[x])
  BY DEF Kept, Later
<1>5. QED
  BY <1>1, <1>2, <1>3, <1>4 DEF Same, ds

(* The retry of a task, and the end of its waiting, change no count. *)
LEMMA RetrySame ==
  ASSUME NEW cs, Shape(cs), NEW c \in DOMAIN cs, NEW t, NEW n, NEW A
  PROVE  /\ Same(cs, [cs EXCEPT ![c].retry[t] = n])
         /\ Same(cs, [cs EXCEPT ![c].retry[t] = n, ![c].asleep = A])
         /\ Same(cs, [cs EXCEPT ![c].asleep = A])
<1>0. DOMAIN cs[c] = Field
  BY DEF Shape
<1> DEFINE f == [cs[c].retry EXCEPT ![t] = n]
           r1 == [cs[c] EXCEPT !.retry = f]
           r2 == [cs[c] EXCEPT !.retry = f, !.asleep = A]
           r3 == [cs[c] EXCEPT !.asleep = A]
<1>1. [cs EXCEPT ![c].retry[t] = n] = [cs EXCEPT ![c] = r1]
  OBVIOUS
<1>2. [cs EXCEPT ![c].retry[t] = n, ![c].asleep = A] = [cs EXCEPT ![c] = r2]
  OBVIOUS
<1>3. [cs EXCEPT ![c].asleep = A] = [cs EXCEPT ![c] = r3]
  OBVIOUS
<1> HIDE DEF f
<1>4. Kept(cs[c], r1)
  BY <1>0 DEF Field, Kept, Later, Prepared
<1>5. Kept(cs[c], r2)
  BY <1>0 DEF Field, Kept, Later, Prepared
<1>6. Kept(cs[c], r3)
  BY <1>0 DEF Field, Kept, Later, Prepared
<1> HIDE DEF r1, r2, r3
<1>7. Same(cs, [cs EXCEPT ![c] = r1])
  BY <1>4, OneSame
<1>8. Same(cs, [cs EXCEPT ![c] = r2])
  BY <1>5, OneSame
<1>9. Same(cs, [cs EXCEPT ![c] = r3])
  BY <1>6, OneSame
<1>10. QED
  BY <1>1, <1>2, <1>3, <1>7, <1>8, <1>9

(* freeze changes no count. *)
LEMMA FrozenSame ==
  ASSUME NEW cs, Shape(cs), NEW c \in DOMAIN cs
  PROVE  Same(cs, [cs EXCEPT ![c].freezing = TRUE])
<1>0. DOMAIN cs[c] = Field
  BY DEF Shape
<1> DEFINE r == [cs[c] EXCEPT !.freezing = TRUE]
<1>1. [cs EXCEPT ![c].freezing = TRUE] = [cs EXCEPT ![c] = r]
  OBVIOUS
<1>2. Kept(cs[c], r)
  BY <1>0 DEF Field, Kept, Later, Prepared
<1> HIDE DEF r
<1>3. QED
  BY <1>1, <1>2, OneSame

-----------------------------------------------------------------------------
(* New contexts. *)

(* The contexts grow, and everything held before is still a context. *)
LEMMA StillContexts ==
  ASSUME NEW cs, NEW ds, Grows(cs, ds)
  PROVE  /\ Ids(cs) \subseteq Ids(ds) /\ Pairs(cs) \subseteq Pairs(ds)
         /\ \A s : s \in Seq(DOMAIN cs) => s \in Seq(DOMAIN ds)
         /\ \A q : q \in LanesOf(Ids(cs)) => q \in LanesOf(Ids(ds))
         /\ \A q : q \in LanesOf(Pairs(cs)) => q \in LanesOf(Pairs(ds))
<1>1. Ids(cs) \subseteq Ids(ds)
  BY DEF Grows, Later, Ids
<1>2. Pairs(cs) \subseteq Pairs(ds)
  <2> SUFFICES ASSUME NEW i \in Pairs(cs) PROVE i \in Pairs(ds)
    OBVIOUS
  <2>1. i \in Ids(cs) \X Node /\ i[1] \in DOMAIN cs
    BY DEF Pairs, Ids
  <2>2. Later(cs[i[1]], ds[i[1]])
    BY <2>1 DEF Grows
  <2>3. i \in Ids(ds) \X Node
    BY <1>1, <2>1
  <2>4. QED
    BY <2>2, <2>3 DEF Pairs, Later
<1>3. \A s : s \in Seq(DOMAIN cs) => s \in Seq(DOMAIN ds)
  BY SeqMonotonic DEF Grows
<1>4. ASSUME NEW S, NEW T, S \subseteq T, NEW q \in LanesOf(S) PROVE q \in LanesOf(T)
  <2>1. \A p \in ContextPriority : q[p] \in Seq(T)
    BY <1>4, SeqMonotonic DEF LanesOf
  <2>2. QED
    BY <2>1 DEF LanesOf
<1>5. QED
  BY <1>1, <1>2, <1>3, <1>4

(* The available tasks of a context may be queued. *)
LEMMA AvailablePairs ==
  ASSUME NEW cs, Shape(cs), NEW c \in Ids(cs), NEW t \in cs[c].available
  PROVE  <<c, t>> \in Pairs(cs) /\ t \in Node
<1>1. Prepared(cs[c])
  BY DEF Shape, Ids
<1>2. QED
  BY <1>1 DEF Prepared, Pairs

(* Every OutputContext was made from a context of its own, which is        *)
(* destroyed.                                                              *)
Sourced(cs) ==
  \A x \in Outputs(cs) :
    /\ cs[x].source \in DOMAIN cs /\ cs[cs[x].source].destory
    /\ \A y \in Outputs(cs) : cs[x].source = cs[y].source => x = y

(* Whatever happens to the contexts, as long as no OutputContext is added. *)
LEMMA QuietSourced ==
  ASSUME NEW cs, NEW ds, Grows(cs, ds), Quiet(cs, ds), Sourced(cs)
  PROVE  Sourced(ds)
<1>1. ASSUME NEW x \in Outputs(ds) PROVE x \in Outputs(cs) /\ ds[x].source = cs[x].source
  BY DEF Outputs, Quiet, Grows, Later
<1>2. ASSUME NEW x \in DOMAIN cs, cs[x].destory PROVE x \in DOMAIN ds /\ ds[x].destory
  BY <1>2 DEF Grows, Later
<1>3. QED
  BY <1>1, <1>2 DEF Sourced

(* One more context at the end of the sequence. *)
LEMMA AppendFacts ==
  ASSUME NEW cs, Shape(cs), NEW r
  PROVE  LET ds == Append(cs, r)
         IN  /\ Len(ds) = Len(cs) + 1 /\ DOMAIN ds = 1 .. Len(ds)
             /\ ds = [c \in DOMAIN ds |-> ds[c]]
             /\ \A c \in DOMAIN cs : ds[c] = cs[c]
             /\ ds[Len(cs) + 1] = r
<1> DEFINE S == {cs[c] : c \in DOMAIN cs} \cup {r}
           ds == Append(cs, r)
<1>1. cs \in Seq(S)
  BY DEF Shape
<1>2. r \in S
  OBVIOUS
<1> HIDE DEF S
<1>3. ds \in Seq(S) /\ Len(ds) = Len(cs) + 1
  BY <1>1, <1>2
<1>4. \A c \in 1 .. Len(cs) : ds[c] = cs[c]
  BY <1>1, <1>2
<1>5. ds[Len(cs) + 1] = r
  BY <1>1, <1>2
<1>6. DOMAIN ds = 1 .. Len(ds) /\ ds \in [1 .. Len(ds) -> S]
  BY <1>3, LenProperties
<1> HIDE DEF ds
<1>7. QED
  BY <1>3, <1>4, <1>5, <1>6 DEF Shape, ds

(* k more contexts at the end of the sequence. *)
LEMMA JoinFacts ==
  ASSUME NEW cs, Len(cs) \in Nat, DOMAIN cs = 1 .. Len(cs), cs = [c \in DOMAIN cs |-> cs[c]],
         NEW k \in Nat, NEW t, t = [i \in 1 .. k |-> t[i]]
  PROVE  LET ds == cs \o t
         IN  /\ Len(ds) = Len(cs) + k /\ DOMAIN ds = 1 .. Len(ds)
             /\ ds = [c \in DOMAIN ds |-> ds[c]]
             /\ \A c \in DOMAIN cs : ds[c] = cs[c]
             /\ \A c \in Len(cs) + 1 .. Len(cs) + k : ds[c] = t[c - Len(cs)]
<1> DEFINE S == {cs[c] : c \in DOMAIN cs} \cup {t[i] : i \in 1 .. k}
           ds == cs \o t
<1>1. cs \in Seq(S)
  OBVIOUS
<1>2. t \in Seq(S) /\ Len(t) = k
  <2>1. t \in [1 .. k -> S]
    OBVIOUS
  <2> HIDE DEF S
  <2>2. QED
    BY <2>1
<1> HIDE DEF S
<1>3. /\ ds \in Seq(S) /\ Len(ds) = Len(cs) + k
      /\ \A i \in 1 .. Len(cs) + k : ds[i] = IF i <= Len(cs) THEN cs[i] ELSE t[i - Len(cs)]
  BY <1>1, <1>2, ConcatProperties
<1>4. DOMAIN ds = 1 .. Len(ds) /\ ds \in [1 .. Len(ds) -> S]
  BY <1>3, LenProperties
<1> HIDE DEF ds
<1>5. ASSUME NEW c \in DOMAIN cs PROVE ds[c] = cs[c]
  <2>1. c \in 1 .. Len(cs) + k /\ c <= Len(cs)
    OBVIOUS
  <2>2. QED
    BY <1>3, <2>1
<1>6. ASSUME NEW c \in Len(cs) + 1 .. Len(cs) + k PROVE ds[c] = t[c - Len(cs)]
  <2>1. c \in 1 .. Len(cs) + k /\ ~(c <= Len(cs))
    OBVIOUS
  <2>2. QED
    BY <1>3, <2>1
<1>7. ds = [c \in DOMAIN ds |-> ds[c]]
  BY <1>4
<1>8. QED
  BY <1>3, <1>4, <1>5, <1>6, <1>7 DEF ds

(* An OutputContext is not counted. *)
LEMMA OutputTally ==
  ASSUME NEW cs, Shape(cs), NEW n, Tally(cs, n), NEW c
  PROVE  LET ds == Append(cs, OutputContext(c))
         IN  /\ Shape(ds) /\ Tally(ds, n) /\ Grows(cs, ds) /\ Len(ds) = Len(cs) + 1
             /\ \A x \in DOMAIN cs : ds[x] = cs[x]
             /\ ds[Len(cs) + 1].kind = "output" /\ ds[Len(cs) + 1].source = c
<1> DEFINE r == OutputContext(c)
           ds == Append(cs, r)
           L == Len(cs)
<1>1. /\ DOMAIN r = Field /\ r.kind = "output" /\ r.parent = 0 /\ r.child_num = 0
      /\ r.destory = FALSE /\ r.source = c /\ Prepared(r)
  BY DEF OutputContext, Context, Field, Prepared
<1> HIDE DEF r
<1>2. /\ Len(ds) = L + 1 /\ DOMAIN ds = 1 .. Len(ds)
      /\ ds = [x \in DOMAIN ds |-> ds[x]]
      /\ \A x \in DOMAIN cs : ds[x] = cs[x]
      /\ ds[L + 1] = r
  BY AppendFacts
<1> HIDE DEF ds
<1>3. L \in Nat /\ DOMAIN cs = 1 .. L /\ DOMAIN ds = DOMAIN cs \cup {L + 1}
  BY <1>2 DEF Shape
<1> HIDE DEF L
<1>4. Shape(ds)
  <2>1. ASSUME NEW x \in DOMAIN ds
        PROVE  /\ DOMAIN ds[x] = Field
               /\ ds[x].kind \in Kinds /\ ds[x].child_num \in Int /\ ds[x].destory \in BOOLEAN
               /\ ds[x].parent \in 0 .. x - 1
               /\ ds[x].parent # 0 => ds[x].kind = "plain" /\ ds[ds[x].parent].kind # "output"
               /\ Prepared(ds[x])
    <3>1. CASE x = L + 1
      <4>1. ds[x] = r /\ 0 \in 0 .. x - 1
        BY <3>1, <1>2, <1>3
      <4>2. ds[x].kind \in Kinds /\ ds[x].child_num \in Int
        BY <4>1, <1>1 DEF Kinds
      <4>3. ds[x].destory \in BOOLEAN
        BY <4>1, <1>1
      <4>4. QED
        BY <4>1, <4>2, <4>3, <1>1
    <3>2. CASE x \in DOMAIN cs
      <4>1. cs[x].parent # 0 => cs[x].parent \in DOMAIN cs
        BY <3>2, <1>3 DEF Shape
      <4>2. QED
        BY <3>2, <4>1, <1>2 DEF Shape
    <3>3. QED
      BY <3>1, <3>2, <1>3
  <2>2. QED
    BY <2>1, <1>2, <1>3 DEF Shape
<1>5. Counted(ds) = Counted(cs)
  BY <1>1, <1>2, <1>3 DEF Counted, Live
<1>6. \A x : Children(ds, x) = Children(cs, x)
  BY <1>2, <1>3, <1>5 DEF Children, Counted, Live
<1>7. Children(cs, L + 1) = {}
  <2>1. \A x \in DOMAIN cs : cs[x].parent # L + 1
    BY <1>3 DEF Shape
  <2>2. QED
    BY <2>1 DEF Children, Counted, Live
<1>8. Tally(ds, n)
  <2>1. ASSUME NEW x \in DOMAIN ds PROVE ds[x].child_num = Cardinality(Children(ds, x))
    <3>1. CASE x = L + 1
      BY <3>1, <1>1, <1>2, <1>6, <1>7, FS_EmptySet
    <3>2. CASE x \in DOMAIN cs
      BY <3>2, <1>2, <1>6 DEF Tally
    <3>3. QED
      BY <3>1, <3>2, <1>3
  <2>2. QED
    BY <2>1, <1>5 DEF Tally
<1>9. Grows(cs, ds)
  <2>1. \A x : Later(cs[x], cs[x])
    BY DEF Later
  <2>2. QED
    BY <1>2, <1>3, <2>1 DEF Grows
<1>10. QED
  BY <1>1, <1>2, <1>3, <1>4, <1>8, <1>9 DEF ds, r, L

-----------------------------------------------------------------------------
(* The results of the calls of tasks. *)

(* The contexts a call leaves, those it returns, and the change of the     *)
(* counter, fit together.                                                  *)
Good(cs, n, r) ==
  /\ r = Result(r.ctx, r.out, r.delta)
  /\ Shape(r.ctx) /\ Tally(r.ctx, n + r.delta) /\ Grows(cs, r.ctx)
  /\ r.out \in Seq(DOMAIN r.ctx)

(* A good result without a new OutputContext. *)
Ordinary(cs, n, r) == Good(cs, n, r) /\ Quiet(cs, r.ctx)

(* The fields of a result. *)
LEMMA ResultFields ==
  ASSUME NEW cs, NEW out, NEW d
  PROVE  LET r == Result(cs, out, d)
         IN  /\ r.ctx = cs /\ r.out = out /\ r.delta = d
             /\ r = Result(r.ctx, r.out, r.delta)
BY DEF Result

(* What makes a result good. *)
LEMMA GoodResult ==
  ASSUME NEW cs, NEW n, NEW ds, NEW out, NEW d,
         Shape(ds), Tally(ds, n + d), Grows(cs, ds), out \in Seq(DOMAIN ds)
  PROVE  /\ Good(cs, n, Result(ds, out, d))
         /\ Quiet(cs, ds) => Ordinary(cs, n, Result(ds, out, d))
<1>1. Good(cs, n, Result(ds, out, d))
  BY ResultFields DEF Good
<1>2. Quiet(cs, ds) => Quiet(cs, Result(ds, out, d).ctx)
  BY ResultFields
<1>3. QED
  BY <1>1, <1>2 DEF Ordinary

(* complete(task) on the returned contexts leaves a result good. *)
LEMMA ToldGood ==
  ASSUME NEW cs, NEW n, NEW r, Good(cs, n, r), NEW t \in Node
  PROVE  LET ds == Told(r, t).ctx
         IN  /\ Shape(ds) /\ Tally(ds, n + r.delta) /\ Grows(cs, ds)
             /\ r.out \in Seq(DOMAIN ds) /\ Same(r.ctx, ds)
<1> DEFINE C == {c \in ToSet(r.out) : r.ctx[c].kind # "loop"}
           ds == CompleteIn(r.ctx, C, t)
<1>1. Told(r, t).ctx = ds
  <2>1. "ctx" \in DOMAIN r
    BY DEF Good, Result
  <2>2. QED
    BY <2>1 DEF Told
<1> HIDE DEF C
<1>2. Same(r.ctx, ds)
  BY CompleteInMarks DEF Good, Marks
<1>3. Shape(ds) /\ Tally(ds, n + r.delta)
  BY <1>2, SameTally DEF Good
<1>4. Grows(cs, ds)
  BY <1>2, SameGrows, GrowsTrans DEF Good
<1>5. DOMAIN ds = DOMAIN r.ctx
  BY <1>2 DEF Same
<1>6. QED
  BY <1>1, <1>2, <1>3, <1>4, <1>5 DEF Good

(* A task that changes no count and returns its context, or nothing. *)
LEMMA SameGood ==
  ASSUME NEW cs, Shape(cs), NEW n, Tally(cs, n), NEW ds, Same(cs, ds), NEW c \in DOMAIN cs
  PROVE  Ordinary(cs, n, Result(ds, <<c>>, 0)) /\ Ordinary(cs, n, Result(ds, <<>>, 0))
<1>1. Shape(ds) /\ Tally(ds, n)
  BY SameTally
<1>2. Grows(cs, ds) /\ DOMAIN ds = DOMAIN cs /\ Quiet(cs, ds)
  BY SameGrows DEF Same, Quiet
<1>3. n + 0 = n
  BY TallyInt
<1>4. <<c>> \in Seq(DOMAIN ds) /\ <<>> \in Seq(DOMAIN ds)
  BY <1>2
<1>5. QED
  BY <1>1, <1>2, <1>3, <1>4, GoodResult

(* A call that destroyed contexts the runtime counts. *)
LEMMA DestroyedGood ==
  ASSUME NEW cs, Shape(cs), NEW n, Tally(cs, n), NEW ds, Same(cs, ds),
         NEW D, D \subseteq Counted(cs)
  PROVE  Ordinary(cs, n, DestroyedResult(ds, D))
<1>1. Shape(ds) /\ Tally(ds, n)
  BY SameTally
<1>2. Counted(ds) = Counted(cs)
  BY DEF Same, Kept, Later, Counted, Live
<1> DEFINE es == Destory(ds, D)
<1>3. Shape(es) /\ Tally(es, n - Cardinality(D)) /\ Grows(ds, es)
  BY <1>1, <1>2, DestoryTally
<1>4. n - Cardinality(D) = n + (-Cardinality(D))
  <2>1. Cardinality(D) \in Nat /\ n \in Nat
    BY CountedFinite, FS_Subset, FS_CardinalityType, TallyInt
  <2>2. QED
    BY <2>1
<1>5. Grows(cs, es)
  BY <1>3, SameGrows, GrowsTrans
<1>a. Quiet(cs, es)
  BY DEF Quiet, Destory, Same
<1> HIDE DEF es
<1>6. <<>> \in Seq(DOMAIN es)
  OBVIOUS
<1>7. Ordinary(cs, n, Result(es, <<>>, -Cardinality(D)))
  BY <1>3, <1>4, <1>5, <1>6, <1>a, GoodResult
<1>8. QED
  BY <1>7 DEF DestroyedResult, es

(* New contexts and LoopContexts. *)
LEMMA FreshContext ==
  /\ \A p : Fresh(Context("plain", p), p)
  /\ \A t \in Node : Fresh(LoopContext(t), 0)
BY DEF Fresh, Context, LoopContext, Field, Prepared

(* The input contexts of run(). *)
LEMMA InputContext ==
  LET r == Complete(Context("plain", 0), in_task)
  IN  /\ DOMAIN r = Field /\ r.kind = "plain" /\ r.parent = 0 /\ r.child_num = 0
      /\ r.destory = FALSE /\ Prepared(r)
<1> DEFINE b == Context("plain", 0)
<1>1. Fresh(b, 0) /\ b.kind = "plain"
  BY FreshContext DEF Context
<1> HIDE DEF b
<1>2. Kept(b, Complete(b, in_task))
  BY <1>1, CompleteKept, GraphAssumption DEF Fresh
<1>3. QED
  BY <1>1, <1>2 DEF Kept, Later, Fresh, b

(* n input contexts. *)
LEMMA InputsTally ==
  ASSUME NEW n \in Nat, NEW r,
         DOMAIN r = Field, r.kind = "plain", r.parent = 0, r.child_num = 0,
         r.destory = FALSE, Prepared(r)
  PROVE  LET cs == [c \in 1 .. n |-> r]
         IN  Shape(cs) /\ Tally(cs, n) /\ Ids(cs) = 1 .. n
<1> DEFINE cs == [c \in 1 .. n |-> r]
<1>1. /\ DOMAIN cs = 1 .. n /\ Len(cs) = n /\ \A c \in 1 .. n : cs[c] = r
      /\ cs = [c \in DOMAIN cs |-> cs[c]]
  OBVIOUS
<1> HIDE DEF cs
<1>2. Shape(cs)
  <2>1. \A c \in 1 .. n : 0 \in 0 .. c - 1
    OBVIOUS
  <2>2. r.kind \in Kinds /\ r.child_num \in Int
    BY DEF Kinds
  <2>3. r.destory \in BOOLEAN
    OBVIOUS
  <2>4. QED
    BY <1>1, <2>1, <2>2, <2>3 DEF Shape
<1>3. Counted(cs) = 1 .. n /\ Ids(cs) = 1 .. n
  BY <1>1 DEF Counted, Live, Ids
<1>4. Cardinality(1 .. n) = n
  BY FS_Interval
<1>5. ASSUME NEW c \in DOMAIN cs PROVE Children(cs, c) = {}
  BY <1>1, <1>3 DEF Children
<1>6. Tally(cs, n)
  BY <1>1, <1>3, <1>4, <1>5, FS_EmptySet DEF Tally
<1>7. QED
  BY <1>2, <1>3, <1>6 DEF cs

(* A root after cs. *)
LEMMA RootTally ==
  ASSUME NEW cs, Shape(cs), NEW n, Tally(cs, n), NEW r, Fresh(r, 0)
  PROVE  LET ds == Append(cs, r)
         IN  /\ Shape(ds) /\ Tally(ds, n + 1) /\ Grows(cs, ds) /\ Quiet(cs, ds)
             /\ Len(ds) = Len(cs) + 1 /\ DOMAIN ds = 1 .. Len(cs) + 1
<1> DEFINE ds == Append(cs, r)
<1>1. /\ Len(ds) = Len(cs) + 1 /\ DOMAIN ds = 1 .. Len(ds)
      /\ ds = [c \in DOMAIN ds |-> ds[c]]
      /\ \A c \in DOMAIN cs : ds[c] = cs[c]
      /\ ds[Len(cs) + 1] = r
  BY AppendFacts
<1> HIDE DEF ds
<1>a. \A c : Later(cs[c], cs[c])
  BY DEF Later
<1>2. \A c \in DOMAIN cs :
        /\ DOMAIN ds[c] = Field
        /\ ds[c].parent = cs[c].parent /\ ds[c].destory = cs[c].destory
        /\ ds[c].child_num = IF c = 0 THEN cs[c].child_num + 1 ELSE cs[c].child_num
        /\ Later(cs[c], ds[c]) /\ Prepared(ds[c])
  BY <1>1, <1>a DEF Shape
<1>3. \A c \in Len(cs) + 1 .. Len(ds) : ds[c] = r
  BY <1>1, ShapeLen
<1>4. Extended(cs, ds, 1, 0)
  BY <1>1, <1>2, <1>3 DEF Extended
<1>5. Shape(ds) /\ Tally(ds, n + 1) /\ Grows(cs, ds) /\ Quiet(cs, ds)
  BY <1>4, NewTally
<1>6. QED
  BY <1>1, <1>5 DEF ds

(* AsyncContext.create, with or without the context itself returned. *)
LEMMA NewGood ==
  ASSUME NEW cs, Shape(cs), NEW n, Tally(cs, n), NEW c \in DOMAIN cs
  PROVE  Ordinary(cs, n, NewResult(cs)) /\ Ordinary(cs, n, ForkResult(cs, c))
<1> DEFINE r == Context("plain", 0)
           ds == Append(cs, r)
           x == Len(cs) + 1
<1>1. Fresh(r, 0)
  BY FreshContext
<1> HIDE DEF r
<1>2. /\ Shape(ds) /\ Tally(ds, n + 1) /\ Grows(cs, ds) /\ Quiet(cs, ds)
      /\ Len(ds) = Len(cs) + 1 /\ DOMAIN ds = 1 .. Len(cs) + 1
  BY <1>1, RootTally
<1> HIDE DEF ds
<1>3. c \in DOMAIN ds /\ x \in DOMAIN ds
  BY <1>2, ShapeLen
<1> HIDE DEF x
<1>4. <<x>> \in Seq(DOMAIN ds) /\ <<c>> \o <<x>> \in Seq(DOMAIN ds)
  BY <1>3, ConcatProperties
<1>5. /\ Ordinary(cs, n, Result(ds, <<x>>, 1))
      /\ Ordinary(cs, n, Result(ds, <<c>> \o <<x>>, 1))
  BY <1>2, <1>4, GoodResult
<1>6. NewResult(cs) = Result(ds, <<x>>, 1)
  BY DEF NewResult, ds, x, r
<1>7. ForkResult(cs, c) = Result(ds, <<c>> \o <<x>>, 1)
  BY <1>6 DEF ForkResult, Result
<1>8. QED
  BY <1>5, <1>6, <1>7

(* create_child. *)
LEMMA ChildrenGood ==
  ASSUME NEW cs, Shape(cs), NEW n, Tally(cs, n), NEW c \in Ids(cs), NEW k \in Nat
  PROVE  Ordinary(cs, n, ChildrenResult(cs, c, k))
<1> DEFINE bs == [cs EXCEPT ![c].child_num = @ + k]
           t == [i \in 1 .. k |-> Context("plain", c)]
           ds == bs \o t
           out == [i \in 1 .. k |-> Len(cs) + i]
<1>0. c \in DOMAIN cs /\ Len(cs) \in Nat /\ DOMAIN cs = 1 .. Len(cs)
  BY ShapeLen DEF Ids
<1>1. /\ DOMAIN bs = DOMAIN cs /\ Len(bs) = Len(cs) /\ bs = [x \in DOMAIN bs |-> bs[x]]
      /\ \A x \in DOMAIN cs :
           /\ DOMAIN bs[x] = Field /\ bs[x].kind = cs[x].kind /\ bs[x].parent = cs[x].parent
           /\ bs[x].destory = cs[x].destory
           /\ bs[x].child_num = IF x = c THEN cs[x].child_num + k ELSE cs[x].child_num
           /\ bs[x].source = cs[x].source /\ bs[x].completed = cs[x].completed
           /\ bs[x].available = cs[x].available
  <2>1. DOMAIN bs = DOMAIN cs /\ bs = [x \in DOMAIN bs |-> bs[x]]
    OBVIOUS
  <2>2. \A x \in DOMAIN cs : x # c => bs[x] = cs[x]
    OBVIOUS
  <2>3. bs[c] = [cs[c] EXCEPT !.child_num = @ + k]
    BY <1>0
  <2> HIDE DEF bs
  <2>a. Len(bs) = Len(cs)
    BY <2>1, <1>0
  <2>4. DOMAIN cs[c] = Field
    BY <1>0 DEF Shape
  <2>5. /\ DOMAIN bs[c] = Field /\ bs[c].kind = cs[c].kind /\ bs[c].parent = cs[c].parent
        /\ bs[c].destory = cs[c].destory /\ bs[c].child_num = cs[c].child_num + k
        /\ bs[c].source = cs[c].source /\ bs[c].completed = cs[c].completed
        /\ bs[c].available = cs[c].available
    BY <2>3, <2>4 DEF Field
  <2>6. \A x \in DOMAIN cs : DOMAIN cs[x] = Field
    BY DEF Shape
  <2>7. QED
    BY <2>1, <2>a, <2>2, <2>5, <2>6
<1> HIDE DEF bs
<1>a. \A x \in DOMAIN cs : Later(cs[x], bs[x]) /\ Prepared(bs[x])
  <2>1. \A x \in DOMAIN cs : Prepared(cs[x])
    BY DEF Shape
  <2>2. QED
    BY <1>1, <2>1 DEF Later, Prepared
<1>2. Shape(bs)
  <2>1. \A x \in DOMAIN cs : bs[x].child_num \in Int
    BY <1>1 DEF Shape
  <2>2. \A x \in DOMAIN cs : cs[x].parent # 0 => cs[x].parent \in DOMAIN cs
    BY <1>0 DEF Shape
  <2>3. QED
    BY <1>0, <1>1, <1>a, <2>1, <2>2 DEF Shape
<1>3. t = [i \in 1 .. k |-> t[i]] /\ \A i \in 1 .. k : t[i] = Context("plain", c)
  OBVIOUS
<1> HIDE DEF t
<1>4. /\ Len(ds) = Len(bs) + k /\ DOMAIN ds = 1 .. Len(ds)
      /\ ds = [x \in DOMAIN ds |-> ds[x]]
      /\ \A x \in DOMAIN bs : ds[x] = bs[x]
      /\ \A x \in Len(bs) + 1 .. Len(bs) + k : ds[x] = t[x - Len(bs)]
  BY <1>2, <1>3, JoinFacts DEF Shape
<1> HIDE DEF ds
<1>5. ASSUME NEW x \in Len(cs) + 1 .. Len(ds) PROVE ds[x] = Context("plain", c)
  <2>1. x \in Len(bs) + 1 .. Len(bs) + k /\ x - Len(bs) \in 1 .. k
    BY <1>0, <1>1, <1>4
  <2>2. QED
    BY <2>1, <1>3, <1>4
<1>6. \A x \in Len(cs) + 1 .. Len(ds) : Fresh(ds[x], c)
  BY <1>5, FreshContext
<1>7. Extended(cs, ds, k, c)
  BY <1>1, <1>a, <1>4, <1>6 DEF Extended
<1>8. Shape(ds) /\ Tally(ds, n + k) /\ Grows(cs, ds) /\ Quiet(cs, ds)
  BY <1>7, NewTally
<1>9. out \in Seq(DOMAIN ds)
  <2>1. \A i \in 1 .. k : Len(cs) + i \in DOMAIN ds
    BY <1>0, <1>1, <1>4
  <2>2. out \in [1 .. k -> DOMAIN ds]
    BY <2>1
  <2> HIDE DEF out
  <2>3. QED
    BY <2>2
<1>10. Ordinary(cs, n, Result(ds, out, k))
  BY <1>8, <1>9, GoodResult
<1>11. QED
  BY <1>10 DEF ChildrenResult, ds, bs, t

(* A loop task whose generator yielded a context. *)
LEMMA YieldGood ==
  ASSUME NEW cs, Shape(cs), NEW n, Tally(cs, n), NEW c \in DOMAIN cs, NEW t \in Node
  PROVE  Ordinary(cs, n, YieldResult(cs, c, t))
<1> DEFINE a == Context("plain", 0)
           b == LoopContext(t)
           as == Append(cs, a)
           bs == Append(as, b)
           x == Len(cs) + 1
           y == Len(cs) + 2
<1>1. Fresh(a, 0) /\ Fresh(b, 0)
  BY FreshContext
<1> HIDE DEF a, b
<1>3. /\ Shape(as) /\ Tally(as, n + 1) /\ Grows(cs, as) /\ Quiet(cs, as)
      /\ Len(as) = Len(cs) + 1 /\ DOMAIN as = 1 .. Len(cs) + 1
  BY <1>1, RootTally
<1>0. Len(cs) \in Nat /\ DOMAIN cs = 1 .. Len(cs) /\ n \in Nat
  BY ShapeLen, TallyInt
<1>4. CASE cs[c].kind = "loop"
  <2>1. c \in DOMAIN as /\ x \in DOMAIN as
    BY <1>0, <1>3
  <2> HIDE DEF as, x
  <2>2. <<x, c>> \in Seq(DOMAIN as)
    <3> DEFINE Z == DOMAIN as
    <3>1. x \in Z /\ c \in Z
      BY <2>1
    <3> HIDE DEF Z
    <3>2. <<x, c>> \in Seq(Z)
      BY <3>1
    <3>3. QED
      BY <3>2 DEF Z
  <2>3. Ordinary(cs, n, Result(as, <<x, c>>, 1))
    BY <2>2, <1>3, GoodResult
  <2>4. QED
    BY <2>3, <1>4 DEF YieldResult, as, x, a
<1>5. CASE cs[c].kind # "loop"
  <2>1. /\ Shape(bs) /\ Tally(bs, n + 1 + 1) /\ Grows(as, bs) /\ Quiet(as, bs)
        /\ Len(bs) = Len(as) + 1 /\ DOMAIN bs = 1 .. Len(as) + 1
    <3> HIDE DEF as
    <3>1. QED
      BY <1>1, <1>3, RootTally
  <2>2. cs \o <<a, b>> = bs
    <3> DEFINE S == {cs[i] : i \in DOMAIN cs} \cup {a, b}
    <3>1. cs \in Seq(S) /\ a \in S /\ b \in S
      BY DEF Shape
    <3> HIDE DEF S
    <3>2. QED
      BY <3>1
  <2>3. x \in DOMAIN bs /\ y \in DOMAIN bs
    BY <2>1, <1>0, <1>3
  <2>4. Grows(cs, bs) /\ Quiet(cs, bs)
    <3>1. Grows(cs, bs)
      BY <2>1, <1>3, GrowsTrans
    <3>2. Quiet(cs, bs)
      <4> HIDE DEF as, bs
      <4> QED BY <2>1, <1>3 DEF Quiet, Grows, Later
    <3>3. QED
      BY <3>1, <3>2
  <2> HIDE DEF bs, x, y
  <2>5. <<x, y>> \in Seq(DOMAIN bs)
    BY <2>3
  <2>6. n + 1 + 1 = n + 2
    BY <1>0
  <2>7. Ordinary(cs, n, Result(bs, <<x, y>>, 2))
    BY <2>1, <2>4, <2>5, <2>6, GoodResult
  <2>8. YieldResult(cs, c, t) = Result(cs \o <<a, b>>, <<x, y>>, 2)
    BY <1>5 DEF YieldResult, x, y, a, b
  <2>9. QED
    BY <2>2, <2>7, <2>8
<1>6. QED
  BY <1>4, <1>5

(* SinkNode.call: the context, and with its last child the parent, go. *)
LEMMA SinkGood ==
  ASSUME NEW cs, Shape(cs), NEW n, Tally(cs, n), NEW c \in Ids(cs)
  PROVE  /\ Good(cs, n, SinkResult(cs, c))
         /\ Sourced(cs) /\ ~cs[c].destory => Sourced(SinkResult(cs, c).ctx)
<1> DEFINE D == DoomedWithParent(cs, c)
           bs == Destory(cs, D)
           ds == Append(bs, OutputContext(c))
           x == Len(cs) + 1
<1>1. D \subseteq Counted(cs) /\ (~cs[c].destory => c \in D)
  <2>1. c \in DOMAIN cs /\ cs[c].kind # "output"
    BY DEF Ids
  <2>2. Doomed(cs, c) \subseteq Counted(cs) /\ (~cs[c].destory => c \in Doomed(cs, c))
    BY <2>1, DoomedCounted
  <2> DEFINE p == cs[c].parent
  <2>3. p # 0 => p \in DOMAIN cs /\ cs[p].kind # "output"
    BY <2>1 DEF Shape
  <2> HIDE DEF p
  <2>4. p # 0 => Doomed(cs, p) \subseteq Counted(cs)
    BY <2>3, DoomedCounted
  <2>5. QED
    BY <2>2, <2>4 DEF DoomedWithParent, p
<1> HIDE DEF D
<1>2. Shape(bs) /\ Tally(bs, n - Cardinality(D)) /\ Grows(cs, bs) /\ Len(bs) = Len(cs)
  BY <1>1, DestoryTally
<1>a. ASSUME ~cs[c].destory PROVE bs[c].destory
  <2>1. c \in DOMAIN cs /\ DOMAIN cs[c] = Field
    BY DEF Ids, Shape
  <2>2. QED
    BY <1>1, <1>a, <2>1 DEF Destory, Field
<1> HIDE DEF bs
<1>3. /\ Shape(ds) /\ Tally(ds, n - Cardinality(D)) /\ Grows(bs, ds)
      /\ Len(ds) = Len(bs) + 1
      /\ \A y \in DOMAIN bs : ds[y] = bs[y]
      /\ ds[Len(bs) + 1].kind = "output" /\ ds[Len(bs) + 1].source = c
  BY <1>2, OutputTally
<1>4. Grows(cs, ds)
  BY <1>2, <1>3, GrowsTrans
<1> HIDE DEF ds
<1>5. n - Cardinality(D) = n + (-Cardinality(D))
  <2>1. Cardinality(D) \in Nat /\ n \in Nat
    BY <1>1, CountedFinite, FS_Subset, FS_CardinalityType, TallyInt
  <2>2. QED
    BY <2>1
<1>6. x \in DOMAIN ds
  BY <1>2, <1>3, ShapeLen
<1> HIDE DEF x
<1>7. <<x>> \in Seq(DOMAIN ds)
  BY <1>6
<1>8. Good(cs, n, Result(ds, <<x>>, -Cardinality(D)))
  BY <1>3, <1>4, <1>5, <1>7, GoodResult
<1>9. SinkResult(cs, c) = Result(ds, <<Len(cs) + 1>>, -Cardinality(D))
  BY DEF SinkResult, ds, bs, D
<1>10. ASSUME Sourced(cs), ~cs[c].destory PROVE Sourced(ds)
  <2>0. c \in DOMAIN cs
    BY DEF Ids
  <2>1. Grows(cs, ds) /\ ds[c].destory /\ c \in DOMAIN ds
    BY <1>10, <1>a, <1>2, <1>3, <1>4, <2>0 DEF Grows
  <2>2. DOMAIN ds = DOMAIN cs \cup {x} /\ ds[x].kind = "output" /\ ds[x].source = c
    BY <1>2, <1>3, ShapeLen DEF x
  <2>3. ASSUME NEW y \in Outputs(ds), y # x
        PROVE  /\ y \in Outputs(cs) /\ ds[y].source = cs[y].source /\ cs[y].source # c
               /\ ds[y].source \in DOMAIN ds /\ ds[ds[y].source].destory
    <3>1. y \in Outputs(cs) /\ ds[y].source = cs[y].source
      BY <2>1, <2>2, <2>3 DEF Outputs, Grows, Later
    <3>2. cs[y].source \in DOMAIN cs /\ cs[cs[y].source].destory
      BY <3>1, <1>10 DEF Sourced
    <3>3. QED
      BY <3>1, <3>2, <2>1, <1>10 DEF Grows, Later
  <2>4. QED
    BY <1>10, <2>1, <2>2, <2>3 DEF Sourced
<1>11. SinkResult(cs, c).ctx = ds
  BY <1>9, ResultFields
<1>12. QED
  BY <1>8, <1>9, <1>10, <1>11 DEF x

-----------------------------------------------------------------------------
(* The queue. *)

(* Some lane is served, unless all are empty. *)
LEMMA ServedIs ==
  ASSUME NEW q, ~IsEmpty(q)
  PROVE  ServedLane(q) \in ContextPriority /\ q[ServedLane(q)] # <<>>
<1>1. \E r \in ContextPriority :
        q[r] # <<>> /\ \A t \in ContextPriority : t < r => q[t] = <<>>
  <2>1. CASE q[LIFO] # <<>>
    BY <2>1 DEF ContextPriority, LIFO, FIFO_HIGH, FIFO_LOW
  <2>2. CASE q[LIFO] = <<>> /\ q[FIFO_HIGH] # <<>>
    BY <2>2 DEF ContextPriority, LIFO, FIFO_HIGH, FIFO_LOW
  <2>3. CASE q[LIFO] = <<>> /\ q[FIFO_HIGH] = <<>>
    <3>1. q[FIFO_LOW] # <<>>
      BY <2>3 DEF IsEmpty, ContextPriority
    <3>2. QED
      BY <2>3, <3>1 DEF ContextPriority, LIFO, FIFO_HIGH, FIFO_LOW
  <2>4. QED
    BY <2>1, <2>2, <2>3
<1>2. QED
  BY <1>1 DEF ServedLane

(* What a get takes was queued, and the rest stays. *)
LEMMA Served ==
  ASSUME NEW S, NEW q \in LanesOf(S), ~IsEmpty(q)
  PROVE  First(q) \in S /\ Pop(q) \in LanesOf(S)
<1> DEFINE p == ServedLane(q)
<1>1. p \in ContextPriority /\ q[p] # <<>>
  BY ServedIs
<1> HIDE DEF p
<1>2. q[p] \in Seq(S)
  BY <1>1 DEF LanesOf
<1>3. Head(q[p]) \in S /\ Tail(q[p]) \in Seq(S)
  BY <1>1, <1>2, HeadTailProperties
<1>4. QED
  BY <1>1, <1>3 DEF First, Pop, LanesOf, p

(* A put in one of the lanes. *)
LEMMA PutOne ==
  ASSUME NEW S, NEW q \in LanesOf(S), NEW x \in S, NEW p \in ContextPriority
  PROVE  Put(q, x, p) \in LanesOf(S)
<1>1. q[p] \in Seq(S)
  BY DEF LanesOf
<1>2. Append(q[p], x) \in Seq(S) /\ Cons(x, q[p]) \in Seq(S)
  BY <1>1, ConcatProperties DEF Cons
<1>3. QED
  BY <1>2 DEF Put, LanesOf

(* No entry is queued twice. *)
Once(q) ==
  /\ \A p \in ContextPriority : IsInjective(q[p])
  /\ \A p, r \in ContextPriority : p # r => ToSet(q[p]) \cap ToSet(q[r]) = {}

(* One more entry, at either end. *)
LEMMA LaneGrows ==
  ASSUME NEW S, NEW s \in Seq(S), NEW x \in S
  PROVE  /\ ToSet(Append(s, x)) = ToSet(s) \cup {x} /\ ToSet(Cons(x, s)) = ToSet(s) \cup {x}
         /\ IsInjective(s) /\ x \notin ToSet(s) =>
              IsInjective(Append(s, x)) /\ IsInjective(Cons(x, s))
<1> DEFINE n == Len(s)
           a == Append(s, x)
           c == Cons(x, s)
<1>1. n \in Nat /\ DOMAIN s = 1 .. n
  BY LenProperties
<1>2. /\ DOMAIN a = 1 .. n + 1 /\ a[n + 1] = x /\ \A i \in 1 .. n : a[i] = s[i]
  <2>1. a \in Seq(S) /\ Len(a) = n + 1
    OBVIOUS
  <2>2. DOMAIN a = 1 .. Len(a)
    BY <2>1, LenProperties
  <2>3. QED
    BY <2>1, <2>2
<1>3. /\ DOMAIN c = 1 .. n + 1 /\ c[1] = x /\ \A i \in 1 .. n + 1 : i # 1 => c[i] = s[i - 1]
  <2>1. <<x>> \in Seq(S) /\ Len(<<x>>) = 1 /\ <<x>>[1] = x
    OBVIOUS
  <2>2. /\ c \in Seq(S) /\ Len(c) = 1 + n
        /\ \A i \in 1 .. 1 + n : c[i] = IF i <= 1 THEN <<x>>[i] ELSE s[i - 1]
    BY <2>1, ConcatProperties DEF Cons
  <2>3. DOMAIN c = 1 .. Len(c)
    BY <2>2, LenProperties
  <2> HIDE DEF c
  <2>4. QED
    BY <1>1, <2>1, <2>2, <2>3
<1> HIDE DEF n, a, c
<1>4. ToSet(a) = ToSet(s) \cup {x}
  <2>1. 1 .. n + 1 = (1 .. n) \cup {n + 1}
    BY <1>1
  <2>2. QED
    BY <1>1, <1>2, <2>1 DEF ToSet
<1>5. ToSet(c) = ToSet(s) \cup {x}
  <2>1. \A i \in 1 .. n : i + 1 \in 1 .. n + 1 /\ i + 1 # 1 /\ c[i + 1] = s[i]
    BY <1>1, <1>3
  <2>2. \A i \in 1 .. n + 1 : i # 1 => i - 1 \in 1 .. n
    BY <1>1
  <2>3. 1 \in 1 .. n + 1
    BY <1>1
  <2>4. \A i \in 1 .. n + 1 : c[i] \in ToSet(s) \cup {x}
    BY <1>1, <1>3, <2>2 DEF ToSet
  <2>5. \A i \in 1 .. n : s[i] \in ToSet(c)
    BY <1>1, <1>3, <2>1 DEF ToSet
  <2>6. x \in ToSet(c)
    BY <1>3, <2>3 DEF ToSet
  <2>7. QED
    BY <1>1, <1>3, <2>4, <2>5, <2>6 DEF ToSet
<1>6. ASSUME IsInjective(s), x \notin ToSet(s) PROVE IsInjective(a)
  <2>1. \A i \in 1 .. n + 1 : i \in 1 .. n \/ i = n + 1
    BY <1>1
  <2>2. \A i \in 1 .. n : s[i] # x
    BY <1>1, <1>6 DEF ToSet
  <2>3. \A i, j \in 1 .. n : s[i] = s[j] => i = j
    BY <1>1, <1>6 DEF IsInjective
  <2>4. \A i, j \in 1 .. n + 1 : a[i] = a[j] => i = j
    BY <1>2, <2>1, <2>2, <2>3
  <2>5. QED
    BY <1>2, <2>4 DEF IsInjective
<1>7. ASSUME IsInjective(s), x \notin ToSet(s) PROVE IsInjective(c)
  <2>2. \A i \in 1 .. n : s[i] # x
    BY <1>1, <1>7 DEF ToSet
  <2>3. \A i \in 1 .. n + 1 : i # 1 => i - 1 \in 1 .. n
    BY <1>1
  <2>4. \A i, j \in 1 .. n : s[i] = s[j] => i = j
    BY <1>1, <1>7 DEF IsInjective
  <2>5. ASSUME NEW i \in 1 .. n + 1, NEW j \in 1 .. n + 1, c[i] = c[j] PROVE i = j
    <3>1. CASE i = 1 \/ j = 1
      BY <3>1, <1>3, <2>2, <2>3, <2>5
    <3>2. CASE i # 1 /\ j # 1
      <4>1. i - 1 \in 1 .. n /\ j - 1 \in 1 .. n /\ s[i - 1] = s[j - 1]
        BY <3>2, <1>3, <2>3, <2>5
      <4>2. i - 1 = j - 1
        BY <4>1, <2>4
      <4>3. QED
        BY <4>2, <1>1
    <3>3. QED
      BY <3>1, <3>2
  <2>6. QED
    BY <1>3, <2>5 DEF IsInjective
<1>8. QED
  BY <1>4, <1>5, <1>6, <1>7 DEF a, c

(* The first entry and the others. *)
LEMMA LaneShrinks ==
  ASSUME NEW S, NEW s \in Seq(S), s # <<>>
  PROVE  /\ ToSet(s) = ToSet(Tail(s)) \cup {Head(s)}
         /\ IsInjective(s) => IsInjective(Tail(s)) /\ Head(s) \notin ToSet(Tail(s))
<1> DEFINE n == Len(s)
           t == Tail(s)
<1>1. n \in Nat /\ n # 0 /\ DOMAIN s = 1 .. n /\ Head(s) = s[1]
  BY LenProperties, EmptySeq
<1>2. DOMAIN t = 1 .. n - 1 /\ \A i \in 1 .. n - 1 : t[i] = s[i + 1]
  <2>1. t \in Seq(S) /\ Len(t) = n - 1 /\ \A i \in 1 .. Len(t) : t[i] = s[i + 1]
    BY HeadTailProperties
  <2>2. DOMAIN t = 1 .. Len(t)
    BY <2>1, LenProperties
  <2>3. QED
    BY <2>1, <2>2
<1> HIDE DEF n, t
<1>3. \A i \in 1 .. n - 1 : i + 1 \in 1 .. n /\ i + 1 # 1
  BY <1>1
<1>4. \A i \in 1 .. n : i = 1 \/ (i - 1 \in 1 .. n - 1 /\ (i - 1) + 1 = i)
  BY <1>1
<1>5. ToSet(s) = ToSet(t) \cup {Head(s)}
  <2>1. 1 \in 1 .. n
    BY <1>1
  <2>2. ASSUME NEW i \in 1 .. n PROVE s[i] \in ToSet(t) \cup {Head(s)}
    <3>1. CASE i = 1
      BY <3>1, <1>1
    <3>2. CASE i # 1
      <4>1. i - 1 \in DOMAIN t /\ t[i - 1] = s[i]
        BY <3>2, <1>2, <1>4
      <4>2. QED
        BY <4>1 DEF ToSet
    <3>3. QED
      BY <3>1, <3>2
  <2>3. \A i \in 1 .. n - 1 : t[i] \in ToSet(s)
    BY <1>1, <1>2, <1>3 DEF ToSet
  <2>4. ToSet(s) = {s[i] : i \in 1 .. n} /\ ToSet(t) = {t[i] : i \in 1 .. n - 1}
    BY <1>1, <1>2 DEF ToSet
  <2>5. ToSet(s) \subseteq ToSet(t) \cup {Head(s)}
    BY <2>2, <2>4
  <2>6. ToSet(t) \subseteq ToSet(s)
    BY <2>3, <2>4
  <2>7. Head(s) \in ToSet(s)
    BY <1>1, <2>1, <2>4
  <2>8. QED
    BY <2>5, <2>6, <2>7
<1>6. ASSUME IsInjective(s) PROVE IsInjective(t) /\ Head(s) \notin ToSet(t)
  <2>1. \A i, j \in 1 .. n : s[i] = s[j] => i = j
    BY <1>1, <1>6 DEF IsInjective
  <2>2. \A i, j \in 1 .. n - 1 : t[i] = t[j] => i = j
    <3>1. ASSUME NEW i \in 1 .. n - 1, NEW j \in 1 .. n - 1, t[i] = t[j] PROVE i = j
      <4>1. i + 1 = j + 1
        BY <3>1, <1>2, <1>3, <2>1
      <4>2. QED
        BY <4>1, <1>1
    <3>2. QED
      BY <3>1
  <2>3. \A i \in 1 .. n - 1 : t[i] # s[1]
    <3>1. 1 \in 1 .. n
      BY <1>1
    <3>2. QED
      BY <3>1, <1>2, <1>3, <2>1
  <2>4. QED
    BY <1>1, <1>2, <2>2, <2>3 DEF IsInjective, ToSet
<1>7. QED
  BY <1>5, <1>6 DEF t

(* A put adds one entry. *)
LEMMA PutQueued ==
  ASSUME NEW S, NEW q \in LanesOf(S), NEW x \in S, NEW p \in ContextPriority
  PROVE  /\ Queued(Put(q, x, p)) = Queued(q) \cup {x}
         /\ Once(q) /\ x \notin Queued(q) => Once(Put(q, x, p))
<1> DEFINE d == Put(q, x, p)
<1>1. q[p] \in Seq(S) /\ DOMAIN q = ContextPriority
  BY DEF LanesOf
<1>2. /\ d[p] = Append(q[p], x) \/ d[p] = Cons(x, q[p])
      /\ \A r \in ContextPriority : r # p => d[r] = q[r]
  BY <1>1 DEF Put
<1> HIDE DEF d
<1> DEFINE l == q[p]
<1>3. /\ ToSet(Append(l, x)) = ToSet(l) \cup {x} /\ ToSet(Cons(x, l)) = ToSet(l) \cup {x}
      /\ IsInjective(l) /\ x \notin ToSet(l) =>
           IsInjective(Append(l, x)) /\ IsInjective(Cons(x, l))
  <2>1. l \in Seq(S)
    BY <1>1
  <2> HIDE DEF l
  <2>2. QED
    BY <2>1, LaneGrows
<1>4. /\ ToSet(d[p]) = ToSet(q[p]) \cup {x}
      /\ IsInjective(q[p]) /\ x \notin ToSet(q[p]) => IsInjective(d[p])
  BY <1>2, <1>3
<1>5. Queued(d) = Queued(q) \cup {x}
  BY <1>2, <1>4 DEF Queued
<1>6. ASSUME Once(q), x \notin Queued(q) PROVE Once(d)
  <2>1. \A r \in ContextPriority : x \notin ToSet(q[r])
    BY <1>6 DEF Queued
  <2>2. \A r \in ContextPriority : IsInjective(d[r])
    BY <1>2, <1>4, <1>6, <2>1 DEF Once
  <2>3. ASSUME NEW r \in ContextPriority, NEW t \in ContextPriority, r # t
        PROVE  ToSet(d[r]) \cap ToSet(d[t]) = {}
    <3>1. ToSet(q[r]) \cap ToSet(q[t]) = {} /\ x \notin ToSet(q[r]) /\ x \notin ToSet(q[t])
      BY <1>6, <2>1, <2>3 DEF Once
    <3>2. QED
      BY <1>2, <1>4, <2>3, <3>1
  <2>4. QED
    BY <2>2, <2>3 DEF Once
<1>7. QED
  BY <1>5, <1>6 DEF d

(* A get takes one entry. *)
LEMMA PopQueued ==
  ASSUME NEW S, NEW q \in LanesOf(S), ~IsEmpty(q)
  PROVE  /\ Queued(q) = Queued(Pop(q)) \cup {First(q)}
         /\ Once(q) => Once(Pop(q)) /\ First(q) \notin Queued(Pop(q))
<1> DEFINE p == ServedLane(q)
           d == Pop(q)
           x == First(q)
<1>1. p \in ContextPriority /\ q[p] # <<>>
  BY ServedIs
<1>2. q[p] \in Seq(S) /\ DOMAIN q = ContextPriority
  BY <1>1 DEF LanesOf
<1>3. /\ d[p] = Tail(q[p]) /\ x = Head(q[p])
      /\ \A r \in ContextPriority : r # p => d[r] = q[r]
  BY <1>1, <1>2 DEF Pop, First
<1> HIDE DEF d, p, x
<1>4. /\ ToSet(q[p]) = ToSet(d[p]) \cup {x}
      /\ IsInjective(q[p]) => IsInjective(d[p]) /\ x \notin ToSet(d[p])
  BY <1>1, <1>2, <1>3, LaneShrinks
<1>5. Queued(q) = Queued(d) \cup {x}
  BY <1>1, <1>3, <1>4 DEF Queued
<1>6. ASSUME Once(q) PROVE Once(d) /\ x \notin Queued(d)
  <2>1. Once(d)
    BY <1>1, <1>3, <1>4, <1>6 DEF Once
  <2>2. \A r \in ContextPriority : x \notin ToSet(d[r])
    BY <1>1, <1>3, <1>4, <1>6 DEF Once
  <2>3. QED
    BY <2>1, <2>2 DEF Queued
<1>7. QED
  BY <1>5, <1>6 DEF d, x
-----------------------------------------------------------------------------
(* What the outcomes of a task leave, besides the counts.                  *)

AllSeparated(cs) == \A c \in DOMAIN cs : Separated(cs[c])

Awake(cs) == \A c \in DOMAIN cs : cs[c].asleep = {}

(* cs becomes ds: no context of cs outside F is frozen, and, while none    *)
(* has a parent, none outside M has tasks completed or made available.     *)
Turns(cs, ds, F, M) ==
  /\ Grows(cs, ds)
  /\ \A x \in DOMAIN cs :
       /\ x \notin F => ds[x].freezing = cs[x].freezing
       /\ Rooted(ds) /\ x \notin M => /\ ds[x].completed = cs[x].completed
                                     /\ ds[x].available = cs[x].available
  /\ \A x \in DOMAIN ds \ DOMAIN cs : ~ds[x].freezing
  /\ AllSeparated(cs) => AllSeparated(ds)

(* The contexts stay as they are. *)
LEMMA StillTurns ==
  ASSUME NEW cs
  PROVE  Turns(cs, cs, {}, {})
BY DEF Turns, Grows, Later


(* A new context: no task is completed; the loop task of a LoopContext is  *)
(* available.                                                              *)
Blank(r) ==
  /\ ~r.freezing /\ r.asleep = {} /\ Separated(r) /\ r.completed = {} /\ ~r.skip
  /\ r.kind = "loop" => r.available # {}

(* What a call leaves: contexts, of which the new ones are returned, and   *)
(* besides them at most c.                                                 *)
Yields(cs, c, r) ==
  /\ Turns(cs, r.ctx, {c}, {c})
  /\ Awake(cs) => Awake(r.ctx)
  /\ IsInjective(r.out)
  /\ DOMAIN r.ctx \ DOMAIN cs \subseteq ToSet(r.out)
  /\ ToSet(r.out) \subseteq (DOMAIN r.ctx \ DOMAIN cs) \cup {c}
  /\ \A x \in DOMAIN r.ctx \ DOMAIN cs : Blank(r.ctx[x])

Unmasked(cs, r) == \A x \in DOMAIN cs : r.ctx[x].completed = cs[x].completed

(* The context r may become s without any task being completed. *)
Alike(r, s) ==
  /\ s.completed = r.completed /\ s.available = r.available
  /\ s.freezing = r.freezing /\ s.asleep = r.asleep /\ s.parent = r.parent

(* Short lists. *)
LEMMA ShortLists ==
  /\ ToSet(<<>>) = {} /\ IsInjective(<<>>)
  /\ \A x : ToSet(<<x>>) = {x} /\ IsInjective(<<x>>)
  /\ \A x, y : ToSet(<<x, y>>) = {x, y} /\ (x # y => IsInjective(<<x, y>>))
<1>1. ToSet(<<>>) = {} /\ IsInjective(<<>>)
  BY DEF ToSet, IsInjective
<1>2. ASSUME NEW x PROVE ToSet(<<x>>) = {x} /\ IsInjective(<<x>>)
  <2>1. DOMAIN <<x>> = {1} /\ <<x>>[1] = x
    OBVIOUS
  <2>2. QED
    BY <2>1 DEF ToSet, IsInjective
<1>3. ASSUME NEW x, NEW y PROVE ToSet(<<x, y>>) = {x, y} /\ (x # y => IsInjective(<<x, y>>))
  <2>1. DOMAIN <<x, y>> = {1, 2} /\ <<x, y>>[1] = x /\ <<x, y>>[2] = y
    OBVIOUS
  <2>2. QED
    BY <2>1 DEF ToSet, IsInjective
<1>4. QED
  BY <1>1, <1>2, <1>3

(* New contexts, and no task completed. *)
LEMMA AlikeYields ==
  ASSUME NEW cs, NEW ds, NEW c, NEW out, NEW d, Grows(cs, ds),
         \A x \in DOMAIN cs : Alike(cs[x], ds[x]),
         \A x \in DOMAIN ds \ DOMAIN cs : Blank(ds[x]),
         IsInjective(out), DOMAIN ds \ DOMAIN cs \subseteq ToSet(out),
         ToSet(out) \subseteq (DOMAIN ds \ DOMAIN cs) \cup {c}
  PROVE  LET r == Result(ds, out, d)
         IN  /\ Yields(cs, c, r) /\ Unmasked(cs, r)
             /\ (\A x \in DOMAIN ds \ DOMAIN cs : ds[x].parent = 0) =>
                  (Rooted(cs) => Rooted(r.ctx))
<1> DEFINE r == Result(ds, out, d)
<1>1. r.ctx = ds /\ r.out = out
  BY ResultFields
<1> HIDE DEF r
<1>2. AllSeparated(cs) => AllSeparated(ds)
  BY DEF AllSeparated, Separated, Alike, Blank
<1>3. Turns(cs, ds, {c}, {c})
  BY <1>2 DEF Turns, Alike, Blank
<1>4. Awake(cs) => Awake(ds)
  BY DEF Awake, Alike, Blank
<1>5. Yields(cs, c, r)
  BY <1>1, <1>3, <1>4 DEF Yields
<1>6. Unmasked(cs, r)
  BY <1>1 DEF Unmasked, Alike
<1>7. (\A x \in DOMAIN ds \ DOMAIN cs : ds[x].parent = 0) => (Rooted(cs) => Rooted(r.ctx))
  BY <1>1 DEF Rooted, Alike
<1>8. QED
  BY <1>5, <1>6, <1>7 DEF r

(* The same when there is no new one. *)
LEMMA OldYields ==
  ASSUME NEW cs, NEW ds, NEW c, NEW out, NEW d, Grows(cs, ds), DOMAIN ds = DOMAIN cs,
         \A x \in DOMAIN cs : Alike(cs[x], ds[x]), out = <<>> \/ out = <<c>>
  PROVE  LET r == Result(ds, out, d)
         IN  Yields(cs, c, r) /\ Unmasked(cs, r) /\ (Rooted(cs) => Rooted(r.ctx))
<1>1. IsInjective(out) /\ ToSet(out) \subseteq {c}
  BY ShortLists
<1>2. DOMAIN ds \ DOMAIN cs = {}
  OBVIOUS
<1>3. QED
  BY <1>1, <1>2, AlikeYields

(* Nothing changes. *)
LEMMA SameYields ==
  ASSUME NEW cs, Shape(cs), NEW c
  PROVE  /\ Yields(cs, c, SameResult(cs, c)) /\ Yields(cs, c, NoResult(cs))
         /\ Unmasked(cs, SameResult(cs, c)) /\ Unmasked(cs, NoResult(cs))
         /\ Rooted(cs) => Rooted(SameResult(cs, c).ctx) /\ Rooted(NoResult(cs).ctx)
<1>1. Grows(cs, cs) /\ \A x \in DOMAIN cs : Alike(cs[x], cs[x])
  BY DEF Grows, Later, Alike
<1>2. QED
  BY <1>1, OldYields DEF SameResult, NoResult

(* Contexts are destroyed. *)
LEMMA DestoryAlike ==
  ASSUME NEW cs, Shape(cs), NEW D
  PROVE  /\ DOMAIN Destory(cs, D) = DOMAIN cs /\ Grows(cs, Destory(cs, D))
         /\ \A x \in DOMAIN cs : /\ Alike(cs[x], Destory(cs, D)[x])
                                 /\ Destory(cs, D)[x].destory = (cs[x].destory \/ x \in D)
                                 /\ Destory(cs, D)[x].kind = cs[x].kind
                                 /\ Destory(cs, D)[x].child_num =
                                      cs[x].child_num - Cardinality({y \in D : cs[y].parent = x})
<1> DEFINE ds == Destory(cs, D)
<1>1. DOMAIN ds = DOMAIN cs
  BY DEF Destory
<1>2. ASSUME NEW x \in DOMAIN cs
      PROVE  /\ Alike(cs[x], ds[x]) /\ ds[x].destory = (cs[x].destory \/ x \in D)
             /\ ds[x].child_num = cs[x].child_num - Cardinality({y \in D : cs[y].parent = x})
             /\ Later(cs[x], ds[x]) /\ ds[x].kind = cs[x].kind
  <2>1. DOMAIN cs[x] = Field
    BY DEF Shape
  <2>2. ds[x] = [cs[x] EXCEPT !.destory = @ \/ x \in D,
                   !.child_num = @ - Cardinality({y \in D : cs[y].parent = x})]
    BY DEF Destory
  <2> HIDE DEF ds
  <2>3. QED
    BY <2>1, <2>2 DEF Field, Alike, Later
<1>3. Grows(cs, ds)
  BY <1>1, <1>2 DEF Grows
<1> HIDE DEF ds
<1>4. QED
  BY <1>1, <1>2, <1>3 DEF ds

(* They are destroyed then. *)
LEMMA DestoryEnds ==
  ASSUME NEW cs, Shape(cs), NEW D, NEW x \in DOMAIN cs, x \in D
  PROVE  Destory(cs, D)[x].destory
<1> DEFINE r == Destory(cs, D)[x]
<1>1. r = [cs[x] EXCEPT !.destory = @ \/ x \in D,
                        !.child_num = @ - Cardinality({y \in D : cs[y].parent = x})]
  BY DEF Destory
<1>2. DOMAIN cs[x] = Field
  BY DEF Shape
<1> HIDE DEF r
<1>3. r.destory
  BY <1>1, <1>2 DEF Field
<1>4. QED
  BY <1>3 DEF r

(* A call that destroys. *)
LEMMA DestroyedYields ==
  ASSUME NEW cs, Shape(cs), NEW c \in DOMAIN cs, NEW D
  PROVE  LET r == DestroyedResult(cs, D)
         IN  Yields(cs, c, r) /\ Unmasked(cs, r) /\ (Rooted(cs) => Rooted(r.ctx))
<1> DEFINE ds == Destory(cs, D)
<1>1. DOMAIN ds = DOMAIN cs /\ Grows(cs, ds) /\ \A x \in DOMAIN cs : Alike(cs[x], ds[x])
  BY DestoryAlike
<1> HIDE DEF ds
<1>2. DestroyedResult(cs, D) = Result(ds, <<>>, -Cardinality(D))
  BY DEF DestroyedResult, ds
<1>3. QED
  BY <1>1, <1>2, OldYields

(* An attempt failed for good. *)
LEMMA FailedYields ==
  ASSUME NEW cs, Shape(cs), NEW c \in DOMAIN cs, NEW D, NEW t, NEW n
  PROVE  LET r == DestroyedResult([cs EXCEPT ![c].retry[t] = n], D)
         IN  Yields(cs, c, r) /\ Unmasked(cs, r) /\ (Rooted(cs) => Rooted(r.ctx))
<1> DEFINE bs == [cs EXCEPT ![c].retry[t] = n]
           ds == Destory(bs, D)
<1>1. Same(cs, bs) /\ Shape(bs)
  BY RetrySame, SameShape
<1>2. \A x \in DOMAIN cs : Alike(cs[x], bs[x])
  <2>1. DOMAIN cs[c] = Field
    BY DEF Shape
  <2>2. bs[c] = [cs[c] EXCEPT !.retry = [@ EXCEPT ![t] = n]]
    OBVIOUS
  <2>3. \A x \in DOMAIN cs : x # c => bs[x] = cs[x]
    OBVIOUS
  <2> HIDE DEF bs
  <2>4. Alike(cs[c], bs[c])
    BY <2>1, <2>2 DEF Field, Alike
  <2>5. QED
    BY <2>3, <2>4 DEF Alike
<1> HIDE DEF bs
<1>3. DOMAIN ds = DOMAIN bs /\ Grows(bs, ds) /\ \A x \in DOMAIN bs : Alike(bs[x], ds[x])
  BY <1>1, DestoryAlike
<1> HIDE DEF ds
<1>4. DOMAIN ds = DOMAIN cs /\ Grows(cs, ds) /\ \A x \in DOMAIN cs : Alike(cs[x], ds[x])
  <2>1. DOMAIN bs = DOMAIN cs /\ Grows(cs, bs)
    BY <1>1, SameGrows DEF Same
  <2>2. QED
    BY <1>2, <1>3, <2>1, GrowsTrans DEF Alike
<1>5. DestroyedResult(bs, D) = Result(ds, <<>>, -Cardinality(D))
  BY DEF DestroyedResult, ds
<1>6. Yields(cs, c, DestroyedResult(bs, D)) /\ Unmasked(cs, DestroyedResult(bs, D))
      /\ (Rooted(cs) => Rooted(DestroyedResult(bs, D).ctx))
  BY <1>4, <1>5, OldYields
<1>7. QED
  BY <1>6 DEF bs

(* freeze. *)
LEMMA FrozenYields ==
  ASSUME NEW cs, Shape(cs), NEW c \in DOMAIN cs
  PROVE  LET r == FrozenResult(cs, c)
         IN  Yields(cs, c, r) /\ Unmasked(cs, r) /\ (Rooted(cs) => Rooted(r.ctx))
<1> DEFINE ds == [cs EXCEPT ![c].freezing = TRUE]
           r == Result(ds, <<c>>, 0)
<1>1. DOMAIN ds = DOMAIN cs /\ \A x \in DOMAIN cs : x # c => ds[x] = cs[x]
  OBVIOUS
<1>2. /\ ds[c].completed = cs[c].completed /\ ds[c].available = cs[c].available
      /\ ds[c].asleep = cs[c].asleep /\ ds[c].parent = cs[c].parent
  <2>1. DOMAIN cs[c] = Field
    BY DEF Shape
  <2>2. ds[c] = [cs[c] EXCEPT !.freezing = TRUE]
    OBVIOUS
  <2> HIDE DEF ds
  <2>3. QED
    BY <2>1, <2>2 DEF Field
<1>3. Grows(cs, ds)
  BY FrozenSame, SameGrows
<1>4. r.ctx = ds /\ r.out = <<c>>
  BY ResultFields
<1>5. FrozenResult(cs, c) = r
  BY DEF FrozenResult
<1> HIDE DEF ds, r
<1>6. Turns(cs, ds, {c}, {c})
  BY <1>1, <1>2, <1>3 DEF Turns, AllSeparated, Separated
<1>7. (Awake(cs) => Awake(ds)) /\ (Rooted(cs) => Rooted(ds))
  BY <1>1, <1>2 DEF Awake, Rooted
<1>8. IsInjective(<<c>>) /\ ToSet(<<c>>) = {c}
  BY ShortLists
<1>9. Yields(cs, c, r)
  BY <1>1, <1>4, <1>6, <1>7, <1>8 DEF Yields
<1>10. Unmasked(cs, r)
  BY <1>1, <1>2, <1>4 DEF Unmasked
<1>11. QED
  BY <1>4, <1>5, <1>7, <1>9, <1>10

(* Tasks are masked. *)
LEMMA MarksTurns ==
  ASSUME NEW cs, NEW ds, NEW X, Marks(cs, ds, X), X \subseteq DOMAIN cs
  PROVE  /\ Turns(cs, ds, {}, X) /\ (Awake(cs) => Awake(ds)) /\ (Rooted(cs) => Rooted(ds))
         /\ Rooted(ds) => Rooted(cs)
<1>1. /\ DOMAIN ds = DOMAIN cs /\ Grows(cs, ds)
      /\ \A x \in DOMAIN cs : Marked(cs[x], ds[x])
  BY SameGrows DEF Marks, Same
<1>2. Rooted(cs) <=> Rooted(ds)
  BY <1>1 DEF Marked, Kept, Rooted
<1>3. Rooted(cs) => \A x \in DOMAIN cs : x \notin X => ds[x] = cs[x]
  BY DEF Marks
<1>4. AllSeparated(cs) => AllSeparated(ds)
  BY <1>1 DEF Marked, AllSeparated
<1>5. Turns(cs, ds, {}, X)
  BY <1>1, <1>2, <1>3, <1>4 DEF Turns, Marked
<1>6. Awake(cs) => Awake(ds)
  BY <1>1 DEF Marked, Awake
<1>7. QED
  BY <1>2, <1>5, <1>6

(* A route. *)
LEMMA RouteYields ==
  ASSUME NEW cs, Shape(cs), NEW c \in DOMAIN cs, NEW t, NEW R
  PROVE  LET r == RouteResult(cs, c, t, R)
         IN  Yields(cs, c, r) /\ (Rooted(cs) => Rooted(r.ctx))
<1>1. PICK T : RouteResult(cs, c, t, R) = Result(CompleteAll(cs, c, T), <<c>>, 0)
  BY DEF RouteResult
<1> DEFINE ds == CompleteAll(cs, c, T)
           r == Result(ds, <<c>>, 0)
<1>2. Marks(cs, ds, {c})
  BY CompleteAllMarks
<1> HIDE DEF ds
<1>3. Turns(cs, ds, {}, {c}) /\ (Awake(cs) => Awake(ds)) /\ (Rooted(cs) => Rooted(ds))
  BY <1>2, MarksTurns
<1>4. Turns(cs, ds, {c}, {c}) /\ DOMAIN ds = DOMAIN cs
  BY <1>2, <1>3 DEF Turns, Marks, Same
<1>5. r.ctx = ds /\ r.out = <<c>>
  BY ResultFields
<1> HIDE DEF r
<1>6. IsInjective(<<c>>) /\ ToSet(<<c>>) = {c}
  BY ShortLists
<1>7. Yields(cs, c, r)
  BY <1>3, <1>4, <1>5, <1>6 DEF Yields
<1>8. QED
  BY <1>1, <1>3, <1>5, <1>7 DEF r, ds

(* New contexts and the output are blank roots. *)
LEMMA BlankRoots ==
  /\ \A p : Blank(Context("plain", p)) /\ Context("plain", p).parent = p
  /\ \A t : Blank(LoopContext(t)) /\ LoopContext(t).parent = 0
  /\ \A c : Blank(OutputContext(c)) /\ OutputContext(c).parent = 0
BY DEF Blank, Context, LoopContext, OutputContext, Separated

(* A context is added. *)
LEMMA AppendYields ==
  ASSUME NEW cs, Shape(cs), NEW r, Blank(r), r.parent = 0
  PROVE  LET ds == Append(cs, r)
             x == Len(cs) + 1
         IN  /\ DOMAIN ds \ DOMAIN cs = {x} /\ Grows(cs, ds) /\ ds[x] = r
             /\ \A y \in DOMAIN cs : Alike(cs[y], ds[y])
             /\ \A y \in DOMAIN ds \ DOMAIN cs : Blank(ds[y]) /\ ds[y].parent = 0
<1> DEFINE ds == Append(cs, r)
           x == Len(cs) + 1
<1>1. /\ DOMAIN ds = 1 .. Len(cs) + 1 /\ \A y \in DOMAIN cs : ds[y] = cs[y]
      /\ ds[x] = r
  BY AppendFacts
<1>2. DOMAIN cs = 1 .. Len(cs) /\ Len(cs) \in Nat
  BY ShapeLen
<1> HIDE DEF ds
<1>3. DOMAIN ds \ DOMAIN cs = {x} /\ DOMAIN cs \subseteq DOMAIN ds
  BY <1>1, <1>2
<1>4. Grows(cs, ds)
  BY <1>1, <1>3 DEF Grows, Later
<1>5. \A y \in DOMAIN cs : Alike(cs[y], ds[y])
  BY <1>1 DEF Alike
<1>6. QED
  BY <1>1, <1>3, <1>4, <1>5 DEF ds

(* AsyncContext.create. *)
LEMMA NewYields ==
  ASSUME NEW cs, Shape(cs), NEW c \in DOMAIN cs
  PROVE  /\ Yields(cs, c, NewResult(cs)) /\ Yields(cs, c, ForkResult(cs, c))
         /\ Unmasked(cs, NewResult(cs)) /\ Unmasked(cs, ForkResult(cs, c))
         /\ Rooted(cs) => Rooted(NewResult(cs).ctx) /\ Rooted(ForkResult(cs, c).ctx)
<1> DEFINE r == Context("plain", 0)
           ds == Append(cs, r)
           x == Len(cs) + 1
<1>1. Blank(r) /\ r.parent = 0
  BY BlankRoots
<1> HIDE DEF r
<1>2. /\ DOMAIN ds \ DOMAIN cs = {x} /\ Grows(cs, ds)
      /\ \A y \in DOMAIN cs : Alike(cs[y], ds[y])
      /\ \A y \in DOMAIN ds \ DOMAIN cs : Blank(ds[y]) /\ ds[y].parent = 0
  BY <1>1, AppendYields
<1> HIDE DEF ds, x
<1>3. c # x
  BY <1>2
<1>4. /\ IsInjective(<<x>>) /\ ToSet(<<x>>) = {x}
      /\ IsInjective(<<c, x>>) /\ ToSet(<<c, x>>) = {c, x}
  BY <1>3, ShortLists
<1>5. LET s == Result(ds, <<x>>, 1)
      IN  Yields(cs, c, s) /\ Unmasked(cs, s) /\ (Rooted(cs) => Rooted(s.ctx))
  BY <1>2, <1>4, AlikeYields
<1>6. LET s == Result(ds, <<c, x>>, 1)
      IN  Yields(cs, c, s) /\ Unmasked(cs, s) /\ (Rooted(cs) => Rooted(s.ctx))
  BY <1>2, <1>4, AlikeYields
<1>7. NewResult(cs) = Result(ds, <<x>>, 1)
  BY DEF NewResult, ds, x, r
<1>8. ForkResult(cs, c) = Result(ds, <<c, x>>, 1)
  <2>1. <<c>> \o <<x>> = <<c, x>>
    <3> DEFINE S == {c, x}
               s == <<c>> \o <<x>>
    <3>1. c \in S /\ x \in S
      OBVIOUS
    <3> HIDE DEF S
    <3>2. <<c>> \in Seq(S) /\ <<x>> \in Seq(S) /\ Len(<<c>>) = 1 /\ Len(<<x>>) = 1
      BY <3>1
    <3>3. /\ s \in Seq(S) /\ Len(s) = 1 + 1
          /\ \A i \in 1 .. 1 + 1 : s[i] = IF i <= 1 THEN <<c>>[i] ELSE <<x>>[i - 1]
      BY <3>2, ConcatProperties
    <3> HIDE DEF s
    <3>4. s \in [1 .. 2 -> S] /\ s[1] = c /\ s[2] = x
      BY <3>3
    <3>5. s = <<c, x>>
      BY <3>4
    <3>6. QED
      BY <3>5 DEF s
  <2>2. QED
    BY <1>7, <2>1 DEF ForkResult, Result
<1>9. QED
  BY <1>5, <1>6, <1>7, <1>8

(* create_child. *)
LEMMA ChildrenYields ==
  ASSUME NEW cs, Shape(cs), NEW c \in DOMAIN cs, NEW k \in Nat
  PROVE  Yields(cs, c, ChildrenResult(cs, c, k)) /\ Unmasked(cs, ChildrenResult(cs, c, k))
<1> DEFINE bs == [cs EXCEPT ![c].child_num = @ + k]
           t == [i \in 1 .. k |-> Context("plain", c)]
           ds == bs \o t
           out == [i \in 1 .. k |-> Len(cs) + i]
           L == Len(cs)
<1>0. L \in Nat /\ DOMAIN cs = 1 .. L
  BY ShapeLen
<1>1. /\ DOMAIN bs = DOMAIN cs /\ Len(bs) = L /\ bs = [x \in DOMAIN bs |-> bs[x]]
      /\ \A x \in DOMAIN cs : Alike(cs[x], bs[x]) /\ Later(cs[x], bs[x])
  <2>1. DOMAIN bs = DOMAIN cs /\ bs = [x \in DOMAIN bs |-> bs[x]]
    OBVIOUS
  <2>2. \A x \in DOMAIN cs : x # c => bs[x] = cs[x]
    OBVIOUS
  <2>3. bs[c] = [cs[c] EXCEPT !.child_num = @ + k]
    OBVIOUS
  <2> HIDE DEF bs
  <2>4. Len(bs) = L
    BY <2>1, <1>0
  <2>5. DOMAIN cs[c] = Field
    BY DEF Shape
  <2>6. Alike(cs[c], bs[c]) /\ Later(cs[c], bs[c])
    BY <2>3, <2>5 DEF Field, Alike, Later
  <2>7. QED
    BY <2>1, <2>2, <2>4, <2>6 DEF Alike, Later
<1>2. t = [i \in 1 .. k |-> t[i]] /\ \A i \in 1 .. k : t[i] = Context("plain", c)
  OBVIOUS
<1>3. /\ DOMAIN out = 1 .. k /\ \A i \in 1 .. k : out[i] = L + i
  OBVIOUS
<1> HIDE DEF bs, t, out, L
<1>4. /\ Len(ds) = L + k /\ DOMAIN ds = 1 .. L + k
      /\ \A x \in DOMAIN cs : ds[x] = bs[x]
      /\ \A x \in L + 1 .. L + k : ds[x] = t[x - L]
  BY <1>0, <1>1, <1>2, JoinFacts
<1> HIDE DEF ds
<1>5. DOMAIN ds \ DOMAIN cs = L + 1 .. L + k /\ DOMAIN cs \subseteq DOMAIN ds
  BY <1>0, <1>4
<1>6. \A x \in L + 1 .. L + k : x - L \in 1 .. k /\ L + (x - L) = x
  BY <1>0
<1>7. \A i \in 1 .. k : L + i \in L + 1 .. L + k
  BY <1>0
<1>8. ToSet(out) = L + 1 .. L + k
  BY <1>3, <1>6, <1>7 DEF ToSet
<1>9. IsInjective(out)
  BY <1>0, <1>3 DEF IsInjective
<1>10. \A x \in DOMAIN ds \ DOMAIN cs : Blank(ds[x])
  <2>1. \A x \in L + 1 .. L + k : ds[x] = Context("plain", c)
    BY <1>2, <1>4, <1>6
  <2>2. Blank(Context("plain", c))
    BY BlankRoots
  <2>3. QED
    BY <1>5, <2>1, <2>2
<1>11. Grows(cs, ds) /\ \A x \in DOMAIN cs : Alike(cs[x], ds[x])
  BY <1>1, <1>4, <1>5 DEF Grows
<1>12. LET s == Result(ds, out, k)
       IN  Yields(cs, c, s) /\ Unmasked(cs, s)
  BY <1>5, <1>8, <1>9, <1>10, <1>11, AlikeYields
<1>13. ChildrenResult(cs, c, k) = Result(ds, out, k)
  BY DEF ChildrenResult, ds, bs, t, out, L
<1>14. QED
  BY <1>12, <1>13

(* A loop task's generator yields. *)
LEMMA YieldYields ==
  ASSUME NEW cs, Shape(cs), NEW c \in DOMAIN cs, NEW t
  PROVE  LET r == YieldResult(cs, c, t)
         IN  Yields(cs, c, r) /\ Unmasked(cs, r) /\ (Rooted(cs) => Rooted(r.ctx))
<1> DEFINE a == Context("plain", 0)
           b == LoopContext(t)
           L == Len(cs)
           x == L + 1
           y == L + 2
<1>0. L \in Nat /\ DOMAIN cs = 1 .. L
  BY ShapeLen
<1>1. Blank(a) /\ a.parent = 0 /\ Blank(b) /\ b.parent = 0
  BY BlankRoots
<1> HIDE DEF a, b
<1>2. CASE cs[c].kind = "loop"
  <2> DEFINE ds == Append(cs, a)
  <2>1. /\ DOMAIN ds \ DOMAIN cs = {x} /\ Grows(cs, ds)
        /\ \A z \in DOMAIN cs : Alike(cs[z], ds[z])
        /\ \A z \in DOMAIN ds \ DOMAIN cs : Blank(ds[z]) /\ ds[z].parent = 0
    BY <1>1, AppendYields
  <2> HIDE DEF ds, x
  <2>2. x # c
    BY <2>1
  <2>3. IsInjective(<<x, c>>) /\ ToSet(<<x, c>>) = {x, c}
    BY <2>2, ShortLists
  <2>4. LET s == Result(ds, <<x, c>>, 1)
        IN  Yields(cs, c, s) /\ Unmasked(cs, s) /\ (Rooted(cs) => Rooted(s.ctx))
    BY <2>1, <2>3, AlikeYields
  <2>5. YieldResult(cs, c, t) = Result(ds, <<x, c>>, 1)
    BY <1>2 DEF YieldResult, ds, x, a
  <2>6. QED
    BY <2>4, <2>5
<1>3. CASE cs[c].kind # "loop"
  <2> DEFINE j == <<a, b>>
             ds == cs \o j
  <2>1. j = [i \in 1 .. 2 |-> j[i]] /\ j[1] = a /\ j[2] = b
    OBVIOUS
  <2> HIDE DEF j
  <2>2. /\ DOMAIN ds = 1 .. L + 2 /\ \A z \in DOMAIN cs : ds[z] = cs[z]
        /\ \A z \in L + 1 .. L + 2 : ds[z] = j[z - L]
    BY <2>1, JoinFacts DEF Shape
  <2> HIDE DEF ds
  <2>3. x - L = 1 /\ y - L = 2 /\ x \in L + 1 .. L + 2 /\ y \in L + 1 .. L + 2 /\ x # y
    BY <1>0
  <2>4. ds[x] = a /\ ds[y] = b
    <3>1. ds[x] = j[x - L] /\ ds[y] = j[y - L]
      BY <2>2, <2>3
    <3>2. QED
      BY <2>1, <2>3, <3>1
  <2>5. DOMAIN ds \ DOMAIN cs = {x, y} /\ DOMAIN cs \subseteq DOMAIN ds
    BY <1>0, <2>2
  <2> HIDE DEF x, y
  <2>6. Grows(cs, ds)
    BY <2>2, <2>5 DEF Grows, Later
  <2>7. \A z \in DOMAIN cs : Alike(cs[z], ds[z])
    BY <2>2 DEF Alike
  <2>8. IsInjective(<<x, y>>) /\ ToSet(<<x, y>>) = {x, y}
    BY <2>3, ShortLists
  <2>9. \A z \in DOMAIN ds \ DOMAIN cs : Blank(ds[z]) /\ ds[z].parent = 0
    BY <1>1, <2>4, <2>5
  <2>10. LET s == Result(ds, <<x, y>>, 2)
         IN  Yields(cs, c, s) /\ Unmasked(cs, s) /\ (Rooted(cs) => Rooted(s.ctx))
    BY <2>5, <2>6, <2>7, <2>8, <2>9, AlikeYields
  <2>11. YieldResult(cs, c, t) = Result(ds, <<x, y>>, 2)
    BY <1>3 DEF YieldResult, ds, j, x, y, L, a, b
  <2>12. QED
    BY <2>10, <2>11
<1>4. QED
  BY <1>2, <1>3

(* SinkNode.call. *)
LEMMA SinkYields ==
  ASSUME NEW cs, Shape(cs), NEW n, Tally(cs, n), NEW c \in Ids(cs)
  PROVE  LET r == SinkResult(cs, c)
         IN  /\ Yields(cs, c, r) /\ Unmasked(cs, r) /\ (Rooted(cs) => Rooted(r.ctx))
             /\ r.ctx[c].destory
             /\ \A x \in DOMAIN r.ctx \ DOMAIN cs : r.ctx[x].kind = "output"
<1> DEFINE D == DoomedWithParent(cs, c)
           bs == Destory(cs, D)
           o == OutputContext(c)
           ds == Append(bs, o)
           x == Len(bs) + 1
<1>0. c \in DOMAIN cs /\ cs[c].kind # "output"
  BY DEF Ids
<1>1. ~cs[c].destory => c \in D
  BY <1>0, DoomedCounted DEF DoomedWithParent
<1>2. D \subseteq Counted(cs)
  <2> DEFINE p == cs[c].parent
  <2>1. Doomed(cs, c) \subseteq Counted(cs)
    BY <1>0, DoomedCounted
  <2>2. p # 0 => p \in DOMAIN cs /\ cs[p].kind # "output"
    BY <1>0 DEF Shape
  <2> HIDE DEF p
  <2>3. p # 0 => Doomed(cs, p) \subseteq Counted(cs)
    BY <2>2, DoomedCounted
  <2>4. QED
    BY <2>1, <2>3 DEF DoomedWithParent, p
<1> HIDE DEF D
<1>3. /\ DOMAIN bs = DOMAIN cs /\ Grows(cs, bs)
      /\ \A y \in DOMAIN cs : Alike(cs[y], bs[y])
      /\ \A y \in DOMAIN cs : y \in D => bs[y].destory
  <2>1. DOMAIN bs = DOMAIN cs /\ Grows(cs, bs)
    BY DestoryAlike
  <2>2. \A y \in DOMAIN cs : Alike(cs[y], bs[y])
    BY DestoryAlike
  <2>3. ASSUME NEW y \in D, y \in DOMAIN cs PROVE bs[y].destory
    BY <2>3, DestoryEnds
  <2>4. QED
    BY <2>1, <2>2, <2>3
<1>4. Shape(bs) /\ Len(bs) = Len(cs)
  BY <1>2, DestoryTally
<1> HIDE DEF bs
<1>5. Blank(o) /\ o.parent = 0 /\ o.kind = "output"
  BY BlankRoots DEF OutputContext, Context
<1> HIDE DEF o
<1>6. /\ DOMAIN ds \ DOMAIN bs = {x} /\ Grows(bs, ds) /\ ds[x] = o
      /\ \A y \in DOMAIN bs : Alike(bs[y], ds[y])
      /\ \A y \in DOMAIN ds \ DOMAIN bs : Blank(ds[y]) /\ ds[y].parent = 0
  BY <1>4, <1>5, AppendYields
<1> HIDE DEF ds, x
<1>7. Grows(cs, ds) /\ \A y \in DOMAIN cs : Alike(cs[y], ds[y])
  BY <1>3, <1>6, GrowsTrans DEF Alike
<1>8. IsInjective(<<x>>) /\ ToSet(<<x>>) = {x}
  BY ShortLists
<1>9. LET s == Result(ds, <<x>>, -Cardinality(D))
      IN  Yields(cs, c, s) /\ Unmasked(cs, s) /\ (Rooted(cs) => Rooted(s.ctx))
  BY <1>3, <1>6, <1>7, <1>8, AlikeYields
<1>10. ds[c].destory
  BY <1>0, <1>1, <1>3, <1>6 DEF Grows, Later
<1>11. SinkResult(cs, c) = Result(ds, <<x>>, -Cardinality(D))
  <2>1. SinkResult(cs, c) = Result(ds, <<Len(cs) + 1>>, -Cardinality(D))
    BY DEF SinkResult, ds, bs, D, o
  <2>2. QED
    BY <2>1, <1>4 DEF x
<1>12. \A y \in DOMAIN ds \ DOMAIN cs : ds[y].kind = "output"
  BY <1>3, <1>5, <1>6
<1>13. QED
  BY <1>9, <1>10, <1>11, <1>12, ResultFields

(* complete(task) on what a call returned. *)
LEMMA ToldYields ==
  ASSUME NEW cs, NEW n, NEW r, Good(cs, n, r), NEW c \in DOMAIN cs, Yields(cs, c, r),
         NEW t \in Node
  PROVE  LET ds == Told(r, t).ctx
         IN  /\ DOMAIN ds = DOMAIN r.ctx /\ Grows(r.ctx, ds)
             /\ Turns(cs, ds, {c}, {c}) /\ (Awake(cs) => Awake(ds))
             /\ Rooted(r.ctx) => Rooted(ds)
             /\ \A x \in DOMAIN r.ctx : ds[x].completed \subseteq r.ctx[x].completed \cup {t}
<1> DEFINE C == {x \in ToSet(r.out) : r.ctx[x].kind # "loop"}
           bs == r.ctx
           ds == CompleteIn(bs, C, t)
<1>1. Told(r, t).ctx = ds
  <2>1. "ctx" \in DOMAIN r
    BY DEF Good, Result
  <2>2. QED
    BY <2>1 DEF Told
<1>2. /\ C \subseteq DOMAIN bs /\ \A x \in DOMAIN cs : x # c => x \notin C
      /\ Turns(cs, bs, {c}, {c}) /\ (Awake(cs) => Awake(bs)) /\ Shape(bs)
  <2>1. ToSet(r.out) \subseteq DOMAIN bs
    BY DEF Good, ToSet
  <2>2. QED
    BY <2>1 DEF Yields, Good
<1> HIDE DEF C, bs
<1>3. Marks(bs, ds, C) /\ \A x \in DOMAIN bs : ds[x].completed \subseteq bs[x].completed \cup {t}
  BY <1>2, CompleteInMarks
<1> HIDE DEF ds
<1>4. /\ Turns(bs, ds, {}, C) /\ (Awake(bs) => Awake(ds)) /\ (Rooted(bs) => Rooted(ds))
      /\ Rooted(ds) => Rooted(bs)
  BY <1>2, <1>3, MarksTurns
<1>5. DOMAIN ds = DOMAIN bs /\ Grows(bs, ds) /\ Grows(cs, ds) /\ DOMAIN cs \subseteq DOMAIN bs
  <2>1. Grows(cs, bs) /\ Grows(bs, ds)
    BY <1>2, <1>4 DEF Turns
  <2>2. QED
    BY <1>3, <2>1, GrowsTrans DEF Marks, Same, Grows
<1>6. Turns(cs, ds, {c}, {c})
  <2>1. ASSUME NEW x \in DOMAIN cs, x # c
        PROVE  /\ ds[x].freezing = cs[x].freezing
               /\ Rooted(ds) => /\ ds[x].completed = cs[x].completed
                                /\ ds[x].available = cs[x].available
    <3>1. /\ bs[x].freezing = cs[x].freezing
          /\ Rooted(bs) => /\ bs[x].completed = cs[x].completed
                           /\ bs[x].available = cs[x].available
      BY <1>2, <2>1 DEF Turns
    <3>2. /\ ds[x].freezing = bs[x].freezing
          /\ Rooted(ds) => /\ ds[x].completed = bs[x].completed
                           /\ ds[x].available = bs[x].available
      BY <1>2, <1>4, <1>5, <2>1 DEF Turns
    <3>3. QED
      BY <3>1, <3>2, <1>4
  <2>2. ASSUME NEW x \in DOMAIN ds \ DOMAIN cs PROVE ~ds[x].freezing
    <3>1. x \in DOMAIN bs /\ ~bs[x].freezing
      BY <1>2, <1>5, <2>2 DEF Turns
    <3>2. ds[x].freezing = bs[x].freezing
      BY <1>4, <3>1 DEF Turns
    <3>3. QED
      BY <3>1, <3>2
  <2>3. AllSeparated(cs) => AllSeparated(ds)
    BY <1>2, <1>4 DEF Turns
  <2>4. QED
    BY <1>5, <2>1, <2>2, <2>3 DEF Turns
<1>7. QED
  BY <1>1, <1>2, <1>3, <1>4, <1>5, <1>6 DEF bs

(* A task is tried again; the tasks that wait change. *)
Retrying(cs, c, t, n, A) == [cs EXCEPT ![c].retry[t] = n, ![c].asleep = A]
Waiting(cs, c, A) == [cs EXCEPT ![c].asleep = A]

(* No other field is touched. *)
LEMMA RetryTurns ==
  ASSUME NEW cs, Shape(cs), NEW c \in DOMAIN cs, NEW t, NEW n, NEW A
  PROVE  /\ LET ds == Retrying(cs, c, t, n, A)
            IN  /\ DOMAIN ds = DOMAIN cs /\ Turns(cs, ds, {}, {}) /\ (Rooted(cs) => Rooted(ds))
                /\ ds[c].completed = cs[c].completed
         /\ LET ds == Waiting(cs, c, A)
            IN  /\ DOMAIN ds = DOMAIN cs /\ Turns(cs, ds, {}, {}) /\ (Rooted(cs) => Rooted(ds))
                /\ Rooted(ds) => Rooted(cs)
                /\ \A x \in DOMAIN cs : /\ ds[x].completed = cs[x].completed
                                        /\ ds[x].kind = cs[x].kind
                                        /\ ds[x].destory = cs[x].destory
                                        /\ x # c => ds[x] = cs[x]
                /\ ds[c].asleep = A
<1>0. DOMAIN cs[c] = Field
  BY DEF Shape
<1> DEFINE f == [cs[c].retry EXCEPT ![t] = n]
           r1 == [cs[c] EXCEPT !.retry = f, !.asleep = A]
           r2 == [cs[c] EXCEPT !.asleep = A]
<1>1. [cs EXCEPT ![c].retry[t] = n, ![c].asleep = A] = [cs EXCEPT ![c] = r1]
  OBVIOUS
<1>2. [cs EXCEPT ![c].asleep = A] = [cs EXCEPT ![c] = r2]
  OBVIOUS
<1> HIDE DEF f
<1>3. /\ r1.completed = cs[c].completed /\ r1.available = cs[c].available
      /\ r1.freezing = cs[c].freezing /\ r1.parent = cs[c].parent
  BY <1>0 DEF Field
<1>4. /\ r2.completed = cs[c].completed /\ r2.available = cs[c].available
      /\ r2.freezing = cs[c].freezing /\ r2.parent = cs[c].parent
      /\ r2.kind = cs[c].kind /\ r2.destory = cs[c].destory /\ r2.asleep = A
  BY <1>0 DEF Field
<1>5. Grows(cs, [cs EXCEPT ![c] = r1]) /\ Grows(cs, [cs EXCEPT ![c] = r2])
  <2>1. Same(cs, [cs EXCEPT ![c] = r1]) /\ Same(cs, [cs EXCEPT ![c] = r2])
    <3>1. /\ Same(cs, [cs EXCEPT ![c].retry[t] = n, ![c].asleep = A])
          /\ Same(cs, [cs EXCEPT ![c].asleep = A])
      BY RetrySame
    <3> HIDE DEF r1, r2
    <3>2. QED
      BY <1>1, <1>2, <3>1
  <2>2. QED
    BY <2>1, SameGrows
<1> HIDE DEF r1, r2
<1>6. ASSUME NEW r, Grows(cs, [cs EXCEPT ![c] = r]),
             r.completed = cs[c].completed, r.available = cs[c].available,
             r.freezing = cs[c].freezing, r.parent = cs[c].parent
      PROVE  LET d == [cs EXCEPT ![c] = r]
             IN  /\ DOMAIN d = DOMAIN cs /\ Turns(cs, d, {}, {})
                 /\ Rooted(cs) => Rooted(d)
                 /\ Rooted(d) => Rooted(cs)
                 /\ \A x \in DOMAIN cs : d[x].completed = cs[x].completed /\ (x # c => d[x] = cs[x])
                 /\ d[c] = r
  <2> DEFINE d == [cs EXCEPT ![c] = r]
  <2>1. DOMAIN d = DOMAIN cs /\ d[c] = r /\ \A x \in DOMAIN cs : x # c => d[x] = cs[x]
    OBVIOUS
  <2>2. Grows(cs, d)
    BY <1>6
  <2> HIDE DEF d
  <2>3. Turns(cs, d, {}, {})
    BY <2>1, <2>2, <1>6 DEF Turns, AllSeparated, Separated
  <2>4. (Rooted(cs) => Rooted(d)) /\ (Rooted(d) => Rooted(cs))
    BY <2>1, <1>6 DEF Rooted
  <2>5. \A x \in DOMAIN cs : d[x].completed = cs[x].completed
    BY <2>1, <1>6
  <2>6. QED
    BY <2>1, <2>3, <2>4, <2>5 DEF d
<1> DEFINE d1 == [cs EXCEPT ![c] = r1]
           d2 == [cs EXCEPT ![c] = r2]
<1>7. /\ DOMAIN d1 = DOMAIN cs /\ Turns(cs, d1, {}, {}) /\ (Rooted(cs) => Rooted(d1))
      /\ d1[c].completed = cs[c].completed
  BY <1>3, <1>5, <1>6
<1>8. /\ DOMAIN d2 = DOMAIN cs /\ Turns(cs, d2, {}, {}) /\ (Rooted(cs) => Rooted(d2))
      /\ Rooted(d2) => Rooted(cs)
      /\ \A x \in DOMAIN cs : d2[x].completed = cs[x].completed /\ (x # c => d2[x] = cs[x])
      /\ d2[c] = r2
  BY <1>4, <1>5, <1>6
<1> HIDE DEF d1, d2
<1>9. \A x \in DOMAIN cs : d2[x].kind = cs[x].kind /\ d2[x].destory = cs[x].destory
  BY <1>4, <1>8
<1>10. d2[c].asleep = A
  BY <1>4, <1>8
<1>11. QED
  BY <1>1, <1>2, <1>7, <1>8, <1>9, <1>10 DEF d1, d2, Retrying, Waiting
=============================================================================
