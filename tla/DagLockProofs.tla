--------------------------- MODULE DagLockProofs ----------------------------
(***************************************************************************)
(* The construction of a task graph, for any finite set of tasks and any   *)
(* order of iteration: what the memoising traversals store is the closure  *)
(* of the graph, and the bypass tasks of a task release what comes next.   *)
(*                                                                         *)
(* SmartRWLock is a read-write lock for any finite set of agents, any pool *)
(* size and any cancellation: its fields are exact, no wakeup is lost, and *)
(* it implements ReadWriteLock.                                            *)
(***************************************************************************)
EXTENDS Dag, SmartRWLock, FiniteSetTheorems, SequenceTheorems, WellFoundedInduction,
        TLAPS

-----------------------------------------------------------------------------
(* Numbers, and functions that iterate another.                            *)

(* Every set of natural numbers that is not empty has a least element. *)
LEMMA Least ==
  ASSUME NEW T, T \subseteq Nat, T # {}
  PROVE  \E x \in T : \A y \in T : x <= y
<1>1. PICK n \in T : TRUE
  OBVIOUS
<1> DEFINE F == {0 .. k : k \in {i \in T : i <= n}}
<1>2. IsFiniteSet(0 .. n)
  BY <1>1, FS_Interval
<1>3. IsWellFoundedOn(StrictSubsetOrdering(0 .. n), SUBSET (0 .. n))
  BY <1>2, FS_StrictSubsetOrderingWellFounded, FS_FiniteSubsetsOfFinite
<1>4. F \subseteq SUBSET (0 .. n) /\ F # {}
  BY <1>1
<1>5. PICK X \in F : \A Y \in F : <<Y, X>> \notin StrictSubsetOrdering(0 .. n)
  BY <1>3, <1>4, WFMin
<1>6. PICK x \in T : x <= n /\ X = 0 .. x
  BY <1>5
<1>7. ASSUME NEW y \in T PROVE x <= y
  <2> SUFFICES ASSUME y < x PROVE FALSE
    BY <1>1, <1>6
  <2>1. 0 .. y \in F
    BY <1>6, <1>1
  <2>2. (0 .. y) \subseteq (0 .. x) /\ 0 .. y # 0 .. x
    BY <1>6
  <2> QED BY <2>1, <2>2, <1>5, <1>6, <1>4 DEF StrictSubsetOrdering
<1> QED BY <1>7

(* Induction on the natural numbers, with a set for the property. *)
LEMMA Reaches ==
  ASSUME NEW S, 0 \in S, \A n \in Nat : n \in S => n + 1 \in S
  PROVE  Nat \subseteq S
<1> SUFFICES ASSUME Nat \ S # {} PROVE FALSE
  OBVIOUS
<1>1. PICK x \in Nat \ S : \A y \in Nat \ S : x <= y
  BY Least
<1>2. x # 0 /\ x - 1 \in Nat /\ x - 1 \in S
  BY <1>1
<1>3. QED
  BY <1>1, <1>2

(* A function can be iterated. *)
LEMMA Iterates ==
  ASSUME NEW V, NEW v \in V, NEW G \in [V -> V]
  PROVE  \E f \in [Nat -> V] : f[0] = v /\ \A n \in Nat : f[n + 1] = G[f[n]]
<1> DEFINE Solves(f, k) == /\ f \in [Nat -> V] /\ f[0] = v
                           /\ \A n \in Nat : n < k => f[n + 1] = G[f[n]]
           Solvable == {k \in Nat : \E f : Solves(f, k)}
<1>1. 0 \in Solvable
  <2>1. Solves([n \in Nat |-> v], 0)
    OBVIOUS
  <2>2. QED
    BY <2>1
<1>2. ASSUME NEW k \in Nat, k \in Solvable PROVE k + 1 \in Solvable
  <2>1. PICK f : Solves(f, k)
    BY <1>2
  <2> DEFINE g == [f EXCEPT ![k + 1] = G[f[k]]]
  <2>2. g \in [Nat -> V] /\ g[0] = v
    BY <2>1
  <2>3. \A n \in Nat : n <= k => g[n] = f[n]
    BY <2>1
  <2>4. g[k + 1] = G[f[k]]
    BY <2>1
  <2> HIDE DEF g
  <2>5. ASSUME NEW n \in Nat, n < k + 1 PROVE g[n + 1] = G[g[n]]
    <3>1. g[n] = f[n]
      BY <2>3, <2>5
    <3>2. CASE n = k
      BY <2>4, <3>1, <3>2
    <3>3. CASE n # k
      <4>1. n < k /\ n + 1 <= k /\ n + 1 \in Nat
        BY <2>5, <3>3
      <4>2. QED
        BY <2>1, <2>3, <3>1, <4>1
    <3>4. QED
      BY <3>2, <3>3
  <2>6. Solves(g, k + 1)
    BY <2>2, <2>5
  <2>7. QED
    BY <2>6
<1>3. ASSUME NEW k \in Nat PROVE \E f : Solves(f, k)
  <2>1. k \in Solvable
    <3> HIDE DEF Solvable
    <3> QED BY <1>1, <1>2, Reaches
  <2>2. QED
    BY <2>1
<1>4. ASSUME NEW k \in Nat, NEW f, Solves(f, k), NEW g, Solves(g, k + 1)
      PROVE  f[k] = g[k]
  <2> DEFINE Equal == {n \in Nat : n <= k => f[n] = g[n]}
  <2>1. 0 \in Equal
    BY <1>4
  <2>2. ASSUME NEW n \in Nat, n \in Equal PROVE n + 1 \in Equal
    <3>1. CASE n < k
      <4>1. f[n] = g[n] /\ n < k + 1
        BY <2>2, <3>1
      <4>2. f[n + 1] = G[f[n]] /\ g[n + 1] = G[g[n]]
        BY <1>4, <3>1, <4>1
      <4>3. QED
        BY <4>1, <4>2
    <3>2. CASE ~(n < k)
      BY <3>2
    <3>3. QED
      BY <3>1, <3>2
  <2>3. k \in Equal
    <3> HIDE DEF Equal
    <3> QED BY <2>1, <2>2, Reaches
  <2>4. QED
    BY <2>3
<1> DEFINE pick(n) == CHOOSE f : Solves(f, n)
           h == [n \in Nat |-> pick(n)[n]]
<1>5. \A n \in Nat : Solves(pick(n), n)
  BY <1>3
<1>6. h \in [Nat -> V] /\ h[0] = v
  <2> HIDE DEF pick
  <2> QED BY <1>5
<1>7. ASSUME NEW n \in Nat PROVE h[n + 1] = G[h[n]]
  <2>1. n + 1 \in Nat /\ h[n + 1] = pick(n + 1)[n + 1] /\ h[n] = pick(n)[n]
    OBVIOUS
  <2>2. Solves(pick(n), n) /\ Solves(pick(n + 1), n + 1)
    BY <1>5, <2>1
  <2> HIDE DEF pick, h
  <2>3. pick(n + 1)[n + 1] = G[pick(n + 1)[n]]
    BY <2>2
  <2>4. pick(n)[n] = pick(n + 1)[n]
    <3> HIDE DEF Solves
    <3> QED BY <1>4, <2>2
  <2>5. QED
    BY <2>1, <2>3, <2>4
<1>8. QED
  BY <1>6, <1>7

-----------------------------------------------------------------------------
(* Closures.                                                               *)

(* What is reachable in a bounded number of steps, one more at a time. *)
Wider(next, s) == [t \in DOMAIN next |-> s[t] \cup UNION {next[d] : d \in s[t]}]

Reach(next) ==
  CHOOSE f : f = [n \in Nat |-> IF n = 0 THEN next ELSE Wider(next, f[n - 1])]

LEMMA ReachSteps ==
  ASSUME NEW next, next \in [DOMAIN next -> SUBSET DOMAIN next]
  PROVE  /\ Reach(next) \in [Nat -> [DOMAIN next -> SUBSET DOMAIN next]]
         /\ Reach(next)[0] = next
         /\ \A n \in Nat : Reach(next)[n + 1] = Wider(next, Reach(next)[n])
         /\ Closure(next) = Reach(next)[Cardinality(DOMAIN next)]
<1> DEFINE D == DOMAIN next
           V == [D -> SUBSET D]
           G == [s \in V |-> Wider(next, s)]
<1>1. ASSUME NEW s \in V PROVE Wider(next, s) \in V
  BY DEF Wider
<1>2. G \in [V -> V]
  BY <1>1
<1>3. PICK f \in [Nat -> V] : f[0] = next /\ \A n \in Nat : f[n + 1] = G[f[n]]
  <2> HIDE DEF V, G
  <2>1. next \in V
    BY DEF V
  <2>2. QED
    BY <1>2, <2>1, Iterates
<1>4. \A n \in Nat : f[n + 1] = Wider(next, f[n])
  BY <1>3
<1> HIDE DEF V, G
<1>5. ASSUME NEW n \in Nat PROVE f[n] = IF n = 0 THEN next ELSE Wider(next, f[n - 1])
  <2>1. CASE n = 0
    BY <1>3, <2>1
  <2>2. CASE n # 0
    <3>1. n - 1 \in Nat /\ (n - 1) + 1 = n
      BY <2>2
    <3>2. f[(n - 1) + 1] = Wider(next, f[n - 1])
      BY <1>4, <3>1
    <3>3. QED
      BY <2>2, <3>1, <3>2
  <2>3. QED
    BY <2>1, <2>2
<1>6. f = [n \in Nat |-> IF n = 0 THEN next ELSE Wider(next, f[n - 1])]
  BY <1>3, <1>5
<1> DEFINE r == Reach(next)
<1>7. r = [n \in Nat |-> IF n = 0 THEN next ELSE Wider(next, r[n - 1])]
  BY <1>6 DEF Reach
<1>8. Closure(next) = r[Cardinality(DOMAIN next)]
  BY DEF Closure, Reach, Wider
<1> HIDE DEF r
<1>9. r[0] = next
  BY <1>7
<1>10. ASSUME NEW n \in Nat PROVE r[n + 1] = Wider(next, r[n])
  <2>1. n + 1 \in Nat /\ n + 1 # 0 /\ (n + 1) - 1 = n
    OBVIOUS
  <2>2. r[n + 1] = Wider(next, r[(n + 1) - 1])
    BY <1>7, <2>1
  <2>3. QED
    BY <2>1, <2>2
<1> DEFINE T == {n \in Nat : r[n] \in V}
<1>11. Nat \subseteq T
  <2>1. 0 \in T
    BY <1>9 DEF V
  <2>2. ASSUME NEW n \in Nat, n \in T PROVE n + 1 \in T
    BY <1>1, <1>10, <2>2
  <2> HIDE DEF T
  <2>3. QED
    BY <2>1, <2>2, Reaches
<1>12. r \in [Nat -> V]
  <2>1. \A n \in Nat : r[n] \in V
    BY <1>11
  <2>2. QED
    BY <1>7, <2>1
<1>13. QED
  BY <1>8, <1>9, <1>10, <1>12 DEF r, V

(* One step more at the far end is one step more at the near end. *)
LEMMA ReachFirst ==
  ASSUME NEW next, next \in [DOMAIN next -> SUBSET DOMAIN next], NEW n \in Nat,
         NEW t \in DOMAIN next
  PROVE  /\ Reach(next)[n + 1][t] = next[t] \cup UNION {Reach(next)[n][d] : d \in next[t]}
         /\ next[t] \subseteq Reach(next)[n][t]
         /\ Reach(next)[n][t] \subseteq Reach(next)[n + 1][t]
<1> DEFINE r == Reach(next)
           D == DOMAIN next
<1>1. /\ r \in [Nat -> [D -> SUBSET D]] /\ r[0] = next
      /\ \A k \in Nat : r[k + 1] = Wider(next, r[k])
  BY ReachSteps
<1> HIDE DEF r
<1>2. \A k \in Nat : \A x \in D : r[k + 1][x] = r[k][x] \cup UNION {next[d] : d \in r[k][x]}
  BY <1>1 DEF Wider
<1> DEFINE First1(k) == \A x \in D : r[k + 1][x] = next[x] \cup UNION {r[k][d] : d \in next[x]}
           Base(k) == \A x \in D : next[x] \subseteq r[k][x]
           T == {k \in Nat : First1(k)}
           B == {k \in Nat : Base(k)}
<1>3. Nat \subseteq B
  <2>1. 0 \in B
    BY <1>1
  <2>2. ASSUME NEW k \in Nat, k \in B PROVE k + 1 \in B
    <3>1. \A x \in D : r[k][x] \subseteq r[k + 1][x]
      BY <1>2
    <3>2. \A x \in D : next[x] \subseteq r[k][x]
      BY <2>2
    <3>3. QED
      BY <3>1, <3>2
  <2> HIDE DEF B
  <2>3. QED
    BY <2>1, <2>2, Reaches
<1>4. 0 \in T
  BY <1>1, <1>2
<1>5. ASSUME NEW k \in Nat, k \in T PROVE k + 1 \in T
  <2>1. ASSUME NEW x \in D
        PROVE  r[(k + 1) + 1][x] = next[x] \cup UNION {r[k + 1][d] : d \in next[x]}
    <3>1. next[x] \subseteq D
      OBVIOUS
    <3>2. r[k + 1][x] = next[x] \cup UNION {r[k][d] : d \in next[x]}
      BY <1>5
    <3>3. r[(k + 1) + 1][x] = r[k + 1][x] \cup UNION {next[e] : e \in r[k + 1][x]}
      BY <1>2
    <3>4. \A d \in next[x] : r[k + 1][d] = r[k][d] \cup UNION {next[e] : e \in r[k][d]}
      BY <1>2, <3>1
    <3>5. \A d \in next[x] : next[d] \subseteq r[k][d]
      BY <1>3, <3>1
    <3>6. ASSUME NEW y, y \in r[(k + 1) + 1][x]
          PROVE  y \in next[x] \cup UNION {r[k + 1][d] : d \in next[x]}
      <4>1. CASE y \in r[k + 1][x]
        BY <3>2, <3>4, <4>1
      <4>2. CASE \E e \in r[k + 1][x] : y \in next[e]
        <5>1. PICK e \in r[k + 1][x] : y \in next[e]
          BY <4>2
        <5>2. CASE e \in next[x]
          BY <3>4, <3>5, <5>1, <5>2
        <5>3. CASE \E d \in next[x] : e \in r[k][d]
          BY <3>4, <5>1, <5>3
        <5>4. QED
          BY <3>2, <5>1, <5>2, <5>3
      <4>3. QED
        BY <3>3, <3>6, <4>1, <4>2
    <3>7. ASSUME NEW y, y \in next[x] \cup UNION {r[k + 1][d] : d \in next[x]}
          PROVE  y \in r[(k + 1) + 1][x]
      <4>1. CASE y \in next[x]
        BY <3>2, <3>3, <4>1
      <4>2. CASE \E d \in next[x] : y \in r[k + 1][d]
        <5>1. PICK d \in next[x] : y \in r[k + 1][d]
          BY <4>2
        <5>2. CASE y \in r[k][d]
          BY <3>2, <3>3, <5>2
        <5>3. CASE \E e \in r[k][d] : y \in next[e]
          BY <3>2, <3>3, <5>3
        <5>4. QED
          BY <3>4, <5>1, <5>2, <5>3
      <4>3. QED
        BY <3>7, <4>1, <4>2
    <3>8. QED
      BY <3>6, <3>7
  <2>2. First1(k + 1)
    BY <2>1
  <2>3. QED
    BY <2>2
<1>6. n \in T
  <2> HIDE DEF T
  <2>1. QED
    BY <1>4, <1>5, Reaches
<1>7. QED
  BY <1>2, <1>3, <1>6 DEF r

(* In an acyclic graph the bounded number of steps is enough: the closure  *)
(* is closed at both ends, and descends.                                   *)
LEMMA ClosureFixed ==
  ASSUME NEW next, Acyclic(next)
  PROVE  /\ Closure(next) \in [DOMAIN next -> SUBSET DOMAIN next]
         /\ \A t \in DOMAIN next :
              /\ Closure(next)[t] = next[t] \cup UNION {Closure(next)[d] : d \in next[t]}
              /\ Closure(next)[t] = next[t] \cup UNION {next[d] : d \in Closure(next)[t]}
              /\ t \notin Closure(next)[t]
<1> DEFINE r == Reach(next)
           D == DOMAIN next
           N == Cardinality(D)
<1>1. next \in [D -> SUBSET D] /\ N \in Nat
  BY FS_CardinalityType DEF Acyclic
<1>2. PICK f : f \in [D -> 1 .. N] /\ \A t \in D : \A d \in next[t] : f[d] < f[t]
  BY DEF Acyclic
<1>3. /\ r \in [Nat -> [D -> SUBSET D]] /\ r[0] = next /\ Closure(next) = r[N]
      /\ \A k \in Nat : r[k + 1] = Wider(next, r[k])
  BY <1>1, ReachSteps
<1>4. \A k \in Nat : \A t \in D :
         /\ r[k + 1][t] = next[t] \cup UNION {r[k][d] : d \in next[t]}
         /\ next[t] \subseteq r[k][t] /\ r[k][t] \subseteq r[k + 1][t]
  BY <1>1, ReachFirst
<1> HIDE DEF r, N
<1>5. \A k \in Nat : \A t \in D : r[k + 1][t] = r[k][t] \cup UNION {next[d] : d \in r[k][t]}
  BY <1>3 DEF Wider
<1> DEFINE Far(k) == \A t \in D : \A e \in r[k + 1][t] \ r[k][t] : f[e] + k + 2 <= f[t]
           Down(k) == \A t \in D : \A e \in r[k][t] : f[e] < f[t]
           T == {k \in Nat : Far(k)}
           S == {k \in Nat : Down(k)}
<1>6. 0 \in T
  <2>1. ASSUME NEW t \in D, NEW e \in r[0 + 1][t] \ r[0][t] PROVE f[e] + 0 + 2 <= f[t]
    <3>1. PICK d \in r[0][t] : e \in next[d]
      BY <1>5, <2>1
    <3>2. d \in D /\ e \in D /\ d \in next[t]
      BY <1>1, <1>3, <3>1
    <3>3. f[e] < f[d] /\ f[d] < f[t]
      BY <1>2, <3>1, <3>2
    <3>4. f[e] \in Int /\ f[d] \in Int /\ f[t] \in Int
      BY <1>1, <1>2, <3>2
    <3>5. QED
      BY <3>3, <3>4
  <2>2. QED
    BY <2>1
<1>7. ASSUME NEW k \in Nat, k \in T PROVE k + 1 \in T
  <2>1. ASSUME NEW t \in D, NEW e \in r[(k + 1) + 1][t] \ r[k + 1][t]
        PROVE  f[e] + (k + 1) + 2 <= f[t]
    <3>1. PICK d \in r[k + 1][t] : e \in next[d]
      BY <1>5, <2>1
    <3>2. d \notin r[k][t]
      BY <1>5, <2>1, <3>1
    <3>3. f[d] + k + 2 <= f[t]
      BY <1>7, <3>1, <3>2
    <3>4. d \in D /\ e \in D
      <4>1. r[k + 1] \in [D -> SUBSET D]
        BY <1>3
      <4>2. QED
        BY <1>1, <3>1, <4>1
    <3>5. f[e] < f[d]
      BY <1>2, <3>1, <3>4
    <3>6. f[e] \in Int /\ f[d] \in Int /\ f[t] \in Int
      BY <1>1, <1>2, <3>4
    <3>7. QED
      BY <3>3, <3>5, <3>6
  <2>2. Far(k + 1)
    BY <2>1
  <2>3. QED
    BY <2>2
<1>8. N \in T
  <2> HIDE DEF T
  <2>1. QED
    BY <1>1, <1>6, <1>7, Reaches
<1>9. ASSUME NEW t \in D PROVE r[N + 1][t] = r[N][t]
  <2>1. ASSUME NEW e \in r[N + 1][t] \ r[N][t] PROVE FALSE
    <3>1. f[e] + N + 2 <= f[t]
      BY <1>8, <2>1
    <3>2. r[N + 1] \in [D -> SUBSET D]
      BY <1>1, <1>3
    <3>3. f[e] \in 1 .. N /\ f[t] \in 1 .. N
      BY <1>2, <2>1, <3>2
    <3>4. QED
      BY <1>1, <3>1, <3>3
  <2>2. QED
    BY <1>1, <1>4, <2>1
<1> DEFINE Last1(k) == \A t \in D : \A e \in r[k][t] : e \in next[t] \/ \E d \in r[k][t] : e \in next[d]
           L == {k \in Nat : Last1(k)}
<1>16. N \in L
  <2>1. 0 \in L
    BY <1>3
  <2>2. ASSUME NEW k \in Nat, k \in L PROVE k + 1 \in L
    <3>1. ASSUME NEW t \in D, NEW e \in r[k + 1][t]
          PROVE  e \in next[t] \/ \E d \in r[k + 1][t] : e \in next[d]
      <4>1. r[k + 1][t] = r[k][t] \cup UNION {next[d] : d \in r[k][t]}
        BY <1>5
      <4>2. e \in r[k][t] => e \in next[t] \/ \E d \in r[k][t] : e \in next[d]
        BY <2>2
      <4>3. QED
        BY <3>1, <4>1, <4>2
    <3>2. Last1(k + 1)
      BY <3>1
    <3>3. QED
      BY <3>2
  <2> HIDE DEF L
  <2>3. QED
    BY <1>1, <2>1, <2>2, Reaches
<1>10. ASSUME NEW t \in D
       PROVE  /\ r[N][t] = next[t] \cup UNION {r[N][d] : d \in next[t]}
              /\ r[N][t] = next[t] \cup UNION {next[d] : d \in r[N][t]}
  <2>1. r[N + 1][t] = r[N][t]
    BY <1>9
  <2>2. r[N + 1][t] = next[t] \cup UNION {r[N][d] : d \in next[t]} /\ next[t] \subseteq r[N][t]
    BY <1>1, <1>4
  <2>3. r[N + 1][t] = r[N][t] \cup UNION {next[d] : d \in r[N][t]}
    BY <1>1, <1>5
  <2>4. \A e \in r[N][t] : e \in next[t] \/ \E d \in r[N][t] : e \in next[d]
    BY <1>16
  <2>5. QED
    BY <2>1, <2>2, <2>3, <2>4
<1>11. 0 \in S
  BY <1>2, <1>3
<1>12. ASSUME NEW k \in Nat, k \in S PROVE k + 1 \in S
  <2>1. ASSUME NEW t \in D, NEW e \in r[k + 1][t] PROVE f[e] < f[t]
    <3>1. CASE e \in r[k][t]
      BY <1>12, <3>1
    <3>2. CASE \E d \in r[k][t] : e \in next[d]
      <4>1. PICK d \in r[k][t] : e \in next[d]
        BY <3>2
      <4>2. r[k] \in [D -> SUBSET D]
        BY <1>3
      <4>3. d \in D /\ e \in D
        BY <1>1, <4>1, <4>2
      <4>4. f[e] < f[d] /\ f[d] < f[t]
        BY <1>2, <1>12, <4>1, <4>3
      <4>5. f[e] \in Int /\ f[d] \in Int /\ f[t] \in Int
        BY <1>1, <1>2, <4>3
      <4>6. QED
        BY <4>4, <4>5
    <3>3. QED
      BY <1>5, <2>1, <3>1, <3>2
  <2>2. Down(k + 1)
    BY <2>1
  <2>3. QED
    BY <2>2
<1>13. N \in S
  <2> HIDE DEF S
  <2>1. QED
    BY <1>1, <1>11, <1>12, Reaches
<1>14. ASSUME NEW t \in D PROVE t \notin r[N][t]
  <2>1. t \in r[N][t] => f[t] < f[t]
    BY <1>13
  <2>2. f[t] \in Int
    BY <1>1, <1>2
  <2>3. QED
    BY <2>1, <2>2
<1>15. QED
  BY <1>1, <1>3, <1>10, <1>14

(* The graph seen from the other end. *)
LEMMA ConverseAcyclic ==
  ASSUME NEW up, Acyclic(up)
  PROVE  /\ Acyclic(Converse(up)) /\ DOMAIN Converse(up) = DOMAIN up
         /\ \A t, d \in DOMAIN up : d \in Converse(up)[t] <=> t \in up[d]
<1> DEFINE D == DOMAIN up
           N == Cardinality(D)
           down == Converse(up)
<1>1. N \in Nat /\ up \in [D -> SUBSET D] /\ IsFiniteSet(D)
  BY FS_CardinalityType DEF Acyclic
<1>2. PICK f : f \in [D -> 1 .. N] /\ \A t \in D : \A d \in up[t] : f[d] < f[t]
  BY DEF Acyclic
<1>3. DOMAIN down = D /\ down \in [D -> SUBSET D]
  BY DEF Converse
<1>4. \A t, d \in D : d \in down[t] <=> t \in up[d]
  BY DEF Converse
<1> HIDE DEF down, N
<1> DEFINE g == [t \in D |-> N + 1 - f[t]]
<1>5. g \in [D -> 1 .. N]
  BY <1>1, <1>2
<1>6. ASSUME NEW t \in D, NEW d \in down[t] PROVE g[d] < g[t]
  <2>1. d \in D /\ t \in up[d]
    BY <1>3, <1>4
  <2>2. f[t] < f[d] /\ f[t] \in Int /\ f[d] \in Int
    BY <1>1, <1>2, <2>1
  <2>3. QED
    BY <1>1, <2>1, <2>2
<1>7. \E h \in [D -> 1 .. N] : \A t \in D : \A d \in down[t] : h[d] < h[t]
  <2> HIDE DEF g
  <2>1. QED
    BY <1>5, <1>6
<1>8. Acyclic(down)
  BY <1>1, <1>3, <1>7 DEF Acyclic, N
<1>9. QED
  BY <1>3, <1>4, <1>8 DEF down

(* What is below a task has the task above it. *)
LEMMA ConverseClosure ==
  ASSUME NEW up, Acyclic(up), NEW t \in DOMAIN up, NEW e \in DOMAIN up
  PROVE  e \in Closure(Converse(up))[t] <=> t \in Closure(up)[e]
<1> DEFINE D == DOMAIN up
           down == Converse(up)
           u == Reach(up)
           d == Reach(down)
<1>1. up \in [D -> SUBSET D] /\ Cardinality(D) \in Nat
  BY FS_CardinalityType DEF Acyclic
<1>2. /\ down \in [D -> SUBSET D] /\ DOMAIN down = D
      /\ \A x, y \in D : y \in down[x] <=> x \in up[y]
  BY ConverseAcyclic DEF Acyclic
<1>3. /\ d \in [Nat -> [D -> SUBSET D]] /\ d[0] = down
      /\ \A k \in Nat : d[k + 1] = Wider(down, d[k])
      /\ Closure(down) = d[Cardinality(D)]
  BY <1>2, ReachSteps
<1>4. /\ u \in [Nat -> [D -> SUBSET D]] /\ u[0] = up /\ Closure(up) = u[Cardinality(D)]
  BY <1>1, ReachSteps
<1>5. \A k \in Nat : \A x \in D :
        /\ u[k + 1][x] = up[x] \cup UNION {u[k][y] : y \in up[x]}
        /\ up[x] \subseteq u[k][x] /\ u[k][x] \subseteq u[k + 1][x]
  <2>1. \A k \in Nat : \A x \in D : u[k + 1][x] = up[x] \cup UNION {u[k][y] : y \in up[x]}
    BY <1>1, ReachFirst
  <2>2. \A k \in Nat : \A x \in D : up[x] \subseteq u[k][x] /\ u[k][x] \subseteq u[k + 1][x]
    BY <1>1, ReachFirst
  <2>3. QED
    BY <2>1, <2>2
<1> HIDE DEF u, d, down
<1>6. \A k \in Nat : \A x \in D : d[k + 1][x] = d[k][x] \cup UNION {down[y] : y \in d[k][x]}
  <2> SUFFICES ASSUME NEW k \in Nat, NEW x \in D
               PROVE  d[k + 1][x] = d[k][x] \cup UNION {down[y] : y \in d[k][x]}
    OBVIOUS
  <2>1. d[k + 1] = Wider(down, d[k])
    BY <1>3
  <2>2. x \in DOMAIN down
    BY <1>2
  <2>3. QED
    BY <2>1, <2>2 DEF Wider
<1> DEFINE Mirrors(k) == \A x, y \in D : y \in d[k][x] <=> x \in u[k][y]
           T == {k \in Nat : Mirrors(k)}
<1>7. 0 \in T
  BY <1>2, <1>3, <1>4
<1>8. ASSUME NEW k \in Nat, k \in T PROVE k + 1 \in T
  <2>1. ASSUME NEW x \in D, NEW y \in D PROVE y \in d[k + 1][x] <=> x \in u[k + 1][y]
    <3>1. d[k][x] \subseteq D /\ up[y] \subseteq D
      BY <1>1, <1>3
    <3>2. y \in d[k + 1][x] <=> y \in d[k][x] \/ \E z \in d[k][x] : y \in down[z]
      BY <1>6
    <3>3. (\E z \in d[k][x] : y \in down[z]) <=> (\E z \in up[y] : x \in u[k][z])
      BY <1>2, <1>8, <3>1
    <3>4. y \in d[k][x] <=> x \in u[k][y]
      BY <1>8
    <3>5. x \in u[k + 1][y] <=> x \in up[y] \/ \E z \in up[y] : x \in u[k][z]
      BY <1>5
    <3>6. x \in up[y] => x \in u[k][y]
      BY <1>5
    <3>7. x \in u[k][y] => x \in u[k + 1][y]
      BY <1>5
    <3>8. QED
      BY <3>2, <3>3, <3>4, <3>5, <3>6, <3>7
  <2>2. Mirrors(k + 1)
    BY <2>1
  <2>3. QED
    BY <2>2
<1>9. Cardinality(D) \in T
  <2> HIDE DEF T
  <2>1. QED
    BY <1>1, <1>7, <1>8, Reaches
<1>10. e \in d[Cardinality(D)][t] <=> t \in u[Cardinality(D)][e]
  BY <1>9
<1>11. QED
  BY <1>3, <1>4, <1>10 DEF down

(* A finite acyclic graph has tasks without successors in next, among any  *)
(* set of its tasks.                                                       *)
LEMMA Lowest ==
  ASSUME NEW next, Acyclic(next), NEW S, S \subseteq DOMAIN next, S # {}
  PROVE  \E t \in S : next[t] \cap S = {}
<1> DEFINE D == DOMAIN next
           N == Cardinality(D)
<1>1. N \in Nat /\ next \in [D -> SUBSET D]
  BY FS_CardinalityType DEF Acyclic
<1>2. PICK f \in [D -> 1 .. N] : \A t \in D : \A d \in next[t] : f[d] < f[t]
  BY DEF Acyclic
<1> HIDE DEF N
<1> DEFINE T == {f[t] : t \in S}
<1>3. T \subseteq Nat /\ T # {}
  BY <1>1, <1>2
<1>4. PICK m \in T : \A y \in T : m <= y
  <2> HIDE DEF T
  <2>1. QED
    BY <1>3, Least
<1>5. PICK t \in S : m = f[t]
  OBVIOUS
<1>6. ASSUME NEW d \in next[t] \cap S PROVE FALSE
  <2>1. f[d] < f[t] /\ f[t] <= f[d] /\ f[d] \in Int /\ f[t] \in Int
    BY <1>1, <1>2, <1>4, <1>5
  <2>2. QED
    BY <2>1
<1>7. QED
  BY <1>6

(* Some task of a graph is nobody's upstream task. *)
LEMMA SomeEnd ==
  ASSUME NEW up, Acyclic(up), DOMAIN up # {}
  PROVE  {t \in DOMAIN up : Converse(up)[t] = {}} # {}
<1>1. Acyclic(Converse(up)) /\ DOMAIN Converse(up) = DOMAIN up
  BY ConverseAcyclic
<1>2. PICK t \in DOMAIN up : Converse(up)[t] \cap DOMAIN up = {}
  BY <1>1, Lowest
<1>3. Converse(up)[t] = {}
  BY <1>2 DEF Converse
<1>4. QED
  BY <1>3

-----------------------------------------------------------------------------
(* The construction, and the traversals that fill the memo.                *)

(* Sources and Visits as functions of the graph. *)
From(up, dir) == IF dir = "down" THEN Converse(up) ELSE up

Direction == {"down", "up"}

(* The graph is acyclic, and the tasks without an upstream task are among  *)
(* start_tasks; a graph that is built has one task at each end.          *)
GraphInv ==
  /\ Acyclic(upstream_tasks)
  /\ \/ /\ phase = "open" /\ Tasks \subseteq Task /\ stack = <<>>
        /\ start_tasks \subseteq Tasks
        /\ \A t \in Tasks : upstream_tasks[t] = {} => t \in start_tasks
        /\ \A dir \in Direction : DOMAIN memo[dir] = {}
     \/ /\ phase = "built" /\ in_task \in Tasks /\ out_task \in Tasks
        /\ \A t \in Tasks : /\ upstream_tasks[t] = {} <=> t = in_task
                            /\ downstream_tasks[t] = {} <=> t = out_task

(* The tasks that calls of collect have still to visit. *)
Pending(st) == UNION {st[i].next : i \in DOMAIN st}

MemoType ==
  /\ DOMAIN memo = Direction /\ direction \in Direction
  /\ \A dir \in Direction : DOMAIN memo[dir] \subseteq Tasks
  /\ stack \in Seq([task : Tasks, next : SUBSET Tasks])
  /\ stack # <<>> => DOMAIN memo[direction] # {}

(* Every entry is complete when it is stored. *)
MemoExact ==
  \A dir \in Direction : \A t \in DOMAIN memo[dir] :
    memo[dir][t] = Closure(From(upstream_tasks, dir))[t]

(* Once a traversal has begun, a task without an entry whose sources have  *)
(* theirs is one the traversal has still to visit.                         *)
NoneMissed ==
  \A dir \in Direction : DOMAIN memo[dir] # {} =>
    \A t \in Tasks \ DOMAIN memo[dir] :
      From(upstream_tasks, dir)[t] \subseteq DOMAIN memo[dir] =>
        dir = direction /\ t \in Pending(stack)

DagInv == GraphInv /\ MemoType /\ MemoExact /\ NoneMissed

(* Pushing a call, and the innermost call taken apart. *)
LEMMA PendingCons ==
  ASSUME NEW F, NEW a \in F, NEW st \in Seq(F)
  PROVE  Pending(<<a>> \o st) = a.next \cup Pending(st) /\ <<a>> \o st \in Seq(F) \ {<<>>}
<1> DEFINE b == <<a>> \o st
<1>1. /\ b \in Seq(F) /\ Len(b) = Len(st) + 1 /\ Len(st) \in Nat
      /\ b[1] = a /\ \A i \in 1 .. Len(st) : b[i + 1] = st[i]
  OBVIOUS
<1>2. DOMAIN b = 1 .. Len(st) + 1 /\ DOMAIN st = 1 .. Len(st) /\ b # <<>>
  BY <1>1
<1> HIDE DEF b
<1>3. ASSUME NEW x, x \in Pending(b) PROVE x \in a.next \cup Pending(st)
  <2>1. PICK i \in 1 .. Len(st) + 1 : x \in b[i].next
    BY <1>2, <1>3 DEF Pending
  <2>2. CASE i = 1
    BY <1>1, <2>1, <2>2
  <2>3. CASE i # 1
    <3>1. i - 1 \in 1 .. Len(st) /\ (i - 1) + 1 = i
      BY <1>1, <2>3
    <3>2. b[i] = st[i - 1]
      BY <1>1, <3>1
    <3>3. QED
      BY <1>2, <2>1, <3>1, <3>2 DEF Pending
  <2>4. QED
    BY <2>2, <2>3
<1>4. ASSUME NEW x, x \in a.next \cup Pending(st) PROVE x \in Pending(b)
  <2>1. CASE x \in a.next
    <3>1. 1 \in DOMAIN b
      BY <1>1, <1>2
    <3>2. QED
      BY <1>1, <2>1, <3>1 DEF Pending
  <2>2. CASE x \in Pending(st)
    <3>1. PICK i \in 1 .. Len(st) : x \in st[i].next
      BY <1>2, <2>2 DEF Pending
    <3>2. i + 1 \in DOMAIN b /\ b[i + 1] = st[i]
      BY <1>1, <1>2
    <3>3. QED
      BY <3>1, <3>2 DEF Pending
  <2>3. QED
    BY <1>4, <2>1, <2>2
<1>5. QED
  BY <1>1, <1>2, <1>3, <1>4 DEF b

LEMMA PendingHead ==
  ASSUME NEW F, NEW st \in Seq(F), st # <<>>
  PROVE  /\ Head(st) \in F /\ Tail(st) \in Seq(F)
         /\ Pending(st) = Head(st).next \cup Pending(Tail(st))
<1>1. Head(st) \in F /\ Tail(st) \in Seq(F) /\ st = <<Head(st)>> \o Tail(st)
  OBVIOUS
<1> DEFINE a == Head(st)
           r == Tail(st)
<1> HIDE DEF a, r
<1>2. a \in F /\ r \in Seq(F) /\ st = <<a>> \o r
  BY <1>1 DEF a, r
<1>3. Pending(st) = a.next \cup Pending(r)
  BY <1>2, PendingCons
<1>4. QED
  BY <1>1, <1>3 DEF a, r

(* The empty graph. *)
LEMMA DagStarts == DagInit => DagInv
<1> SUFFICES ASSUME DagInit PROVE DagInv
  OBVIOUS
<1>1. Tasks = {} /\ upstream_tasks \in [Tasks -> SUBSET Tasks]
  BY DEF DagInit, Tasks
<1>2. IsFiniteSet(Tasks)
  BY <1>1, FS_EmptySet
<1>3. [t \in Tasks |-> 0] \in [Tasks -> 1 .. Cardinality(Tasks)]
  BY <1>1
<1>4. \E f \in [Tasks -> 1 .. Cardinality(Tasks)] :
        \A t \in Tasks : \A d \in upstream_tasks[t] : f[d] < f[t]
  BY <1>1, <1>3
<1>5. Acyclic(upstream_tasks)
  BY <1>1, <1>2, <1>4 DEF Acyclic, Tasks
<1>6. /\ phase = "open" /\ stack = <<>> /\ start_tasks = {} /\ direction = "down"
      /\ DOMAIN memo = Direction /\ \A dir \in Direction : DOMAIN memo[dir] = {}
  BY DEF DagInit, Direction
<1>7. GraphInv
  BY <1>1, <1>5, <1>6 DEF GraphInv
<1>8. MemoType /\ MemoExact /\ NoneMissed
  BY <1>6 DEF MemoType, MemoExact, NoneMissed, Direction
<1>9. QED
  BY <1>7, <1>8 DEF DagInv

(* Users keep the graph acyclic, whatever they add.                        *)
LEMMA AddTaskKeeps ==
  ASSUME DagInv, NEW t \in Task, NEW deps \in SUBSET Tasks, AddTask(t, deps)
  PROVE  DagInv'
<1> DEFINE D == DOMAIN upstream_tasks
           up == upstream_tasks'
<1>1. /\ phase = "open" /\ Acyclic(up)
      /\ up = [x \in D \cup {t} |-> IF x # t THEN upstream_tasks[x]
                                    ELSE IF t \in D THEN upstream_tasks[t] \cup deps ELSE deps]
      /\ start_tasks' = IF deps = {} THEN start_tasks \cup {t} ELSE start_tasks
      /\ UNCHANGED <<phase, end_tasks, memo, stack, direction>>
  BY DEF AddTask, Tasks
<1>2. /\ D \subseteq Task /\ stack = <<>> /\ start_tasks \subseteq D
      /\ \A x \in D : upstream_tasks[x] = {} => x \in start_tasks
      /\ \A dir \in Direction : DOMAIN memo[dir] = {}
  BY <1>1 DEF DagInv, GraphInv, Tasks
<1>3. DOMAIN up = D \cup {t}
  BY <1>1
<1>4. \A x \in D \cup {t} : up[x] = {} => x \in start_tasks'
  BY <1>1, <1>2
<1>5. GraphInv'
  BY <1>1, <1>2, <1>3, <1>4 DEF GraphInv, Tasks
<1>6. MemoType' /\ MemoExact' /\ NoneMissed'
  BY <1>1, <1>2, <1>3 DEF DagInv, MemoType, MemoExact, NoneMissed
<1>7. QED
  BY <1>5, <1>6 DEF DagInv

(* build() puts one task below all numbers and one above. *)
LEMMA BuildKeeps ==
  ASSUME DagInv, BuildGraph
  PROVE  DagInv'
<1> DEFINE D == DOMAIN upstream_tasks
           E == D \cup {in_task, out_task}
           N == Cardinality(D)
           up == upstream_tasks'
           ends == {t \in D : downstream_tasks[t] = {}}
<1>1. /\ phase = "open" /\ phase' = "built" /\ start_tasks # {}
      /\ up = [t \in E |-> IF t = in_task THEN {}
                           ELSE IF t = out_task THEN ends
                           ELSE IF t \in start_tasks THEN upstream_tasks[t] \cup {in_task}
                           ELSE upstream_tasks[t]]
      /\ UNCHANGED <<start_tasks, memo, stack, direction>>
  BY DEF BuildGraph, Tasks
<1>2. /\ Acyclic(upstream_tasks) /\ D \subseteq Task /\ stack = <<>>
      /\ start_tasks \subseteq D
      /\ \A x \in D : upstream_tasks[x] = {} => x \in start_tasks
      /\ \A dir \in Direction : DOMAIN memo[dir] = {}
  BY <1>1 DEF DagInv, GraphInv, Tasks
<1>3. in_task \notin D /\ out_task \notin D /\ in_task # out_task
  BY <1>2, DagAssumption
<1>4. upstream_tasks \in [D -> SUBSET D] /\ IsFiniteSet(D) /\ N \in Nat
  BY <1>2, FS_CardinalityType DEF Acyclic
<1>5. IsFiniteSet(E) /\ Cardinality(E) = N + 2
  <2>1. IsFiniteSet(D \cup {in_task}) /\ Cardinality(D \cup {in_task}) = N + 1
    BY <1>3, <1>4, FS_AddElement
  <2>2. out_task \notin D \cup {in_task} /\ E = (D \cup {in_task}) \cup {out_task}
    BY <1>3
  <2>3. /\ IsFiniteSet((D \cup {in_task}) \cup {out_task})
        /\ Cardinality((D \cup {in_task}) \cup {out_task}) = Cardinality(D \cup {in_task}) + 1
    BY <2>1, <2>2, FS_AddElement
  <2>4. QED
    BY <1>4, <2>1, <2>2, <2>3
<1>6. PICK f \in [D -> 1 .. N] : \A x \in D : \A d \in upstream_tasks[x] : f[d] < f[x]
  BY <1>2 DEF Acyclic
<1>7. ends \subseteq D
  OBVIOUS
<1> HIDE DEF N, ends
<1> DEFINE g == [x \in E |-> IF x = in_task THEN 1 ELSE IF x = out_task THEN N + 2 ELSE f[x] + 1]
<1>8. DOMAIN up = E /\ up \in [E -> SUBSET E]
  BY <1>1, <1>4, <1>7
<1>9. g \in [E -> 1 .. N + 2]
  BY <1>4, <1>6
<1>10. ASSUME NEW x \in E, NEW d \in up[x] PROVE g[d] < g[x]
  <2>1. x # in_task
    BY <1>1, <1>10
  <2>2. CASE x = out_task
    <3>1. d \in D /\ d # in_task /\ d # out_task
      BY <1>1, <1>3, <1>7, <1>10, <2>1, <2>2
    <3>2. f[d] \in 1 .. N
      BY <1>6, <3>1
    <3>3. QED
      BY <1>4, <2>1, <2>2, <3>1, <3>2
  <2>3. CASE x # out_task
    <3>1. x \in D /\ f[x] \in 1 .. N /\ g[x] = f[x] + 1
      BY <1>6, <2>1, <2>3
    <3>2. CASE d = in_task
      BY <1>4, <3>1, <3>2
    <3>3. CASE d # in_task
      <4>1. d \in upstream_tasks[x] /\ d \in D
        BY <1>1, <1>4, <1>10, <2>1, <2>3, <3>1, <3>3
      <4>2. f[d] < f[x] /\ f[d] \in 1 .. N /\ g[d] = f[d] + 1
        BY <1>3, <1>6, <3>1, <4>1
      <4>3. QED
        BY <1>4, <3>1, <4>2
    <3>4. QED
      BY <3>2, <3>3
  <2>4. QED
    BY <2>2, <2>3
<1>11. Acyclic(up)
  <2>1. \E h \in [E -> 1 .. N + 2] : \A x \in E : \A d \in up[x] : h[d] < h[x]
    <3> HIDE DEF g
    <3>1. QED
      BY <1>9, <1>10
  <2>2. QED
    BY <1>5, <1>8, <2>1 DEF Acyclic
<1>12. ASSUME NEW t \in E PROVE up[t] = {} <=> t = in_task
  <2>1. CASE t = in_task
    BY <1>1, <2>1
  <2>2. CASE t = out_task
    <3>1. PICK s \in start_tasks : TRUE
      BY <1>1
    <3>2. D # {}
      BY <1>2, <3>1
    <3>3. ends # {}
      BY <1>2, <3>2, SomeEnd DEF ends, downstream_tasks
    <3>4. QED
      BY <1>1, <1>3, <2>2, <3>3
  <2>3. CASE t \in D
    BY <1>1, <1>2, <1>3, <2>3
  <2>4. QED
    BY <2>1, <2>2, <2>3
<1>13. ASSUME NEW t \in E PROVE Converse(up)[t] = {} <=> t = out_task
  <2>1. \A d \in E : d \in Converse(up)[t] <=> t \in up[d]
    BY <1>8 DEF Converse
  <2>2. Converse(up)[t] \subseteq E
    BY <1>8 DEF Converse
  <2>3. CASE t = out_task
    <3>1. \A d \in E : out_task \notin up[d]
      BY <1>1, <1>3, <1>4, <1>7
    <3>2. QED
      BY <2>1, <2>2, <2>3, <3>1
  <2>4. CASE t = in_task
    <3>1. PICK s \in start_tasks : TRUE
      BY <1>1
    <3>2. s \in E /\ in_task \in up[s]
      BY <1>1, <1>2, <1>3, <3>1
    <3>3. QED
      BY <1>3, <2>1, <2>4, <3>2
  <2>5. CASE t \in D
    <3>1. CASE t \in ends
      BY <1>1, <1>3, <2>1, <2>5, <3>1
    <3>2. CASE t \notin ends
      <4>1. PICK d \in D : t \in upstream_tasks[d]
        BY <2>5, <3>2 DEF ends, downstream_tasks, Converse
      <4>2. d \in E /\ t \in up[d]
        BY <1>1, <1>3, <4>1
      <4>3. QED
        BY <1>3, <2>1, <2>5, <4>2
    <3>3. QED
      BY <3>1, <3>2
  <2>6. QED
    BY <2>3, <2>4, <2>5
<1>14. GraphInv'
  BY <1>1, <1>8, <1>11, <1>12, <1>13 DEF GraphInv, Tasks, downstream_tasks
<1>15. MemoType' /\ MemoExact' /\ NoneMissed'
  BY <1>1, <1>2 DEF DagInv, MemoType, MemoExact, NoneMissed
<1>16. QED
  BY <1>14, <1>15 DEF DagInv

(* A direction and its opposite. *)
LEMMA Directions ==
  ASSUME Acyclic(upstream_tasks), NEW dir \in Direction
  PROVE  /\ Sources(dir) = From(upstream_tasks, dir)
         /\ Acyclic(Sources(dir)) /\ Sources(dir) \in [Tasks -> SUBSET Tasks]
         /\ Visits(dir) \in [Tasks -> SUBSET Tasks]
         /\ \A x, t \in Tasks : x \in Visits(dir)[t] <=> t \in Sources(dir)[x]
<1>1. /\ Acyclic(downstream_tasks) /\ DOMAIN downstream_tasks = Tasks
      /\ \A t, d \in Tasks : d \in downstream_tasks[t] <=> t \in upstream_tasks[d]
  BY ConverseAcyclic DEF downstream_tasks, Tasks
<1>2. upstream_tasks \in [Tasks -> SUBSET Tasks] /\ downstream_tasks \in [Tasks -> SUBSET Tasks]
  BY <1>1 DEF Acyclic, Tasks
<1>3. Sources(dir) = From(upstream_tasks, dir)
  BY DEF Sources, From, downstream_tasks
<1>4. CASE dir = "down"
  BY <1>1, <1>2, <1>3, <1>4 DEF Sources, Visits
<1>5. CASE dir = "up"
  BY <1>1, <1>2, <1>3, <1>5 DEF Sources, Visits
<1>6. QED
  BY <1>4, <1>5 DEF Direction

(* An entry is stored when those of its sources are, which makes it        *)
(* complete; what this enables is what the call goes on to visit.  A call  *)
(* that stores nothing leaves behind a task that is not enabled.           *)
LEMMA CollectKeeps ==
  ASSUME GraphInv, MemoType, MemoExact,
         NEW dir \in Direction, NEW t \in Tasks,
         NEW rest \in Seq([task : Tasks, next : SUBSET Tasks]),
         Collect(dir, t, rest), direction' = dir, UNCHANGED upstream_tasks,
         rest # <<>> => DOMAIN memo[dir] # {},
         \A x \in Tasks \ DOMAIN memo[dir] :
           Sources(dir)[x] \subseteq DOMAIN memo[dir] => x \in Pending(rest) \cup {t},
         \A o \in Direction \ {dir} : DOMAIN memo[o] # {} =>
           \A x \in Tasks \ DOMAIN memo[o] : ~(Sources(o)[x] \subseteq DOMAIN memo[o])
  PROVE  MemoType' /\ MemoExact' /\ NoneMissed'
<1> DEFINE Frame == [task : Tasks, next : SUBSET Tasks]
           known == memo[dir]
           from == Sources(dir)[t]
           entry == from \cup UNION {known[d] : d \in from}
           call == [task |-> t, next |-> Visits(dir)[t]]
<1>1. Acyclic(upstream_tasks) /\ Tasks' = Tasks
  BY DEF GraphInv, Tasks
<1>2. /\ DOMAIN memo = Direction /\ DOMAIN known \subseteq Tasks
      /\ \A o \in Direction : DOMAIN memo[o] \subseteq Tasks
  BY DEF MemoType
<1>3. /\ Acyclic(Sources(dir)) /\ Sources(dir) \in [Tasks -> SUBSET Tasks]
      /\ Visits(dir) \in [Tasks -> SUBSET Tasks]
      /\ \A x \in Tasks : x \in Visits(dir)[t] <=> t \in Sources(dir)[x]
  BY <1>1, Directions
<1>4. \A o \in Direction : Sources(o) = From(upstream_tasks, o)
  BY <1>1, Directions
<1>5. CASE from \subseteq DOMAIN known
  <2>1. /\ memo' = [memo EXCEPT ![dir] = [x \in DOMAIN known \cup {t} |-> IF x = t THEN entry ELSE known[x]]]
        /\ stack' = <<call>> \o rest
    BY <1>5 DEF Collect
  <2>2. /\ DOMAIN memo' = Direction
        /\ memo'[dir] = [x \in DOMAIN known \cup {t} |-> IF x = t THEN entry ELSE known[x]]
        /\ \A o \in Direction \ {dir} : memo'[o] = memo[o]
    BY <1>2, <2>1
  <2>3. DOMAIN memo'[dir] = DOMAIN known \cup {t}
    BY <2>2
  <2>4. call \in Frame
    BY <1>3
  <2>5. Pending(stack') = call.next \cup Pending(rest) /\ stack' \in Seq(Frame) \ {<<>>}
    <3> HIDE DEF call, Frame
    <3>1. rest \in Seq(Frame)
      BY DEF Frame
    <3>2. QED
      BY <2>1, <2>4, <3>1, PendingCons
  <2>6. Pending(stack') = Visits(dir)[t] \cup Pending(rest)
    BY <2>5
  <2>7. MemoType'
    <3>1. stack' \in Seq([task : Tasks', next : SUBSET Tasks'])
      BY <1>1, <2>5
    <3>2. \A o \in Direction : DOMAIN memo'[o] \subseteq Tasks'
      BY <1>1, <1>2, <2>2, <2>3
    <3>3. QED
      BY <2>2, <2>3, <3>1, <3>2 DEF MemoType
  <2>8. MemoExact'
    <3>1. ASSUME NEW o \in Direction, NEW x \in DOMAIN memo'[o]
          PROVE  memo'[o][x] = Closure(From(upstream_tasks', o))[x]
      <4>1. CASE o = dir /\ x = t
        <5>1. entry = Closure(Sources(dir))[t]
          <6>1. \A d \in from : known[d] = Closure(Sources(dir))[d]
            BY <1>4, <1>5 DEF MemoExact
          <6>2. Closure(Sources(dir))[t] = from \cup UNION {Closure(Sources(dir))[d] : d \in from}
            BY <1>3, ClosureFixed
          <6>3. QED
            BY <6>1, <6>2
        <5>2. memo'[o][x] = entry
          BY <2>2, <4>1
        <5>3. QED
          BY <1>4, <4>1, <5>1, <5>2
      <4>2. CASE o = dir /\ x # t
        BY <2>2, <2>3, <3>1, <4>2 DEF MemoExact
      <4>3. CASE o # dir
        BY <2>2, <3>1, <4>3 DEF MemoExact
      <4>4. QED
        BY <4>1, <4>2, <4>3
    <3>2. QED
      BY <3>1 DEF MemoExact
  <2>9. NoneMissed'
    <3>1. ASSUME NEW o \in Direction, DOMAIN memo'[o] # {},
                 NEW x \in Tasks \ DOMAIN memo'[o],
                 From(upstream_tasks', o)[x] \subseteq DOMAIN memo'[o]
          PROVE  o = direction' /\ x \in Pending(stack')
      <4>1. o = dir
        BY <1>4, <2>2, <3>1
      <4>2. Sources(dir)[x] \subseteq DOMAIN known \cup {t} /\ x \in Tasks \ DOMAIN known /\ x # t
        BY <1>4, <2>3, <3>1, <4>1
      <4>3. CASE t \in Sources(dir)[x]
        BY <1>3, <2>6, <4>1, <4>2, <4>3
      <4>4. CASE t \notin Sources(dir)[x]
        BY <2>6, <4>1, <4>2, <4>4
      <4>5. QED
        BY <4>3, <4>4
    <3>2. QED
      BY <1>1, <3>1 DEF NoneMissed
  <2>10. QED
    BY <2>7, <2>8, <2>9
<1>6. CASE ~(from \subseteq DOMAIN known)
  <2>1. stack' = rest /\ memo' = memo
    BY <1>6 DEF Collect
  <2>2. MemoType' /\ MemoExact'
    BY <1>1, <2>1 DEF MemoType, MemoExact
  <2>3. ASSUME NEW o \in Direction, DOMAIN memo[o] # {}, NEW x \in Tasks \ DOMAIN memo[o],
               From(upstream_tasks, o)[x] \subseteq DOMAIN memo[o]
        PROVE  o = dir /\ x \in Pending(rest)
    BY <1>4, <1>6, <2>3
  <2>4. NoneMissed'
    BY <1>1, <2>1, <2>3 DEF NoneMissed
  <2>5. QED
    BY <2>2, <2>4
<1>7. QED
  BY <1>5, <1>6

(* A step that keeps the built graph keeps what is known of it. *)
LEMMA GraphKeeps ==
  ASSUME GraphInv, phase = "built", UNCHANGED <<phase, upstream_tasks>>
  PROVE  GraphInv'
<1>1. Tasks' = Tasks /\ downstream_tasks' = downstream_tasks
  BY DEF Tasks, downstream_tasks, Converse
<1>2. QED
  BY <1>1 DEF GraphInv

(* The first call: only the task at the end of the graph has no source. *)
LEMMA QueryKeeps ==
  ASSUME DagInv, NEW dir \in Direction, Query(dir)
  PROVE  DagInv'
<1> DEFINE t == IF dir = "down" THEN out_task ELSE in_task
<1>1. /\ phase = "built" /\ stack = <<>> /\ DOMAIN memo[dir] = {} /\ Collect(dir, t, <<>>)
      /\ direction' = dir /\ UNCHANGED <<phase, upstream_tasks>>
  BY DEF Query
<1>2. GraphInv /\ MemoType /\ MemoExact /\ NoneMissed
  BY DEF DagInv
<1>3. /\ Acyclic(upstream_tasks) /\ t \in Tasks
      /\ \A x \in Tasks : Sources(dir)[x] = {} <=> x = t
  BY <1>1, <1>2 DEF GraphInv, Sources, Direction
<1>4. Pending(<<>>) = {} /\ <<>> \in Seq([task : Tasks, next : SUBSET Tasks])
  BY DEF Pending
<1>5. \A o \in Direction \ {dir} : DOMAIN memo[o] # {} =>
        \A x \in Tasks \ DOMAIN memo[o] : ~(Sources(o)[x] \subseteq DOMAIN memo[o])
  BY <1>1, <1>2, <1>3, <1>4, Directions DEF NoneMissed
<1>6. \A x \in Tasks \ DOMAIN memo[dir] :
        Sources(dir)[x] \subseteq DOMAIN memo[dir] => x \in Pending(<<>>) \cup {t}
  BY <1>1, <1>3
<1> HIDE DEF t
<1>7. MemoType' /\ MemoExact' /\ NoneMissed'
  BY <1>1, <1>2, <1>3, <1>4, <1>5, <1>6, CollectKeeps
<1>8. GraphInv'
  BY <1>1, <1>2, GraphKeeps
<1>9. QED
  BY <1>7, <1>8 DEF DagInv

(* The innermost call hands its next task to a call of its own. *)
LEMMA VisitKeeps ==
  ASSUME DagInv, Visit
  PROVE  DagInv'
<1> DEFINE Frame == [task : Tasks, next : SUBSET Tasks]
<1>1. PICK t \in Head(stack).next :
        Collect(direction, t, <<[Head(stack) EXCEPT !.next = @ \ {t}]>> \o Tail(stack))
  BY DEF Visit
<1>2. stack # <<>> /\ UNCHANGED <<phase, upstream_tasks, direction>>
  BY DEF Visit
<1>3. GraphInv /\ MemoType /\ MemoExact /\ NoneMissed
  BY DEF DagInv
<1>4. /\ phase = "built" /\ Acyclic(upstream_tasks) /\ direction \in Direction
      /\ stack \in Seq(Frame) /\ DOMAIN memo[direction] # {}
  BY <1>2, <1>3 DEF GraphInv, MemoType
<1> DEFINE call == [Head(stack) EXCEPT !.next = @ \ {t}]
           rest == <<call>> \o Tail(stack)
<1>5. /\ Head(stack) \in Frame /\ Tail(stack) \in Seq(Frame)
      /\ Pending(stack) = Head(stack).next \cup Pending(Tail(stack))
  <2> HIDE DEF Frame
  <2>1. QED
    BY <1>2, <1>4, PendingHead
<1>6. t \in Tasks /\ call \in Frame /\ call.next = Head(stack).next \ {t}
  BY <1>5
<1>7. Pending(rest) = call.next \cup Pending(Tail(stack)) /\ rest \in Seq(Frame)
  <2> HIDE DEF Frame, call
  <2>1. QED
    BY <1>5, <1>6, PendingCons
<1>8. Pending(stack) \subseteq Pending(rest) \cup {t}
  BY <1>5, <1>6, <1>7
<1>9. \A x \in Tasks \ DOMAIN memo[direction] :
        Sources(direction)[x] \subseteq DOMAIN memo[direction] => x \in Pending(rest) \cup {t}
  BY <1>3, <1>4, <1>8, Directions DEF NoneMissed
<1>10. \A o \in Direction \ {direction} : DOMAIN memo[o] # {} =>
         \A x \in Tasks \ DOMAIN memo[o] : ~(Sources(o)[x] \subseteq DOMAIN memo[o])
  BY <1>3, <1>4, Directions DEF NoneMissed
<1>11. Collect(direction, t, rest)
  BY <1>1
<1> HIDE DEF call, rest
<1>12. MemoType' /\ MemoExact' /\ NoneMissed'
  BY <1>2, <1>3, <1>4, <1>6, <1>7, <1>9, <1>10, <1>11, CollectKeeps
<1>13. GraphInv'
  BY <1>2, <1>3, <1>4, GraphKeeps
<1>14. QED
  BY <1>12, <1>13 DEF DagInv

(* A call returns when it has nothing left to visit. *)
LEMMA ReturnKeeps ==
  ASSUME DagInv, Return
  PROVE  DagInv'
<1> DEFINE Frame == [task : Tasks, next : SUBSET Tasks]
<1>1. /\ stack # <<>> /\ Head(stack).next = {} /\ stack' = Tail(stack)
      /\ UNCHANGED <<phase, upstream_tasks, memo, direction>>
  BY DEF Return
<1>2. GraphInv /\ MemoType /\ MemoExact /\ NoneMissed
  BY DEF DagInv
<1>3. phase = "built" /\ stack \in Seq(Frame) /\ DOMAIN memo[direction] # {}
  BY <1>1, <1>2 DEF GraphInv, MemoType
<1>4. Tail(stack) \in Seq(Frame) /\ Pending(stack) = Head(stack).next \cup Pending(Tail(stack))
  <2> HIDE DEF Frame
  <2>1. QED
    BY <1>1, <1>3, PendingHead
<1>5. Pending(stack') = Pending(stack) /\ Tasks' = Tasks
  BY <1>1, <1>4 DEF Tasks
<1>6. MemoType' /\ MemoExact'
  BY <1>1, <1>2, <1>3, <1>4, <1>5 DEF MemoType, MemoExact
<1>7. NoneMissed'
  BY <1>1, <1>2, <1>5 DEF NoneMissed
<1>8. GraphInv'
  BY <1>1, <1>2, <1>3, GraphKeeps
<1>9. QED
  BY <1>6, <1>7, <1>8 DEF DagInv

(* The inductive invariant of the construction and the traversals. *)
LEMMA DagInvariant == DagSpec => []DagInv
<1>1. DagInit => DagInv
  BY DagStarts
<1>2. ASSUME DagInv, [DagNext]_dagVars PROVE DagInv'
  <2>1. ASSUME NEW t \in Task, NEW deps \in SUBSET Tasks, AddTask(t, deps) PROVE DagInv'
    BY <1>2, <2>1, AddTaskKeeps
  <2>2. CASE BuildGraph
    BY <1>2, <2>2, BuildKeeps
  <2>3. ASSUME NEW dir \in Direction, Query(dir) PROVE DagInv'
    BY <1>2, <2>3, QueryKeeps
  <2>4. CASE Visit
    BY <1>2, <2>4, VisitKeeps
  <2>5. CASE Return
    BY <1>2, <2>5, ReturnKeeps
  <2>6. CASE UNCHANGED dagVars
    <3>1. /\ Tasks' = Tasks /\ downstream_tasks' = downstream_tasks
          /\ Pending(stack') = Pending(stack)
          /\ UNCHANGED <<phase, upstream_tasks, start_tasks, end_tasks, memo, stack, direction>>
      BY <2>6 DEF dagVars, Tasks, downstream_tasks, Converse
    <3>2. GraphInv'
      BY <1>2, <3>1 DEF DagInv, GraphInv
    <3>3. MemoType' /\ MemoExact' /\ NoneMissed'
      BY <1>2, <3>1 DEF DagInv, MemoType, MemoExact, NoneMissed
    <3>4. QED
      BY <3>2, <3>3 DEF DagInv
  <2>7. QED
    BY <1>2, <2>1, <2>2, <2>3, <2>4, <2>5, <2>6 DEF DagNext, Direction
<1>3. QED
  BY <1>1, <1>2, PTL DEF DagSpec

(* A traversal that has returned has stored every entry: a lowest one of   *)
(* those it left out would have been pending.                              *)
LEMMA AllStored ==
  ASSUME DagInv, NEW dir \in Direction, Collected(dir)
  PROVE  DOMAIN memo[dir] = Tasks
<1> DEFINE S == Tasks \ DOMAIN memo[dir]
<1>1. GraphInv /\ MemoType /\ NoneMissed
  BY DEF DagInv
<1>2. stack = <<>> /\ DOMAIN memo[dir] # {} /\ DOMAIN memo[dir] \subseteq Tasks
  BY <1>1 DEF Collected, MemoType
<1>3. Pending(stack) = {}
  BY <1>2 DEF Pending
<1>4. /\ Sources(dir) = From(upstream_tasks, dir)
      /\ Acyclic(Sources(dir)) /\ Sources(dir) \in [Tasks -> SUBSET Tasks]
  BY <1>1, Directions DEF GraphInv
<1>5. CASE S # {}
  <2>1. S \subseteq DOMAIN Sources(dir)
    BY <1>4
  <2>2. PICK x \in S : Sources(dir)[x] \cap S = {}
    <3> HIDE DEF S
    <3>1. QED
      BY <1>4, <1>5, <2>1, Lowest
  <2>3. Sources(dir)[x] \subseteq DOMAIN memo[dir]
    BY <1>4, <2>2
  <2>4. x \in Pending(stack)
    BY <1>1, <1>2, <1>4, <2>2, <2>3 DEF NoneMissed
  <2>5. QED
    BY <1>3, <2>4
<1>6. QED
  BY <1>2, <1>5

LEMMA DagInvExact == DagInv => EntriesExact
<1> SUFFICES ASSUME DagInv, NEW dir \in Direction
             PROVE  /\ \A t \in DOMAIN memo[dir] : memo[dir][t] = Closure(Sources(dir))[t]
                    /\ Collected(dir) => DOMAIN memo[dir] = Tasks
  BY DEF EntriesExact, Direction
<1>1. Sources(dir) = From(upstream_tasks, dir)
  BY Directions DEF DagInv, GraphInv
<1>2. \A t \in DOMAIN memo[dir] : memo[dir][t] = Closure(Sources(dir))[t]
  BY <1>1 DEF DagInv, MemoExact
<1>3. QED
  BY <1>2, AllStored

(* Whatever tasks are added and in whatever order the sets are iterated,   *)
(* an entry of _downstream_tasks or _upstream_tasks is complete from the   *)
(* moment it is stored, and a traversal that has returned has stored one   *)
(* for every task.                                                         *)
THEOREM EntriesAreExact == DagSpec => []EntriesExact
<1>1. QED
  BY DagInvariant, DagInvExact, PTL

(* A graph without shortcuts, with everything done that is neither above   *)
(* nor below t: what is ready is what comes next.                          *)
LEMMA ReleasedByBypass ==
  ASSUME NEW up, Acyclic(up), IsReduced(up), NEW t \in DOMAIN up, NEW done,
         done = {x \in DOMAIN up : /\ x \notin Closure(up)[t]
                                   /\ x \notin Closure(Converse(up))[t]},
         NEW d \in DOMAIN up
  PROVE  d \in Converse(up)[t] <=> d \notin done /\ up[d] # {} /\ up[d] \subseteq done
<1> DEFINE D == DOMAIN up
           down == Converse(up)
           above == Closure(up)
           below == Closure(down)
<1>1. /\ Acyclic(down) /\ DOMAIN down = D
      /\ \A x, y \in D : y \in down[x] <=> x \in up[y]
  BY ConverseAcyclic
<1>2. up \in [D -> SUBSET D] /\ down \in [D -> SUBSET D]
  BY <1>1 DEF Acyclic
<1>3. above \in [D -> SUBSET D] /\ above[t] = up[t] \cup UNION {up[x] : x \in above[t]}
  BY ClosureFixed
<1>4. below \in [D -> SUBSET D] /\ below[t] = down[t] \cup UNION {down[x] : x \in below[t]}
  <2> HIDE DEF down
  <2>1. QED
    BY <1>1, ClosureFixed
<1>5. ASSUME d \in down[t] PROVE d \notin done /\ up[d] # {} /\ up[d] \subseteq done
  <2>1. d \in below[t] /\ t \in up[d]
    BY <1>1, <1>4, <1>5
  <2>2. ASSUME NEW u \in up[d] PROVE u \in done
    <3>1. u \in D /\ u \notin above[t] /\ t \notin above[u]
      BY <1>2, <2>1, <2>2 DEF IsReduced
    <3>2. u \in below[t] <=> t \in above[u]
      BY <3>1, ConverseClosure
    <3>3. QED
      BY <3>1, <3>2
  <2>3. QED
    BY <2>1, <2>2
<1>6. ASSUME d \notin done, up[d] # {}, up[d] \subseteq done PROVE d \in down[t]
  <2>1. d \in above[t] \/ d \in below[t]
    BY <1>6
  <2>2. PICK u \in up[d] : u \in done
    BY <1>6
  <2>3. CASE d \in above[t]
    BY <1>3, <2>2, <2>3
  <2>4. CASE d \in below[t] /\ d \notin down[t]
    <3>1. PICK x \in below[t] : d \in down[x]
      BY <1>4, <2>4
    <3>2. x \in D /\ x \in up[d]
      BY <1>1, <1>4, <3>1
    <3>3. QED
      BY <1>6, <3>1, <3>2
  <2>5. QED
    BY <2>1, <2>3, <2>4
<1>7. QED
  BY <1>5, <1>6

LEMMA DagInvReleases == DagInv => BypassReleases
<1> SUFFICES ASSUME DagInv, Collected("down"), Collected("up"), IsReduced(upstream_tasks),
                    NEW t \in Tasks \ {out_task}
             PROVE  LET done == {t} \cup BypassTasks(memo["up"], memo["down"], {t})
                        ready == {d \in Tasks \ done : /\ upstream_tasks[d] # {}
                                                       /\ upstream_tasks[d] \subseteq done}
                    IN  ready = downstream_tasks[t]
  BY DEF BypassReleases
<1> DEFINE up == upstream_tasks
           done == {t} \cup BypassTasks(memo["up"], memo["down"], {t})
<1>1. Acyclic(up) /\ t \in DOMAIN up /\ Tasks = DOMAIN up
  BY DEF DagInv, GraphInv, Tasks
<1>2. DOMAIN memo["up"] = Tasks /\ DOMAIN memo["down"] = Tasks
  BY AllStored DEF Direction
<1>3. memo["up"][t] = Closure(up)[t] /\ memo["down"][t] = Closure(Converse(up))[t]
  <2>1. /\ From(up, "up") = up /\ From(up, "down") = Converse(up)
        /\ "up" \in Direction /\ "down" \in Direction
    BY DEF From, Direction
  <2>2. QED
    BY <1>2, <2>1 DEF DagInv, MemoExact
<1>4. t \notin Closure(up)[t] /\ t \notin Closure(Converse(up))[t]
  BY <1>1, ClosureFixed, ConverseAcyclic
<1>5. done = {x \in DOMAIN up : /\ x \notin Closure(up)[t]
                                /\ x \notin Closure(Converse(up))[t]}
  BY <1>1, <1>2, <1>3, <1>4 DEF BypassTasks
<1>6. downstream_tasks[t] \subseteq Tasks
  BY <1>1, Directions DEF downstream_tasks, Converse
<1> HIDE DEF done
<1>7. \A d \in Tasks : d \in downstream_tasks[t] <=> d \notin done /\ up[d] # {} /\ up[d] \subseteq done
  BY <1>1, <1>5, ReleasedByBypass DEF downstream_tasks
<1>8. {d \in Tasks \ done : up[d] # {} /\ up[d] \subseteq done} = downstream_tasks[t]
  BY <1>6, <1>7
<1>9. QED
  BY <1>8 DEF done

(* In every graph without shortcuts, a context that has a task and its     *)
(* bypass tasks completed is ready for exactly the tasks downstream.       *)
THEOREM BypassReleasesDownstream == DagSpec => []BypassReleases
<1>1. QED
  BY DagInvariant, DagInvReleases, PTL

-----------------------------------------------------------------------------
(* SmartRWLock. *)

Modes == {"read", "write"}

(* A writer is alone. *)
Alone ==
  \A a, b \in Agent :
    pc[a] = "holding" /\ mode[a] = "write" /\ pc[b] = "holding" => a = b

IInv == TypeOK /\ FieldsExact /\ Alone /\ WaitersBlocked

(* The sets that the fields count are finite. *)
LEMMA FiniteAgents ==
  /\ IsFiniteSet(Agent)
  /\ \A S \in SUBSET Agent : IsFiniteSet(S) /\ Cardinality(S) \in Nat
<1>1. IsFiniteSet(Agent)
  BY FS_Union, LockAssumption DEF Agent
<1>2. QED
  BY <1>1, FS_Subset, FS_CardinalityType

(* What each field says when it is zero, or not. *)
LEMMA FieldsMean ==
  ASSUME TypeOK, FieldsExact
  PROVE  /\ _readers = 0 <=> \A a \in Agent : ~(pc[a] = "holding" /\ mode[a] = "read")
         /\ _writer_active <=> \E a \in Agent : pc[a] = "holding" /\ mode[a] = "write"
<1>1. Holders("read") \subseteq Agent /\ Holders("write") \subseteq Agent
  BY DEF Holders
<1>2. _readers = 0 <=> Holders("read") = {}
  BY <1>1, FiniteAgents, FS_EmptySet DEF FieldsExact
<1>3. QED
  BY <1>2 DEF FieldsExact, Holders

(* Taking a lock that is not blocked keeps the fields exact and the writer *)
(* alone.                                                                  *)
LEMMA TakeKeeps ==
  ASSUME IInv, NEW a \in Agent, NEW m \in Modes,
         pc[a] # "holding", ~Blocked(m), Take(a, m),
         mode' = [mode EXCEPT ![a] = m]
  PROVE  /\ _readers' \in Nat /\ _writer_active' \in BOOLEAN
         /\ pc' \in [Agent -> {"idle", "queued", "waiting", "woken", "holding"}]
         /\ mode' \in [Agent -> Modes]
         /\ _readers' = Cardinality(Holders("read")')
         /\ _writer_active' <=> Holders("write")' # {}
         /\ Alone'
<1> USE DEF IInv, Modes
<1>1. /\ _readers \in Nat /\ _writer_active \in BOOLEAN
      /\ pc \in [Agent -> {"idle", "queued", "waiting", "woken", "holding"}]
      /\ mode \in [Agent -> Modes]
  BY DEF TypeOK
<1>2. /\ pc' = [pc EXCEPT ![a] = "holding"]
      /\ pc'[a] = "holding" /\ mode'[a] = m
      /\ \A b \in Agent \ {a} : pc'[b] = pc[b] /\ mode'[b] = mode[b]
  BY <1>1 DEF Take
<1>3. /\ Holders("read")' = IF m = "read" THEN Holders("read") \cup {a} ELSE Holders("read")
      /\ Holders("write")' = IF m = "write" THEN Holders("write") \cup {a} ELSE Holders("write")
  BY <1>2 DEF Holders
<1>4. a \notin Holders("read") /\ IsFiniteSet(Holders("read"))
  BY FiniteAgents DEF Holders
<1>5. _readers' = Cardinality(Holders("read")')
  BY <1>1, <1>3, <1>4, FS_AddElement DEF Take, FieldsExact
<1>6. _writer_active' <=> Holders("write")' # {}
  BY <1>3 DEF Take, FieldsExact
<1>7. Alone'
  <2>1. m = "write" => \A b \in Agent : pc[b] # "holding"
    BY <1>1, FieldsMean DEF Blocked
  <2>2. m = "read" => \A b \in Agent : ~(pc[b] = "holding" /\ mode[b] = "write")
    BY <1>1, FieldsMean DEF Blocked
  <2>3. QED
    BY <1>1, <1>2, <2>1, <2>2 DEF Alone
<1>8. QED
  BY <1>1, <1>2, <1>5, <1>6, <1>7 DEF Take

(* Whoever still waits after that has something to wait for. *)
LEMMA TakeKeepsBlocked ==
  ASSUME IInv, NEW a \in Agent, NEW m \in Modes,
         ~Blocked(m), Take(a, m), mode' = [mode EXCEPT ![a] = m],
         _writers_waiting' \in Nat,
         m = "read" => _writers_waiting' = _writers_waiting
  PROVE  WaitersBlocked'
<1> SUFFICES ASSUME NEW b \in Agent, pc'[b] = "waiting"
             PROVE  Blocked(mode[b])'
  BY DEF WaitersBlocked
<1>1. b # a /\ pc[b] = "waiting" /\ mode'[b] = mode[b] /\ mode[b] \in Modes
  BY DEF IInv, TypeOK, Take, Modes
<1>2. Blocked(mode[b])
  BY <1>1 DEF IInv, WaitersBlocked
<1>3. CASE m = "write"
  BY <1>3, <1>1 DEF Take, Blocked
<1>4. CASE m = "read"
  BY <1>4, <1>1, <1>2 DEF Take, Blocked, Modes, IInv, TypeOK
<1>5. QED
  BY <1>3, <1>4 DEF Modes

-----------------------------------------------------------------------------
(* The lock starts free. *)
LEMMA InitOK == Init => IInv
<1> SUFFICES ASSUME Init PROVE IInv
  OBVIOUS
<1>1. TypeOK /\ Alone /\ WaitersBlocked
  BY DEF Init, TypeOK, Alone, WaitersBlocked
<1>2. Holders("read") = {} /\ Holders("write") = {} /\ WaitingWriters = {}
  BY DEF Init, Holders, WaitingWriters
<1>3. QED
  BY <1>1, <1>2, FS_EmptySet DEF Init, IInv, FieldsExact

(* _blocking_acquire_* up to its first wait, by an agent that is not yet   *)
(* counted as waiting.                                                     *)
LEMMA EnterOK ==
  ASSUME IInv, NEW a \in Agent, NEW m \in Modes,
         pc[a] \in {"idle", "queued"}, mode' = [mode EXCEPT ![a] = m],
         cancelled' = cancelled, Enter(a, m)
  PROVE  IInv'
<1> USE DEF IInv, Modes
<1>t. TypeOK
  OBVIOUS
<1>f. WaitingWriters \in SUBSET Agent /\ IsFiniteSet(WaitingWriters) /\ a \notin WaitingWriters
  BY FiniteAgents DEF WaitingWriters
<1>1. CASE ~Blocked(m) /\ Take(a, m) /\ UNCHANGED _writers_waiting
  <2>1. WaitingWriters' = WaitingWriters
    BY <1>1, <1>t DEF WaitingWriters, Take, TypeOK
  <2>2. WaitersBlocked'
    BY <1>1, <1>t, TakeKeepsBlocked DEF TypeOK
  <2>3. QED
    BY <1>1, <1>t, <2>1, <2>2, TakeKeeps DEF TypeOK, FieldsExact
<1>2. CASE /\ Blocked(m)
           /\ pc' = [pc EXCEPT ![a] = "waiting"]
           /\ _writers_waiting' = IF m = "write" THEN _writers_waiting + 1 ELSE _writers_waiting
           /\ UNCHANGED <<_readers, _writer_active>>
  <2>1. /\ pc'[a] = "waiting" /\ mode'[a] = m
        /\ \A b \in Agent \ {a} : pc'[b] = pc[b] /\ mode'[b] = mode[b]
    BY <1>2, <1>t DEF TypeOK
  <2>2. TypeOK'
    BY <1>2, <1>t DEF TypeOK
  <2>3. /\ Holders("read")' = Holders("read")
        /\ Holders("write")' = Holders("write")
    BY <2>1 DEF Holders
  <2>4. WaitingWriters' = IF m = "write" THEN WaitingWriters \cup {a} ELSE WaitingWriters
    BY <2>1 DEF WaitingWriters
  <2>5. FieldsExact'
    BY <1>2, <1>t, <1>f, <2>3, <2>4, FS_AddElement DEF FieldsExact, TypeOK
  <2>6. Alone'
    BY <2>1 DEF Alone
  <2>7. WaitersBlocked'
    <3> SUFFICES ASSUME NEW b \in Agent, pc'[b] = "waiting"
                 PROVE  Blocked(mode[b])'
      BY DEF WaitersBlocked
    <3>1. Blocked(mode'[b])
      BY <1>2, <2>1 DEF WaitersBlocked
    <3>2. QED
      BY <1>2, <1>t, <3>1 DEF Blocked, TypeOK
  <2>8. QED
    BY <2>2, <2>5, <2>6, <2>7
<1>3. QED
  BY <1>1, <1>2 DEF Enter

(* A coroutine that tries first. *)
LEMMA TryAcquireOK ==
  ASSUME IInv, NEW a \in Agent, NEW m \in Modes, TryAcquire(a, m)
  PROVE  IInv'
<1> USE DEF IInv, Modes
<1>t. TypeOK /\ pc[a] = "idle" /\ mode' = [mode EXCEPT ![a] = m]
  BY DEF TryAcquire
<1>1. CASE ~Blocked(m) /\ Take(a, m)
  <2>1. WaitingWriters' = WaitingWriters
    BY <1>1, <1>t DEF WaitingWriters, Take, TypeOK
  <2>2. WaitersBlocked'
    BY <1>1, <1>t, TakeKeepsBlocked DEF TypeOK, TryAcquire
  <2>3. QED
    BY <1>1, <1>t, <2>1, <2>2, TakeKeeps DEF TypeOK, FieldsExact, TryAcquire
<1>2. CASE pc' = [pc EXCEPT ![a] = "queued"] /\ UNCHANGED <<_readers, _writer_active>>
  <2>1. /\ pc'[a] = "queued"
        /\ \A b \in Agent \ {a} : pc'[b] = pc[b] /\ mode'[b] = mode[b]
    BY <1>2, <1>t DEF TypeOK
  <2>2. TypeOK'
    BY <1>2, <1>t DEF TypeOK, TryAcquire
  <2>3. /\ Holders("read")' = Holders("read")
        /\ Holders("write")' = Holders("write")
        /\ WaitingWriters' = WaitingWriters
    BY <2>1, <1>t DEF Holders, WaitingWriters
  <2>4. FieldsExact'
    BY <1>2, <2>3 DEF FieldsExact, TryAcquire
  <2>5. Alone' /\ WaitersBlocked'
    BY <1>2, <2>1 DEF Alone, WaitersBlocked, Blocked, TryAcquire
  <2>6. QED
    BY <2>2, <2>4, <2>5
<1>3. QED
  BY <1>1, <1>2 DEF TryAcquire

(* A woken thread that looks again. *)
LEMMA RecheckOK ==
  ASSUME IInv, NEW a \in Agent, Recheck(a)
  PROVE  IInv'
<1> USE DEF IInv, Modes
<1>t. /\ TypeOK /\ pc[a] = "woken" /\ mode[a] \in Modes
      /\ mode' = mode /\ mode' = [mode EXCEPT ![a] = mode[a]] /\ cancelled' = cancelled
  BY DEF Recheck, TypeOK
<1>f. WaitingWriters \in SUBSET Agent /\ IsFiniteSet(WaitingWriters)
  BY FiniteAgents DEF WaitingWriters
<1>1. CASE /\ ~Blocked(mode[a])
           /\ Take(a, mode[a])
           /\ _writers_waiting' =
                IF mode[a] = "write" THEN _writers_waiting - 1 ELSE _writers_waiting
  <2>1. WaitingWriters' = WaitingWriters \ {a}
    BY <1>1, <1>t DEF WaitingWriters, Take, TypeOK
  <2>2. a \in WaitingWriters <=> mode[a] = "write"
    BY <1>t DEF WaitingWriters
  <2>3. _writers_waiting' = Cardinality(WaitingWriters')
    <3>1. CASE mode[a] = "write"
      BY <1>1, <1>f, <2>1, <2>2, <3>1, FS_RemoveElement DEF FieldsExact
    <3>2. CASE mode[a] = "read"
      <4>1. WaitingWriters' = WaitingWriters
        BY <2>1, <2>2, <3>2
      <4>2. QED
        BY <1>1, <3>2, <4>1 DEF FieldsExact
    <3>3. QED
      BY <3>1, <3>2, <1>t
  <2>4. _writers_waiting' \in Nat
    BY <2>3, FiniteAgents DEF WaitingWriters
  <2>5. WaitersBlocked'
    BY <1>1, <1>t, <2>4, TakeKeepsBlocked
  <2>6. QED
    BY <1>1, <1>t, <2>3, <2>4, <2>5, TakeKeeps DEF TypeOK, FieldsExact
<1>2. CASE /\ Blocked(mode[a])
           /\ pc' = [pc EXCEPT ![a] = "waiting"]
           /\ UNCHANGED <<_readers, _writers_waiting, _writer_active>>
  <2>1. /\ pc'[a] = "waiting"
        /\ \A b \in Agent \ {a} : pc'[b] = pc[b]
    BY <1>2, <1>t DEF TypeOK
  <2>2. /\ Holders("read")' = Holders("read")
        /\ Holders("write")' = Holders("write")
        /\ WaitingWriters' = WaitingWriters
    BY <2>1, <1>t DEF Holders, WaitingWriters
  <2>3. TypeOK' /\ FieldsExact'
    BY <1>2, <1>t, <2>2 DEF TypeOK, FieldsExact
  <2>4. Alone' /\ WaitersBlocked'
    BY <1>2, <1>t, <2>1 DEF Alone, WaitersBlocked, Blocked
  <2>5. QED
    BY <2>3, <2>4
<1>3. QED
  BY <1>1, <1>2 DEF Recheck

(* A reader leaves. *)
LEMMA ReleaseReadOK ==
  ASSUME IInv, NEW a \in Agent, ReleaseRead(a)
  PROVE  IInv'
<1> USE DEF IInv
<1>t. TypeOK /\ pc[a] = "holding" /\ mode[a] = "read" /\ mode' = mode
  BY DEF ReleaseRead
<1>1. /\ pc' \in [Agent -> {"idle", "queued", "waiting", "woken", "holding"}]
      /\ pc'[a] = "idle"
      /\ \A b \in Agent \ {a} :
           \/ pc'[b] = pc[b] /\ (_readers = 1 => pc[b] # "waiting")
           \/ pc[b] = "waiting" /\ pc'[b] = "woken"
  BY <1>t DEF ReleaseRead, Leave, TypeOK
<1>2. /\ Holders("read")' = Holders("read") \ {a}
      /\ Holders("write")' = Holders("write")
      /\ WaitingWriters' = WaitingWriters
  BY <1>1, <1>t DEF Holders, WaitingWriters
<1>3. a \in Holders("read") /\ Holders("read") \in SUBSET Agent
  BY <1>t DEF Holders
<1>4. FieldsExact'
  BY <1>2, <1>3, FiniteAgents, FS_RemoveElement DEF FieldsExact, ReleaseRead
<1>5. _readers' \in Nat /\ _readers' = _readers - 1
  BY <1>2, <1>3, <1>4, FiniteAgents DEF FieldsExact, ReleaseRead
<1>6. TypeOK'
  BY <1>1, <1>5, <1>t DEF TypeOK, ReleaseRead
<1>7. Alone'
  BY <1>1, <1>t DEF Alone
<1>8. WaitersBlocked'
  <2> SUFFICES ASSUME NEW b \in Agent, pc'[b] = "waiting"
               PROVE  Blocked(mode[b])'
    BY DEF WaitersBlocked
  <2>1. pc[b] = "waiting" /\ _readers # 1 /\ Blocked(mode[b])
    BY <1>1 DEF WaitersBlocked
  <2>2. _readers' > 0
    BY <1>5, <2>1, <1>t DEF TypeOK
  <2>3. QED
    BY <1>t, <2>1, <2>2 DEF Blocked, ReleaseRead
<1>9. QED
  BY <1>4, <1>6, <1>7, <1>8

(* A writer leaves. *)
LEMMA ReleaseWriteOK ==
  ASSUME IInv, NEW a \in Agent, ReleaseWrite(a)
  PROVE  IInv'
<1> USE DEF IInv
<1>t. TypeOK /\ pc[a] = "holding" /\ mode[a] = "write" /\ mode' = mode
  BY DEF ReleaseWrite
<1>1. /\ pc' \in [Agent -> {"idle", "queued", "waiting", "woken", "holding"}]
      /\ pc'[a] = "idle"
      /\ \A b \in Agent \ {a} : \/ pc'[b] = pc[b] /\ pc[b] # "waiting"
                                \/ pc[b] = "waiting" /\ pc'[b] = "woken"
  BY <1>t DEF ReleaseWrite, Leave, TypeOK
<1>2. \A b \in Agent \ {a} : pc[b] # "holding"
  BY <1>t DEF Alone
<1>3. /\ Holders("read")' = Holders("read")
      /\ Holders("write")' = {}
      /\ WaitingWriters' = WaitingWriters
  BY <1>1, <1>2, <1>t DEF Holders, WaitingWriters
<1>4. TypeOK' /\ FieldsExact'
  BY <1>1, <1>3, <1>t DEF TypeOK, FieldsExact, ReleaseWrite
<1>5. Alone' /\ WaitersBlocked'
  BY <1>1, <1>2 DEF Alone, WaitersBlocked
<1>6. QED
  BY <1>4, <1>5

(* A coroutine is cancelled. *)
LEMMA CancelOK ==
  ASSUME IInv, NEW a \in Agent, Cancel(a)
  PROVE  IInv'
<1> USE DEF IInv
<1>1. /\ TypeOK /\ mode' = mode
      /\ _readers' = _readers /\ _writers_waiting' = _writers_waiting
      /\ _writer_active' = _writer_active
  BY DEF Cancel
<1>2. /\ pc' \in [Agent -> {"idle", "queued", "waiting", "woken", "holding"}]
      /\ cancelled' \subseteq Agent
      /\ \A b \in Agent : pc'[b] = pc[b] \/ (pc[b] = "queued" /\ pc'[b] = "idle")
  BY <1>1 DEF Cancel, TypeOK
<1>3. /\ Holders("read")' = Holders("read")
      /\ Holders("write")' = Holders("write")
      /\ WaitingWriters' = WaitingWriters
  BY <1>1, <1>2 DEF Holders, WaitingWriters
<1>4. TypeOK' /\ FieldsExact'
  BY <1>1, <1>2, <1>3 DEF TypeOK, FieldsExact
<1>5. Alone' /\ WaitersBlocked'
  BY <1>1, <1>2 DEF Alone, WaitersBlocked, Blocked
<1>6. QED
  BY <1>4, <1>5

(* Every step of the lock keeps the invariant. *)
LEMMA StepOK == IInv /\ [Next]_vars => IInv'
<1> SUFFICES ASSUME IInv, [Next]_vars PROVE IInv'
  OBVIOUS
<1> USE DEF Modes
<1>1. ASSUME NEW a \in Agent, NEW m \in Modes, Acquire(a, m) PROVE IInv'
  BY <1>1, EnterOK DEF Acquire
<1>2. ASSUME NEW a \in Agent, RunQueued(a) PROVE IInv'
  <2>1. mode' = [mode EXCEPT ![a] = mode[a]] /\ mode[a] \in Modes
    BY <1>2 DEF RunQueued, IInv, TypeOK
  <2>2. QED
    BY <1>2, <2>1, EnterOK DEF RunQueued
<1>3. CASE UNCHANGED vars
  <2>1. /\ Holders("read")' = Holders("read")
        /\ Holders("write")' = Holders("write")
        /\ WaitingWriters' = WaitingWriters
    BY <1>3 DEF vars, Holders, WaitingWriters
  <2>2. QED
    BY <1>3, <2>1 DEF vars, IInv, TypeOK, FieldsExact, Alone, WaitersBlocked, Blocked
<1>4. QED
  BY <1>1, <1>2, <1>3, TryAcquireOK, RecheckOK, ReleaseReadOK, ReleaseWriteOK, CancelOK
     DEF Next, Agent

(* The invariant holds in every state of the lock. *)
LEMMA Invariance == Spec => []IInv
<1>1. QED
  BY InitOK, StepOK, PTL DEF Spec

-----------------------------------------------------------------------------
(* The fields of a SmartRWLock are exact: _readers, _writers_waiting and   *)
(* _writer_active describe who holds the lock and who waits for it, under  *)
(* any interleaving of acquires, releases, wakeups and cancellations.      *)
THEOREM FieldsAlwaysExact == Spec => []FieldsExact
<1>1. IInv => FieldsExact
  BY DEF IInv
<1>2. QED
  BY <1>1, Invariance, PTL

(* No wakeup is lost: nobody is left in the wait set of _cond with nothing *)
(* to wait for, although _release_read notifies only when the last reader  *)
(* leaves.                                                                 *)
THEOREM NoLostWakeup == Spec => []WaitersBlocked
<1>1. IInv => WaitersBlocked
  BY DEF IInv
<1>2. QED
  BY <1>1, Invariance, PTL

(* An agent that takes an unblocked lock makes an acquiring step of the    *)
(* abstract lock.                                                          *)
LEMMA TakeImplements ==
  ASSUME IInv, NEW a \in Agent, NEW m \in Modes,
         pc[a] # "holding", ~Blocked(m), Take(a, m), mode' = [mode EXCEPT ![a] = m]
  PROVE  RW!Next
<1> DEFINE held == [b \in Agent |-> IF pc[b] = "holding" THEN mode[b] ELSE "none"]
<1> USE DEF Modes
<1>1. TypeOK /\ FieldsExact
  BY DEF IInv
<1>2. held' = [held EXCEPT ![a] = m]
  BY <1>1 DEF TypeOK, Take
<1>3. CASE m = "read"
  <2>1. held[a] = "none" /\ \A b \in Agent : held[b] # "write"
    BY <1>1, <1>3, FieldsMean DEF Blocked
  <2>2. RW!AcquireRead(a)
    BY <1>2, <1>3, <2>1 DEF RW!AcquireRead
  <2>3. QED
    BY <2>2 DEF RW!Next
<1>4. CASE m = "write"
  <2>1. \A b \in Agent : held[b] = "none"
    BY <1>1, <1>4, FieldsMean DEF Blocked, TypeOK
  <2>2. RW!AcquireWrite(a)
    BY <1>2, <1>4, <2>1 DEF RW!AcquireWrite
  <2>3. QED
    BY <2>2 DEF RW!Next
<1>5. QED
  BY <1>3, <1>4

(* SmartRWLock implements the abstract read-write lock: every step of its  *)
(* code is an acquire or a release that the abstract lock allows, or       *)
(* changes nothing that an agent holds.                                    *)
THEOREM SmartRWLockImplements == Spec => Implements
<1> DEFINE held == [a \in Agent |-> IF pc[a] = "holding" THEN mode[a] ELSE "none"]
<1> USE DEF Modes
<1>1. Init => RW!Init
  BY DEF Init, RW!Init
<1>2. IInv /\ [Next]_vars => [RW!Next]_held
  <2> SUFFICES ASSUME IInv, [Next]_vars PROVE RW!Next \/ held' = held
    OBVIOUS
  <2>t. TypeOK
    BY DEF IInv
  <2>1. ASSUME NEW a \in Agent, NEW m \in Modes, pc[a] # "holding",
               mode' = [mode EXCEPT ![a] = m], Enter(a, m)
        PROVE  RW!Next \/ held' = held
    BY <2>1, <2>t, TakeImplements DEF Enter, TypeOK
  <2>2. ASSUME NEW a \in Agent, NEW m \in Modes, Acquire(a, m)
        PROVE  RW!Next \/ held' = held
    BY <2>1, <2>2 DEF Acquire
  <2>3. ASSUME NEW a \in Agent, NEW m \in Modes, TryAcquire(a, m)
        PROVE  RW!Next \/ held' = held
    BY <2>3, <2>t, TakeImplements DEF TryAcquire, TypeOK
  <2>4. ASSUME NEW a \in Agent, RunQueued(a) PROVE RW!Next \/ held' = held
    BY <2>1, <2>4, <2>t DEF RunQueued, TypeOK
  <2>5. ASSUME NEW a \in Agent, Recheck(a) PROVE RW!Next \/ held' = held
    BY <2>5, <2>t, TakeImplements DEF Recheck, TypeOK
  <2>6. ASSUME NEW a \in Agent, ReleaseRead(a) \/ ReleaseWrite(a)
        PROVE  RW!Next \/ held' = held
    <3>1. held[a] # "none" /\ held' = [held EXCEPT ![a] = "none"]
      BY <2>6, <2>t DEF ReleaseRead, ReleaseWrite, Leave, TypeOK
    <3>2. RW!Release(a)
      BY <3>1 DEF RW!Release
    <3>3. QED
      BY <3>2 DEF RW!Next
  <2>7. ASSUME NEW a \in Agent, Cancel(a) PROVE RW!Next \/ held' = held
    BY <2>7, <2>t DEF Cancel, TypeOK
  <2>8. CASE UNCHANGED vars
    BY <2>8 DEF vars
  <2>9. QED
    BY <2>2, <2>3, <2>4, <2>5, <2>6, <2>7, <2>8 DEF Next, Agent
<1>3. QED
  BY <1>1, <1>2, Invariance, PTL DEF Spec, RW!Spec, Implements
=============================================================================
