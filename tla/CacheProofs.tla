---------------------------- MODULE CacheProofs ----------------------------
(***************************************************************************)
(* The persistent caches, for any number of processes, any keys and        *)
(* values, any set of configurations and any bound on their use.           *)
(***************************************************************************)
EXTENDS Cache, FiniteSetTheorems, SequenceTheorems, WellFoundedInduction, TLAPS

-----------------------------------------------------------------------------
(* Induction.                                                              *)

(* Every set of natural numbers that is not empty has a least element. *)
LEMMA Least ==
  ASSUME NEW T, T \subseteq Nat, T # {}
  PROVE  \E x \in T : \A y \in T : x <= y
<1>1. PICK n \in T : TRUE
  OBVIOUS
<1> DEFINE F == {0 .. k : k \in {i \in T : i <= n}}
<1>2. IsFiniteSet(0 .. n)
  BY <1>1, FS_Interval
<1>3. IsWellFoundedOn(StrictSubsetOrdering(0 .. n), SUBSET (0 .. n))
  BY <1>2, FS_StrictSubsetOrderingWellFounded, FS_FiniteSubsetsOfFinite
<1>4. F \subseteq SUBSET (0 .. n) /\ F # {}
  BY <1>1
<1>5. PICK X \in F : \A Y \in F : <<Y, X>> \notin StrictSubsetOrdering(0 .. n)
  BY <1>3, <1>4, WFMin
<1>6. PICK x \in T : x <= n /\ X = 0 .. x
  BY <1>5
<1>7. ASSUME NEW y \in T PROVE x <= y
  <2> SUFFICES ASSUME y < x PROVE FALSE
    BY <1>1, <1>6
  <2>1. 0 .. y \in F
    BY <1>6, <1>1
  <2>2. (0 .. y) \subseteq (0 .. x) /\ 0 .. y # 0 .. x
    BY <1>6
  <2> QED BY <2>1, <2>2, <1>5, <1>6, <1>4 DEF StrictSubsetOrdering
<1> QED BY <1>7

(* Induction on the natural numbers, with a set for the property. *)
LEMMA Reaches ==
  ASSUME NEW S, 0 \in S, \A n \in Nat : n \in S => n + 1 \in S
  PROVE  Nat \subseteq S
<1> SUFFICES ASSUME Nat \ S # {} PROVE FALSE
  OBVIOUS
<1>1. PICK x \in Nat \ S : \A y \in Nat \ S : x <= y
  BY Least
<1>2. x # 0 /\ x - 1 \in Nat /\ x - 1 \in S
  BY <1>1
<1>3. QED
  BY <1>1, <1>2

(* What the folds over sets recur on. *)
LEMMA Smaller ==
  ASSUME NEW S, IsFiniteSet(S), NEW s \in SUBSET S
  PROVE  /\ Cardinality(s) \in Nat /\ Cardinality(s) <= Cardinality(S)
         /\ Cardinality(s) <= 0 => s = {}
         /\ \A x \in s : /\ s \ {x} \in SUBSET S
                        /\ Cardinality(s) # 0 /\ Cardinality(s \ {x}) = Cardinality(s) - 1
<1>1. IsFiniteSet(s) /\ Cardinality(s) \in Nat /\ Cardinality(s) <= Cardinality(S)
  BY FS_Subset, FS_CardinalityType
<1>2. Cardinality(s) <= 0 <=> s = {}
  BY <1>1, FS_EmptySet
<1>3. ASSUME NEW x \in s PROVE Cardinality(s \ {x}) = Cardinality(s) - 1
  BY <1>1, FS_RemoveElement
<1>4. QED
  BY <1>1, <1>2, <1>3

(* The index FoldLeft recurs on is one of the indices. *)
LEMMA MaxOf ==
  ASSUME NEW n \in Nat, NEW s \in SUBSET (1 .. n), s # {}
  PROVE  Max(s) \in s
<1> DEFINE T == {n - x : x \in s}
<1>1. T \subseteq Nat /\ T # {}
  <2>1. \A x \in s : n - x \in Nat
    OBVIOUS
  <2>2. QED
    BY <2>1
<1>2. PICK y \in T : \A z \in T : y <= z
  BY <1>1, Least
<1>3. PICK x \in s : y = n - x
  BY <1>2
<1>4. \A z \in s : x >= z
  <2> SUFFICES ASSUME NEW z \in s PROVE x >= z
    OBVIOUS
  <2>1. n - x <= n - z
    BY <1>2, <1>3
  <2>2. x \in Nat /\ z \in Nat
    OBVIOUS
  <2>3. QED
    BY <2>1, <2>2
<1>5. QED
  BY <1>4 DEF Max

-----------------------------------------------------------------------------
(* Dictionaries.                                                           *)

(* A sequence of entries in which no key occurs twice. *)
Dictionary(m) ==
  /\ m \in Seq(Entries(m))
  /\ \A i, j \in DOMAIN m : m[i].key = m[j].key => i = j

(* A sequence and its length. *)
LEMMA Shape ==
  ASSUME NEW m, Dictionary(m)
  PROVE  /\ Len(m) \in Nat /\ DOMAIN m = 1 .. Len(m)
         /\ \A i \in DOMAIN m : m[i] \in Entries(m) /\ m[i].key \in Keys(m)
<1>1. m \in Seq(Entries(m))
  BY DEF Dictionary
<1>2. QED
  BY <1>1, LenProperties DEF Entries, Keys

(* What shows that a sequence is a dictionary. *)
LEMMA IsDictionary ==
  ASSUME NEW S, NEW m \in Seq(S), \A i, j \in DOMAIN m : m[i].key = m[j].key => i = j
  PROVE  Dictionary(m)
<1>1. m \in [1 .. Len(m) -> S] /\ Len(m) \in Nat
  BY LenProperties
<1>2. m \in [1 .. Len(m) -> Entries(m)]
  BY <1>1 DEF Entries
<1>3. m \in Seq(Entries(m))
  BY <1>1, <1>2
<1>4. QED
  BY <1>3 DEF Dictionary

(* The empty dictionary. *)
LEMMA NoEntries ==
  /\ Dictionary(<<>>) /\ Keys(<<>>) = {} /\ Entries(<<>>) = {}
  /\ Len(<<>>) = 0 /\ KeyOrder(<<>>) = <<>>
<1>1. Keys(<<>>) = {} /\ Entries(<<>>) = {}
  BY DEF Keys, Entries
<1>2. Dictionary(<<>>)
  BY DEF Dictionary, Entries
<1>3. QED
  BY <1>1, <1>2 DEF KeyOrder

(* A new key goes to the end. *)
LEMMA AppendEntry ==
  ASSUME NEW m, Dictionary(m), NEW e, e.key \notin Keys(m)
  PROVE  /\ Dictionary(Append(m, e)) /\ Len(Append(m, e)) = Len(m) + 1
         /\ Keys(Append(m, e)) = Keys(m) \cup {e.key}
         /\ Entries(Append(m, e)) = Entries(m) \cup {e}
         /\ \A i \in 1 .. Len(m) : Append(m, e)[i] = m[i]
         /\ Append(m, e)[Len(m) + 1] = e
<1> DEFINE S == Entries(m) \cup {e}
           n == Append(m, e)
<1>1. Len(m) \in Nat /\ DOMAIN m = 1 .. Len(m) /\ m \in Seq(S)
      /\ \A i \in DOMAIN m : m[i].key \in Keys(m)
  <2>1. m \in Seq(Entries(m))
    BY DEF Dictionary
  <2>2. QED
    BY <2>1, Shape
<1>2. /\ n \in Seq(S) /\ Len(n) = Len(m) + 1 /\ DOMAIN n = 1 .. Len(m) + 1
      /\ \A i \in 1 .. Len(m) : n[i] = m[i]
      /\ n[Len(m) + 1] = e
  <2>1. m \in Seq(S) /\ e \in S
    BY <1>1
  <2> HIDE DEF S
  <2>2. QED
    BY <2>1, AppendProperties, LenProperties
<1> HIDE DEF n
<1>3. \A i, j \in DOMAIN n : n[i].key = n[j].key => i = j
  BY <1>1, <1>2 DEF Dictionary
<1>4. Dictionary(n)
  BY <1>2, <1>3, IsDictionary
<1>5. DOMAIN n = DOMAIN m \cup {Len(m) + 1}
  BY <1>1, <1>2
<1>6. Keys(n) = Keys(m) \cup {e.key} /\ Entries(n) = Entries(m) \cup {e}
  BY <1>1, <1>2, <1>5 DEF Keys, Entries
<1>7. QED
  BY <1>2, <1>4, <1>6 DEF n

(* Assignment adds at most its key. *)
LEMMA AssignEntry ==
  ASSUME NEW m, Dictionary(m), NEW e
  PROVE  /\ Dictionary(Assign(m, e)) /\ Keys(Assign(m, e)) = Keys(m) \cup {e.key}
         /\ e \in Entries(m) => Assign(m, e) = m
<1>0. Len(m) \in Nat /\ DOMAIN m = 1 .. Len(m) /\ m \in Seq(Entries(m))
  BY Shape DEF Dictionary
<1>1. CASE e.key \notin Keys(m)
  <2>1. Assign(m, e) = Append(m, e) /\ e \notin Entries(m)
    BY <1>1 DEF Assign, Entries, Keys
  <2>2. QED
    BY <1>1, <2>1, AppendEntry
<1>2. CASE e.key \in Keys(m)
  <2> DEFINE S == Entries(m) \cup {e}
             n == [i \in 1 .. Len(m) |-> IF m[i].key = e.key THEN e ELSE m[i]]
  <2>1. Assign(m, e) = n
    BY <1>0, <1>2 DEF Assign
  <2>2. n \in Seq(S) /\ DOMAIN n = DOMAIN m
    BY <1>0 DEF Entries
  <2>3. \A i \in DOMAIN m : n[i].key = m[i].key
    BY <1>0
  <2>4. e \in Entries(m) => \A i \in DOMAIN m : n[i] = m[i]
    BY <1>0 DEF Dictionary, Entries
  <2> HIDE DEF n
  <2>5. \A i, j \in DOMAIN n : n[i].key = n[j].key => i = j
    BY <2>2, <2>3 DEF Dictionary
  <2>6. Dictionary(n)
    BY <2>2, <2>5, IsDictionary
  <2>7. Keys(n) = Keys(m)
    BY <2>2, <2>3 DEF Keys
  <2>8. e \in Entries(m) => n = m
    <3>1. m = [i \in 1 .. Len(m) |-> m[i]] /\ n = [i \in 1 .. Len(m) |-> n[i]]
      BY <1>0, <2>2 DEF n
    <3>2. QED
      BY <3>1, <2>4, <1>0
  <2>9. QED
    BY <2>1, <2>6, <2>7, <2>8, <1>2
<1>3. QED
  BY <1>1, <1>2

(* Removal of one element. *)
LEMMA RemoveFacts ==
  ASSUME NEW S, NEW s \in Seq(S), NEW i \in 1 .. Len(s)
  PROVE  /\ RemoveAt(s, i) \in Seq(S) /\ Len(RemoveAt(s, i)) = Len(s) - 1
         /\ DOMAIN RemoveAt(s, i) = 1 .. Len(s) - 1
         /\ \A j \in 1 .. Len(s) - 1 : RemoveAt(s, i)[j] = IF j < i THEN s[j] ELSE s[j + 1]
<1> DEFINE a == SubSeq(s, 1, i - 1)
           b == SubSeq(s, i + 1, Len(s))
<1>0. Len(s) \in Nat /\ i \in Int /\ i >= 1 /\ i <= Len(s)
      /\ \A j \in 1 .. Len(s) : s[j] \in S
  BY LenProperties
<1>1. a \in Seq(S) /\ Len(a) = i - 1 /\ \A j \in 1 .. i - 1 : a[j] = s[j]
  BY <1>0
<1>2. b \in Seq(S) /\ Len(b) = Len(s) - i /\ \A j \in 1 .. Len(s) - i : b[j] = s[i + j]
  <2>1. /\ b \in Seq(S) /\ Len(b) = IF i + 1 <= Len(s) THEN Len(s) - (i + 1) + 1 ELSE 0
        /\ \A j \in 1 .. Len(s) - (i + 1) + 1 : b[j] = s[i + 1 + j - 1]
    <3>1. i + 1 \in Int /\ Len(s) \in Int /\ \A j \in i + 1 .. Len(s) : s[j] \in S
      BY <1>0
    <3>2. QED
      BY <3>1, SubSeqProperties
  <2>2. Len(b) = Len(s) - i
    BY <2>1, <1>0
  <2>3. ASSUME NEW j \in 1 .. Len(s) - i PROVE b[j] = s[i + j]
    <3>1. j \in 1 .. Len(s) - (i + 1) + 1 /\ i + 1 + j - 1 = i + j
      BY <1>0
    <3>2. QED
      BY <2>1, <3>1
  <2>4. QED
    BY <2>1, <2>2, <2>3
<1>3. RemoveAt(s, i) = a \o b
  BY DEF RemoveAt
<1> HIDE DEF a, b
<1>4. a \o b \in Seq(S) /\ Len(a \o b) = Len(s) - 1 /\ DOMAIN (a \o b) = 1 .. Len(s) - 1
  <2>1. a \o b \in Seq(S) /\ Len(a \o b) = Len(a) + Len(b)
    BY <1>1, <1>2, ConcatProperties
  <2>2. Len(a) + Len(b) = Len(s) - 1
    BY <1>0, <1>1, <1>2
  <2>3. QED
    BY <2>1, <2>2, LenProperties
<1>5. ASSUME NEW j \in 1 .. Len(s) - 1
      PROVE  (a \o b)[j] = IF j < i THEN s[j] ELSE s[j + 1]
  <2>0. j \in Int /\ j >= 1 /\ j <= Len(s) - 1
    BY <1>0
  <2>1. (a \o b)[j] = IF j <= Len(a) THEN a[j] ELSE b[j - Len(a)]
    BY <1>0, <1>1, <1>2, ConcatProperties
  <2>2. CASE j < i
    BY <2>1, <2>2, <1>0, <1>1
  <2>3. CASE ~(j < i)
    <3>1. j - (i - 1) \in 1 .. Len(s) - i /\ i + (j - (i - 1)) = j + 1
      BY <2>0, <2>3, <1>0
    <3>2. (a \o b)[j] = b[j - (i - 1)]
      BY <2>1, <2>0, <2>3, <1>0, <1>1
    <3>3. QED
      BY <3>1, <3>2, <2>3, <1>2
  <2>4. QED
    BY <2>2, <2>3
<1>6. QED
  BY <1>3, <1>4, <1>5

-----------------------------------------------------------------------------
(* Orders of keys.                                                         *)

(* A sequence without repetitions. *)
Line(s) ==
  /\ s \in Seq(Range(s))
  /\ \A i, j \in DOMAIN s : s[i] = s[j] => i = j

(* s is the end of t. *)
Trails(s, t) ==
  Len(s) <= Len(t) /\ \A i \in 1 .. Len(s) : s[i] = t[Len(t) - Len(s) + i]

(* A line and its length. *)
LEMMA LineShape ==
  ASSUME NEW s, Line(s)
  PROVE  Len(s) \in Nat /\ DOMAIN s = 1 .. Len(s) /\ \A i \in 1 .. Len(s) : s[i] \in Range(s)
<1>1. s \in Seq(Range(s))
  BY DEF Line
<1>2. Len(s) \in Nat /\ DOMAIN s = 1 .. Len(s)
  BY <1>1, LenProperties
<1>3. QED
  BY <1>2 DEF Range

(* What shows that a sequence is a line. *)
LEMMA IsLine ==
  ASSUME NEW S, NEW s \in Seq(S), \A i, j \in DOMAIN s : s[i] = s[j] => i = j
  PROVE  Line(s)
<1>1. s \in [1 .. Len(s) -> S] /\ Len(s) \in Nat
  BY LenProperties
<1>2. s \in [1 .. Len(s) -> Range(s)]
  BY <1>1 DEF Range
<1>3. s \in Seq(Range(s))
  BY <1>1, <1>2
<1>4. QED
  BY <1>3 DEF Line

(* Where a key is in a line. *)
LEMMA PlaceFacts ==
  ASSUME NEW s, Line(s), NEW k \in Range(s)
  PROVE  /\ Place(s, k) \in 1 .. Len(s) /\ s[Place(s, k)] = k
         /\ \A i \in 1 .. Len(s) : s[i] = k => i = Place(s, k)
<1>1. \E i \in DOMAIN s : s[i] = k
  BY DEF Range
<1>2. Place(s, k) \in DOMAIN s /\ s[Place(s, k)] = k
  BY <1>1 DEF Place
<1>3. DOMAIN s = 1 .. Len(s)
  BY LineShape
<1>4. QED
  BY <1>2, <1>3 DEF Line

(* A line without k. *)
LEMMA ForgottenLine ==
  ASSUME NEW s, Line(s), NEW k
  PROVE  Line(Forgotten(s, k)) /\ \A i \in DOMAIN Forgotten(s, k) : Forgotten(s, k)[i] # k
<1>1. CASE k \notin Range(s)
  <2>1. Forgotten(s, k) = s
    BY <1>1 DEF Forgotten
  <2>2. QED
    BY <2>1, <1>1 DEF Range
<1>2. CASE k \in Range(s)
  <2> DEFINE x == Place(s, k)
             r == RemoveAt(s, x)
  <2>1. Forgotten(s, k) = r
    BY <1>2 DEF Forgotten
  <2>2. /\ x \in 1 .. Len(s) /\ s[x] = k /\ Len(s) \in Nat /\ s \in Seq(Range(s))
        /\ \A i \in 1 .. Len(s) : s[i] = k => i = x
    BY <1>2, PlaceFacts, LineShape DEF Line
  <2>3. \A i, j \in 1 .. Len(s) : s[i] = s[j] => i = j
    BY LineShape DEF Line
  <2> HIDE DEF x
  <2>4. /\ r \in Seq(Range(s)) /\ DOMAIN r = 1 .. Len(s) - 1
        /\ \A j \in 1 .. Len(s) - 1 : r[j] = IF j < x THEN s[j] ELSE s[j + 1]
    BY <2>2, RemoveFacts
  <2> HIDE DEF r
  <2>5. \A i, j \in DOMAIN r : r[i] = r[j] => i = j
    <3> SUFFICES ASSUME NEW i \in 1 .. Len(s) - 1, NEW j \in 1 .. Len(s) - 1, r[i] = r[j]
                 PROVE  i = j
      BY <2>4
    <3> DEFINE a == IF i < x THEN i ELSE i + 1
               b == IF j < x THEN j ELSE j + 1
    <3>1. a \in 1 .. Len(s) /\ b \in 1 .. Len(s) /\ (a = b => i = j)
      BY <2>2
    <3>2. s[a] = r[i] /\ s[b] = r[j]
      BY <2>4
    <3> HIDE DEF a, b
    <3>3. QED
      BY <3>1, <3>2, <2>3
  <2>6. \A i \in DOMAIN r : r[i] # k
    <3> SUFFICES ASSUME NEW i \in 1 .. Len(s) - 1, r[i] = k PROVE FALSE
      BY <2>4
    <3> DEFINE a == IF i < x THEN i ELSE i + 1
    <3>1. a \in 1 .. Len(s) /\ a # x
      BY <2>2
    <3>2. s[a] = r[i]
      BY <2>4
    <3> HIDE DEF a
    <3>3. QED
      BY <3>1, <3>2, <2>2
  <2>7. Line(r)
    BY <2>4, <2>5, IsLine
  <2>8. QED
    BY <2>1, <2>6, <2>7
<1>3. QED
  BY <1>1, <1>2

(* A key that is not in the line goes to its end. *)
LEMMA AppendLine ==
  ASSUME NEW s, Line(s), NEW k, \A i \in DOMAIN s : s[i] # k
  PROVE  /\ Line(Append(s, k)) /\ Len(Append(s, k)) = Len(s) + 1
         /\ \A i \in 1 .. Len(s) : Append(s, k)[i] = s[i]
         /\ Append(s, k)[Len(s) + 1] = k
<1> DEFINE S == Range(s) \cup {k}
           r == Append(s, k)
<1>1. Len(s) \in Nat /\ DOMAIN s = 1 .. Len(s) /\ s \in Seq(S) /\ k \in S
  BY LineShape DEF Line
<1> HIDE DEF S
<1>2. /\ r \in Seq(S) /\ Len(r) = Len(s) + 1 /\ DOMAIN r = 1 .. Len(s) + 1
      /\ \A i \in 1 .. Len(s) : r[i] = s[i]
      /\ r[Len(s) + 1] = k
  BY <1>1, AppendProperties, LenProperties
<1> HIDE DEF r
<1>3. \A i, j \in DOMAIN r : r[i] = r[j] => i = j
  BY <1>1, <1>2 DEF Line
<1>4. Line(r)
  BY <1>2, <1>3, IsLine
<1>5. QED
  BY <1>2, <1>4 DEF r

(* Forgetting a key, in a line and in its end. *)
LEMMA TrailForgotten ==
  ASSUME NEW s, Line(s), NEW t, Line(t), Trails(s, t), NEW k
  PROVE  Trails(Forgotten(s, k), Forgotten(t, k))
<1> DEFINE d == Len(t) - Len(s)
<1>0. /\ Len(s) \in Nat /\ Len(t) \in Nat /\ d \in Nat
      /\ s \in Seq(Range(s)) /\ t \in Seq(Range(t))
      /\ \A i \in 1 .. Len(s) : d + i \in 1 .. Len(t) /\ s[i] = t[d + i]
      /\ \A i \in 1 .. Len(s) : s[i] \in Range(s)
      /\ \A i \in 1 .. Len(t) : t[i] \in Range(t)
  BY LineShape DEF Trails, Line
<1>1. CASE k \in Range(s)
  <2> DEFINE x == Place(s, k)
             y == Place(t, k)
             r == RemoveAt(s, x)
             u == RemoveAt(t, y)
  <2>1. x \in 1 .. Len(s) /\ s[x] = k
    BY <1>1, PlaceFacts
  <2>2. k \in Range(t) /\ t[d + x] = k
    BY <1>0, <2>1
  <2>3. y = d + x /\ y \in 1 .. Len(t)
    BY <1>0, <2>1, <2>2, PlaceFacts
  <2>4. Forgotten(s, k) = r /\ Forgotten(t, k) = u
    BY <1>1, <2>2 DEF Forgotten
  <2> HIDE DEF x, y
  <2>5. /\ Len(r) = Len(s) - 1
        /\ \A j \in 1 .. Len(s) - 1 : r[j] = IF j < x THEN s[j] ELSE s[j + 1]
    BY <1>0, <2>1, RemoveFacts
  <2>6. /\ Len(u) = Len(t) - 1
        /\ \A j \in 1 .. Len(t) - 1 : u[j] = IF j < y THEN t[j] ELSE t[j + 1]
    BY <1>0, <2>3, RemoveFacts
  <2> HIDE DEF r, u
  <2>7. ASSUME NEW i \in 1 .. Len(s) - 1 PROVE r[i] = u[d + i]
    <3>1. d + i \in 1 .. Len(t) - 1 /\ i \in 1 .. Len(s) /\ i + 1 \in 1 .. Len(s)
          /\ (d + i < y <=> i < x) /\ d + i + 1 = d + (i + 1)
      BY <1>0, <2>1, <2>3
    <3>2. s[i] = t[d + i] /\ s[i + 1] = t[d + i + 1]
      BY <3>1, <1>0
    <3> HIDE DEF d
    <3>3. u[d + i] = IF i < x THEN t[d + i] ELSE t[d + i + 1]
      BY <3>1, <2>6
    <3>4. QED
      BY <3>2, <3>3, <2>5
  <2>8. Len(u) - Len(r) = d /\ Len(r) <= Len(u)
    BY <1>0, <2>5, <2>6
  <2> HIDE DEF d
  <2>9. QED
    BY <2>4, <2>5, <2>7, <2>8 DEF Trails
<1>2. CASE k \notin Range(s) /\ k \in Range(t)
  <2> DEFINE y == Place(t, k)
             u == RemoveAt(t, y)
  <2>1. Forgotten(s, k) = s /\ Forgotten(t, k) = u
    BY <1>2 DEF Forgotten
  <2>2. y \in 1 .. Len(t) /\ t[y] = k
    BY <1>2, PlaceFacts
  <2>3. y <= d
    <3> SUFFICES ASSUME y > d PROVE FALSE
      BY <1>0, <2>2
    <3>1. y - d \in 1 .. Len(s) /\ d + (y - d) = y
      BY <1>0, <2>2
    <3>2. QED
      BY <3>1, <1>0, <2>2, <1>2
  <2> HIDE DEF y
  <2>4. /\ Len(u) = Len(t) - 1
        /\ \A j \in 1 .. Len(t) - 1 : u[j] = IF j < y THEN t[j] ELSE t[j + 1]
    BY <1>0, <2>2, RemoveFacts
  <2> HIDE DEF u
  <2>5. ASSUME NEW i \in 1 .. Len(s) PROVE s[i] = u[Len(u) - Len(s) + i]
    <3>1. Len(u) - Len(s) + i = d - 1 + i /\ d - 1 + i \in 1 .. Len(t) - 1
          /\ ~(d - 1 + i < y) /\ d - 1 + i + 1 = d + i
      BY <1>0, <2>2, <2>3, <2>4
    <3>2. u[d - 1 + i] = t[d + i]
      BY <3>1, <2>4
    <3>3. QED
      BY <3>1, <3>2, <1>0
  <2>6. Len(s) <= Len(u)
    BY <1>0, <2>2, <2>3, <2>4
  <2>7. QED
    BY <2>1, <2>5, <2>6 DEF Trails
<1>3. CASE k \notin Range(s) /\ k \notin Range(t)
  BY <1>3 DEF Forgotten
<1>4. QED
  BY <1>1, <1>2, <1>3

(* The same key at the end of both. *)
LEMMA TrailAppend ==
  ASSUME NEW s, Line(s), NEW t, Line(t), Trails(s, t), NEW k,
         \A i \in DOMAIN s : s[i] # k, \A i \in DOMAIN t : t[i] # k
  PROVE  Trails(Append(s, k), Append(t, k))
<1> DEFINE r == Append(s, k)
           u == Append(t, k)
<1>0. Len(s) \in Nat /\ Len(t) \in Nat /\ Len(s) <= Len(t)
  BY LineShape DEF Trails
<1>1. Len(r) = Len(s) + 1 /\ (\A i \in 1 .. Len(s) : r[i] = s[i]) /\ r[Len(s) + 1] = k
  BY AppendLine
<1>2. Len(u) = Len(t) + 1 /\ (\A i \in 1 .. Len(t) : u[i] = t[i]) /\ u[Len(t) + 1] = k
  BY AppendLine
<1> HIDE DEF r, u
<1>3. ASSUME NEW i \in 1 .. Len(s) + 1 PROVE r[i] = u[Len(t) - Len(s) + i]
  <2>1. CASE i = Len(s) + 1
    BY <2>1, <1>0, <1>1, <1>2
  <2>2. CASE i \in 1 .. Len(s)
    <3>1. Len(t) - Len(s) + i \in 1 .. Len(t) /\ s[i] = t[Len(t) - Len(s) + i]
      BY <2>2, <1>0 DEF Trails
    <3>2. QED
      BY <3>1, <2>2, <1>1, <1>2
  <2>3. QED
    BY <2>1, <2>2, <1>0
<1>4. Len(u) - Len(r) = Len(t) - Len(s) /\ Len(r) <= Len(u)
  BY <1>0, <1>1, <1>2
<1>5. Trails(r, u)
  BY <1>1, <1>3, <1>4 DEF Trails
<1>6. QED
  BY <1>5 DEF r, u

(* The newest entries. *)
LEMMA NewestFacts ==
  ASSUME NEW S, NEW s \in Seq(S), NEW n \in Nat, n <= Len(s)
  PROVE  /\ Newest(s, n) \in Seq(S) /\ Len(Newest(s, n)) = n /\ DOMAIN Newest(s, n) = 1 .. n
         /\ \A i \in 1 .. n : Newest(s, n)[i] = s[Len(s) - n + i]
<1> DEFINE a == Len(s) - n + 1
           r == SubSeq(s, a, Len(s))
<1>0. /\ Len(s) \in Nat /\ a \in Int /\ a >= 1 /\ Len(s) \in Int
      /\ \A i \in a .. Len(s) : s[i] \in S
  BY LenProperties
<1>1. /\ r \in Seq(S) /\ Len(r) = IF a <= Len(s) THEN Len(s) - a + 1 ELSE 0
      /\ \A i \in 1 .. Len(s) - a + 1 : r[i] = s[a + i - 1]
  <2> HIDE DEF a
  <2>1. QED
    BY <1>0, SubSeqProperties
<1>2. Newest(s, n) = r
  BY DEF Newest
<1>3. Len(s) - a + 1 = n /\ Len(r) = n
  BY <1>0, <1>1
<1>4. ASSUME NEW i \in 1 .. n PROVE r[i] = s[Len(s) - n + i]
  <2>1. a + i - 1 = Len(s) - n + i
    BY <1>0
  <2> HIDE DEF a
  <2>2. QED
    BY <2>1, <1>1, <1>3
<1> HIDE DEF r
<1>5. DOMAIN r = 1 .. n
  BY <1>1, <1>3, LenProperties
<1>6. QED
  BY <1>1, <1>2, <1>3, <1>4, <1>5

(* The order of the keys of a dictionary is a line. *)
LEMMA KeysLine ==
  ASSUME NEW m, Dictionary(m)
  PROVE  /\ Line(KeyOrder(m)) /\ Range(KeyOrder(m)) = Keys(m)
         /\ Len(KeyOrder(m)) = Len(m) /\ DOMAIN KeyOrder(m) = 1 .. Len(m)
         /\ \A i \in 1 .. Len(m) : KeyOrder(m)[i] = m[i].key
<1> DEFINE r == KeyOrder(m)
<1>0. Len(m) \in Nat /\ DOMAIN m = 1 .. Len(m) /\ \A i \in DOMAIN m : m[i].key \in Keys(m)
  BY Shape
<1>1. r = [i \in 1 .. Len(m) |-> m[i].key]
  BY <1>0 DEF KeyOrder
<1>2. r \in Seq(Keys(m)) /\ Len(r) = Len(m) /\ DOMAIN r = 1 .. Len(m)
  BY <1>0, <1>1
<1>3. \A i, j \in DOMAIN r : r[i] = r[j] => i = j
  BY <1>0, <1>1 DEF Dictionary
<1> HIDE DEF r
<1>4. Line(r)
  BY <1>2, <1>3, IsLine
<1>5. Range(r) = Keys(m)
  BY <1>0, <1>1 DEF Range, Keys
<1>6. QED
  BY <1>1, <1>2, <1>4, <1>5 DEF r

(* Two dictionaries or lines are the same when they agree everywhere. *)
LEMMA SameLine ==
  ASSUME NEW s, Line(s), NEW t, Line(t), Len(s) = Len(t), \A i \in 1 .. Len(s) : s[i] = t[i]
  PROVE  s = t
<1>1. s \in Seq(Range(s)) /\ t \in Seq(Range(t))
  BY DEF Line
<1>2. s = [i \in 1 .. Len(s) |-> s[i]] /\ t = [i \in 1 .. Len(t) |-> t[i]]
  BY <1>1, LenProperties
<1>3. QED
  BY <1>2

(* del m[k] *)
LEMMA WithoutEntry ==
  ASSUME NEW m, Dictionary(m), NEW k \in Keys(m)
  PROVE  /\ Dictionary(Without(m, k)) /\ Len(Without(m, k)) = Len(m) - 1
         /\ Keys(Without(m, k)) \subseteq Keys(m) /\ k \notin Keys(Without(m, k))
         /\ EntryOf(m, k).key = k
         /\ Entries(Without(m, k)) \cup {EntryOf(m, k)} = Entries(m)
         /\ KeyOrder(Without(m, k)) = Forgotten(KeyOrder(m), k)
<1> DEFINE x == Place(KeyOrder(m), k)
           n == Without(m, k)
           K == KeyOrder(m)
<1>0. /\ Len(m) \in Nat /\ DOMAIN m = 1 .. Len(m) /\ m \in Seq(Entries(m))
      /\ \A i \in 1 .. Len(m) : m[i] \in Entries(m) /\ m[i].key \in Keys(m)
  BY Shape DEF Dictionary
<1>1. x \in 1 .. Len(m) /\ m[x].key = k /\ \A i \in 1 .. Len(m) : m[i].key = k => i = x
  BY KeysLine, PlaceFacts
<1>2. n = RemoveAt(m, x) /\ EntryOf(m, k) = m[x]
  BY DEF Without, EntryOf
<1>3. Forgotten(K, k) = RemoveAt(K, x)
  BY KeysLine DEF Forgotten
<1> HIDE DEF x
<1>4. /\ n \in Seq(Entries(m)) /\ Len(n) = Len(m) - 1 /\ DOMAIN n = 1 .. Len(m) - 1
      /\ \A j \in 1 .. Len(m) - 1 : n[j] = IF j < x THEN m[j] ELSE m[j + 1]
  BY <1>0, <1>1, <1>2, RemoveFacts
<1> HIDE DEF n, K
<1>5. \A i \in 1 .. Len(m) - 1 :
        \E a \in 1 .. Len(m) : a # x /\ n[i] = m[a] /\ a = IF i < x THEN i ELSE i + 1
  <2> SUFFICES ASSUME NEW i \in 1 .. Len(m) - 1
               PROVE  \E a \in 1 .. Len(m) :
                        a # x /\ n[i] = m[a] /\ a = IF i < x THEN i ELSE i + 1
    OBVIOUS
  <2>1. CASE i < x
    BY <2>1, <1>0, <1>1, <1>4
  <2>2. CASE ~(i < x)
    <3>1. i + 1 \in 1 .. Len(m) /\ i + 1 # x
      BY <2>2, <1>0, <1>1
    <3>2. QED
      BY <2>2, <3>1, <1>4
  <2>3. QED
    BY <2>1, <2>2
<1>6. \A i, j \in DOMAIN n : n[i].key = n[j].key => i = j
  <2> SUFFICES ASSUME NEW i \in 1 .. Len(m) - 1, NEW j \in 1 .. Len(m) - 1, n[i].key = n[j].key
               PROVE  i = j
    BY <1>4
  <2>1. PICK a \in 1 .. Len(m) : a # x /\ n[i] = m[a] /\ a = IF i < x THEN i ELSE i + 1
    BY <1>5
  <2>2. PICK b \in 1 .. Len(m) : b # x /\ n[j] = m[b] /\ b = IF j < x THEN j ELSE j + 1
    BY <1>5
  <2>3. a = b
    BY <1>0, <2>1, <2>2 DEF Dictionary
  <2>4. QED
    BY <2>1, <2>2, <2>3, <1>0, <1>1
<1>7. Dictionary(n)
  BY <1>4, <1>6, IsDictionary
<1>8. Keys(n) \subseteq Keys(m) /\ k \notin Keys(n)
  <2> SUFFICES ASSUME NEW i \in 1 .. Len(m) - 1 PROVE n[i].key \in Keys(m) /\ n[i].key # k
    BY <1>4 DEF Keys
  <2>1. PICK a \in 1 .. Len(m) : a # x /\ n[i] = m[a]
    BY <1>5
  <2>2. QED
    BY <2>1, <1>0, <1>1
<1>9. Entries(n) \cup {m[x]} = Entries(m)
  <2>1. Entries(n) \subseteq Entries(m)
    <3> SUFFICES ASSUME NEW i \in 1 .. Len(m) - 1 PROVE n[i] \in Entries(m)
      BY <1>4 DEF Entries
    <3>1. QED
      BY <1>5, <1>0
  <2>2. ASSUME NEW a \in 1 .. Len(m), a # x PROVE m[a] \in Entries(n)
    <3> DEFINE j == IF a < x THEN a ELSE a - 1
    <3>1. j \in 1 .. Len(m) - 1 /\ (j < x <=> a < x) /\ (~(a < x) => j + 1 = a)
      BY <2>2, <1>0, <1>1
    <3>2. n[j] = m[a]
      BY <3>1, <1>4
    <3>3. QED
      BY <3>1, <3>2, <1>4 DEF Entries
  <2>3. Entries(m) \subseteq Entries(n) \cup {m[x]}
    BY <2>2, <1>0 DEF Entries
  <2>4. QED
    BY <2>1, <2>3, <1>0, <1>1
<1>10. KeyOrder(n) = RemoveAt(K, x)
  <2>1. /\ Line(K) /\ Len(K) = Len(m) /\ K \in Seq(Range(K))
        /\ \A i \in 1 .. Len(m) : K[i] = m[i].key
    BY KeysLine DEF K, Line
  <2>2. /\ Len(RemoveAt(K, x)) = Len(m) - 1
        /\ \A j \in 1 .. Len(m) - 1 : RemoveAt(K, x)[j] = IF j < x THEN K[j] ELSE K[j + 1]
    BY <2>1, <1>1, RemoveFacts
  <2>3. Line(RemoveAt(K, x))
    BY <2>1, <1>3, ForgottenLine
  <2>4. /\ Line(KeyOrder(n)) /\ Len(KeyOrder(n)) = Len(m) - 1
        /\ \A i \in 1 .. Len(m) - 1 : KeyOrder(n)[i] = n[i].key
    BY <1>4, <1>7, KeysLine
  <2>5. ASSUME NEW j \in 1 .. Len(m) - 1 PROVE KeyOrder(n)[j] = RemoveAt(K, x)[j]
    <3>1. j \in 1 .. Len(m) /\ j + 1 \in 1 .. Len(m)
      BY <1>0
    <3>2. QED
      BY <3>1, <2>1, <2>2, <2>4, <1>4
  <2>6. QED
    BY <2>2, <2>3, <2>4, <2>5, SameLine
<1>11. QED
  BY <1>1, <1>2, <1>3, <1>4, <1>7, <1>8, <1>9, <1>10 DEF n, K

(* The order of the keys with a new key. *)
LEMMA AppendOrder ==
  ASSUME NEW m, Dictionary(m), NEW e, e.key \notin Keys(m)
  PROVE  KeyOrder(Append(m, e)) = Append(KeyOrder(m), e.key)
<1> DEFINE n == Append(m, e)
           K == KeyOrder(m)
           L == Append(K, e.key)
<1>1. /\ Line(K) /\ Len(K) = Len(m) /\ DOMAIN K = 1 .. Len(m) /\ Len(m) \in Nat
      /\ \A i \in 1 .. Len(m) : K[i] = m[i].key /\ K[i] # e.key
  BY KeysLine, Shape
<1>2. /\ Dictionary(n) /\ Len(n) = Len(m) + 1 /\ n[Len(m) + 1] = e
      /\ \A i \in 1 .. Len(m) : n[i] = m[i]
  BY AppendEntry
<1> HIDE DEF K, n
<1>3. /\ Line(L) /\ Len(L) = Len(m) + 1 /\ L[Len(m) + 1] = e.key
      /\ \A i \in 1 .. Len(m) : L[i] = K[i]
  BY <1>1, AppendLine
<1> HIDE DEF L
<1>4. /\ Line(KeyOrder(n)) /\ Len(KeyOrder(n)) = Len(m) + 1
      /\ \A i \in 1 .. Len(m) + 1 : KeyOrder(n)[i] = n[i].key
  BY <1>2, KeysLine
<1>5. \A i \in 1 .. Len(m) + 1 : KeyOrder(n)[i] = L[i]
  <2> SUFFICES ASSUME NEW i \in 1 .. Len(m) + 1 PROVE KeyOrder(n)[i] = L[i]
    OBVIOUS
  <2>1. i \in 1 .. Len(m) \/ i = Len(m) + 1
    BY <1>1
  <2>2. QED
    BY <2>1, <1>1, <1>2, <1>3, <1>4
<1>6. KeyOrder(n) = L
  BY <1>3, <1>4, <1>5, SameLine
<1>7. QED
  BY <1>6 DEF n, K, L

(* move_to_end *)
LEMMA MovedEntry ==
  ASSUME NEW m, Dictionary(m), NEW k \in Keys(m)
  PROVE  /\ Dictionary(MoveToEnd(m, k)) /\ Len(MoveToEnd(m, k)) = Len(m)
         /\ k \in Keys(MoveToEnd(m, k))
         /\ Entries(MoveToEnd(m, k)) = Entries(m)
         /\ KeyOrder(MoveToEnd(m, k)) = Append(Forgotten(KeyOrder(m), k), k)
<1> DEFINE n == Without(m, k)
           e == EntryOf(m, k)
<1>1. /\ Dictionary(n) /\ Len(n) = Len(m) - 1 /\ k \notin Keys(n) /\ e.key = k
      /\ Entries(n) \cup {e} = Entries(m) /\ KeyOrder(n) = Forgotten(KeyOrder(m), k)
      /\ Len(m) \in Nat
  BY WithoutEntry, Shape
<1>2. MoveToEnd(m, k) = Append(n, e)
  BY DEF MoveToEnd
<1> HIDE DEF n, e
<1>3. /\ Dictionary(Append(n, e)) /\ Len(Append(n, e)) = Len(n) + 1
      /\ Keys(Append(n, e)) = Keys(n) \cup {k} /\ Entries(Append(n, e)) = Entries(n) \cup {e}
  BY <1>1, AppendEntry
<1>4. KeyOrder(Append(n, e)) = Append(KeyOrder(n), k)
  BY <1>1, AppendOrder
<1>5. Len(n) + 1 = Len(m)
  BY <1>1
<1>6. QED
  BY <1>1, <1>2, <1>3, <1>4, <1>5

(* A key that is there keeps its place. *)
LEMMA AssignOrder ==
  ASSUME NEW m, Dictionary(m), NEW e, e.key \in Keys(m)
  PROVE  KeyOrder(Assign(m, e)) = KeyOrder(m) /\ Len(Assign(m, e)) = Len(m)
<1>0. Len(m) \in Nat /\ DOMAIN m = 1 .. Len(m)
  BY Shape
<1> DEFINE n == [i \in 1 .. Len(m) |-> IF m[i].key = e.key THEN e ELSE m[i]]
<1>1. Assign(m, e) = n
  BY <1>0 DEF Assign
<1>2. Len(n) = Len(m) /\ DOMAIN n = 1 .. Len(m) /\ \A i \in 1 .. Len(m) : n[i].key = m[i].key
  BY <1>0
<1> HIDE DEF n
<1>3. KeyOrder(n) = KeyOrder(m)
  BY <1>0, <1>2 DEF KeyOrder
<1>4. QED
  BY <1>1, <1>2, <1>3

(* The newest entries are a dictionary, and its order is the end of any    *)
(* order that ended with the whole.                                        *)
LEMMA NewestEntries ==
  ASSUME NEW m, Dictionary(m), NEW n \in Nat, n <= Len(m)
  PROVE  /\ Dictionary(Newest(m, n)) /\ Keys(Newest(m, n)) \subseteq Keys(m)
         /\ Len(Newest(m, n)) = n
         /\ \A t : Line(t) /\ Trails(KeyOrder(m), t) => Trails(KeyOrder(Newest(m, n)), t)
<1> DEFINE r == Newest(m, n)
           d == Len(m) - n
<1>0. /\ Len(m) \in Nat /\ DOMAIN m = 1 .. Len(m) /\ m \in Seq(Entries(m)) /\ d \in Nat
      /\ \A i \in 1 .. Len(m) : m[i].key \in Keys(m)
  BY Shape DEF Dictionary
<1>1. /\ r \in Seq(Entries(m)) /\ Len(r) = n /\ DOMAIN r = 1 .. n
      /\ \A i \in 1 .. n : r[i] = m[d + i]
  BY <1>0, NewestFacts
<1> HIDE DEF r
<1>2. \A i \in 1 .. n : d + i \in 1 .. Len(m)
  BY <1>0
<1>2a. \A i, j \in 1 .. n : d + i = d + j => i = j
  BY <1>0
<1> HIDE DEF d
<1>2b. \A i \in 1 .. n : r[i].key = m[d + i].key
  BY <1>1
<1>3. \A i, j \in DOMAIN r : r[i].key = r[j].key => i = j
  <2> SUFFICES ASSUME NEW i \in 1 .. n, NEW j \in 1 .. n, r[i].key = r[j].key PROVE i = j
    BY <1>1
  <2>1. d + i = d + j
    <3>1. m[d + i].key = m[d + j].key
      BY <1>2b
    <3>2. QED
      BY <3>1, <1>0, <1>2 DEF Dictionary
  <2>2. QED
    BY <2>1, <1>2a
<1>4. Dictionary(r)
  BY <1>1, <1>3, IsDictionary
<1>5. Keys(r) \subseteq Keys(m)
  <2>1. \A i \in 1 .. n : r[i].key \in Keys(m)
    BY <1>0, <1>2, <1>2b
  <2>2. QED
    BY <2>1, <1>1 DEF Keys
<1>6. ASSUME NEW t, Line(t), Trails(KeyOrder(m), t) PROVE Trails(KeyOrder(r), t)
  <2>1. /\ Len(KeyOrder(m)) = Len(m) /\ \A i \in 1 .. Len(m) : KeyOrder(m)[i] = m[i].key
        /\ Len(KeyOrder(r)) = n /\ \A i \in 1 .. n : KeyOrder(r)[i] = r[i].key
    BY <1>1, <1>4, KeysLine
  <2>2. Len(t) \in Nat /\ Len(m) <= Len(t) /\ n <= Len(t)
    BY <2>1, <1>0, <1>6, LineShape DEF Trails
  <2>3. ASSUME NEW i \in 1 .. n PROVE KeyOrder(r)[i] = t[Len(t) - n + i]
    <3>1. KeyOrder(r)[i] = KeyOrder(m)[d + i]
      BY <2>1, <1>1, <1>2
    <3>2. KeyOrder(m)[d + i] = t[Len(t) - Len(m) + (d + i)]
      BY <1>2, <1>6, <2>1 DEF Trails
    <3>3. Len(t) - Len(m) + (d + i) = Len(t) - n + i
      BY <2>2, <1>0 DEF d
    <3>4. QED
      BY <3>1, <3>2, <3>3
  <2>4. QED
    BY <2>1, <2>2, <2>3 DEF Trails
<1>7. QED
  BY <1>1, <1>4, <1>5, <1>6 DEF r

-----------------------------------------------------------------------------
(* The folds.                                                              *)

(* What is left of a dictionary when the expired entries are deleted.      *)
LEMMA UnexpiredEntries ==
  ASSUME NEW m, Dictionary(m)
  PROVE  Dictionary(Unexpired(m)) /\ Keys(Unexpired(m)) \subseteq Keys(m)
<1> DEFINE S == DOMAIN m
           pick(s) == Max(s)
           rest(s) == s \ {pick(s)}
           next(v, x) == IF Expired(m[x]) THEN v ELSE Append(v, m[x])
           step(f, s) == IF s = {} THEN <<>> ELSE next(f[rest(s)], pick(s))
           Solves(f, k) == /\ f = [s \in SUBSET S |-> f[s]]
                           /\ \A s \in SUBSET S : Cardinality(s) <= k => f[s] = step(f, s)
           Solvable == {k \in Nat : \E f : Solves(f, k)}
<1>0. IsFiniteSet(S) /\ Cardinality(S) \in Nat
  BY Shape, FS_Interval, FS_CardinalityType
<1>a. ASSUME NEW s \in SUBSET S, s # {} PROVE pick(s) \in s
  BY <1>a, Shape, MaxOf
<1> HIDE DEF S, pick, next
<1>b. ASSUME NEW s \in SUBSET S, s # {}, NEW k \in Nat, Cardinality(s) <= k + 1
      PROVE  rest(s) \in SUBSET S /\ Cardinality(rest(s)) <= k
  BY <1>0, <1>a, <1>b, Smaller
<1>c. \A s \in SUBSET S : /\ Cardinality(s) <= 0 => s = {}
                         /\ Cardinality(s) <= Cardinality(S)
  BY <1>0, Smaller
<1>1. 0 \in Solvable
  <2>1. Solves([s \in SUBSET S |-> <<>>], 0)
    BY <1>c
  <2>2. QED
    BY <2>1
<1>2. ASSUME NEW k \in Nat, k \in Solvable PROVE k + 1 \in Solvable
  <2>1. PICK f : Solves(f, k)
    BY <1>2
  <2> DEFINE g == [s \in SUBSET S |-> IF Cardinality(s) <= k THEN f[s] ELSE step(f, s)]
  <2>2. ASSUME NEW s \in SUBSET S, Cardinality(s) <= k + 1 PROVE g[s] = step(g, s)
    <3>1. g[s] = step(f, s)
      BY <2>1
    <3>2. s # {} => g[rest(s)] = f[rest(s)]
      BY <2>2, <1>b
    <3>3. QED
      BY <3>1, <3>2
  <2>3. Solves(g, k + 1)
    BY <2>2
  <2> HIDE DEF Solves, g
  <2>4. QED
    BY <2>3
<1>3. PICK f : Solves(f, Cardinality(S))
  <2>1. Cardinality(S) \in Solvable
    BY <1>0, <1>1, <1>2, Reaches
  <2>2. QED
    BY <2>1
<1> DEFINE iter == CHOOSE i : i = [s \in SUBSET S |-> step(i, s)]
<1>4. iter = [s \in SUBSET S |-> step(iter, s)]
  <2>1. f = [s \in SUBSET S |-> step(f, s)]
    BY <1>3, <1>c
  <2>2. QED
    BY <2>1
<1>5. Unexpired(m) = iter[S]
  BY DEF Unexpired, FoldLeft, MapThenFoldSet, S, pick, next
<1> HIDE DEF iter
<1> DEFINE Fine(v, s) == Dictionary(v) /\ Keys(v) \subseteq {m[i].key : i \in s}
           Good == {k \in Nat : \A s \in SUBSET S : Cardinality(s) <= k => Fine(iter[s], s)}
<1>d. Fine(<<>>, {})
  BY NoEntries
<1>e. ASSUME NEW s \in SUBSET S, NEW x \in s, NEW v, Fine(v, s \ {x})
      PROVE  Fine(next(v, x), s)
  <2>1. CASE Expired(m[x])
    BY <1>e, <2>1 DEF next
  <2>2. CASE ~Expired(m[x])
    <3>1. \A i \in s \ {x} : m[i].key # m[x].key
      BY DEF Dictionary, S
    <3>2. m[x].key \notin Keys(v)
      BY <1>e, <3>1
    <3>3. next(v, x) = Append(v, m[x])
      BY <2>2 DEF next
    <3>4. Dictionary(Append(v, m[x])) /\ Keys(Append(v, m[x])) = Keys(v) \cup {m[x].key}
      BY <1>e, <3>2, AppendEntry
    <3>5. QED
      BY <1>e, <3>3, <3>4
  <2>3. QED
    BY <2>1, <2>2
<1> HIDE DEF Fine
<1>6. 0 \in Good
  <2>1. ASSUME NEW s \in SUBSET S, Cardinality(s) <= 0 PROVE Fine(iter[s], s)
    BY <1>c, <2>1, <1>4, <1>d
  <2>2. QED
    BY <2>1
<1>7. ASSUME NEW k \in Nat, k \in Good PROVE k + 1 \in Good
  <2>1. ASSUME NEW s \in SUBSET S, Cardinality(s) <= k + 1 PROVE Fine(iter[s], s)
    <3>1. CASE s = {}
      BY <3>1, <1>4, <1>d
    <3>2. CASE s # {}
      <4>1. rest(s) \in SUBSET S /\ Cardinality(rest(s)) <= k
        BY <2>1, <3>2, <1>b
      <4>2. Fine(iter[rest(s)], rest(s)) /\ pick(s) \in s
        BY <4>1, <1>7, <1>a, <3>2
      <4>3. iter[s] = next(iter[rest(s)], pick(s))
        BY <1>4, <3>2
      <4>4. QED
        BY <4>2, <4>3, <1>e
    <3>3. QED
      BY <3>1, <3>2
  <2>2. QED
    BY <2>1
<1>8. Fine(iter[S], S)
  <2>1. Cardinality(S) \in Good
    BY <1>0, <1>6, <1>7, Reaches
  <2>2. QED
    BY <2>1, <1>0
<1>9. QED
  BY <1>5, <1>8 DEF Fine, S, Keys

(* m.update(n) keeps a dictionary a dictionary, and adds only keys of n.   *)
(* Updating a dictionary with itself changes nothing.                      *)
LEMMA UpdateEntries ==
  ASSUME NEW m, Dictionary(m), NEW n, Dictionary(n)
  PROVE  /\ Dictionary(Update(m, n)) /\ Keys(Update(m, n)) \subseteq Keys(m) \cup Keys(n)
         /\ m = n => Update(m, n) = m
<1> DEFINE S == DOMAIN n
           pick(s) == Max(s)
           rest(s) == s \ {pick(s)}
           next(v, x) == Assign(v, n[x])
           step(f, s) == IF s = {} THEN m ELSE next(f[rest(s)], pick(s))
           Solves(f, k) == /\ f = [s \in SUBSET S |-> f[s]]
                           /\ \A s \in SUBSET S : Cardinality(s) <= k => f[s] = step(f, s)
           Solvable == {k \in Nat : \E f : Solves(f, k)}
<1>0. IsFiniteSet(S) /\ Cardinality(S) \in Nat
  BY Shape, FS_Interval, FS_CardinalityType
<1>a. ASSUME NEW s \in SUBSET S, s # {} PROVE pick(s) \in s
  BY <1>a, Shape, MaxOf
<1> HIDE DEF S, pick, next
<1>b. ASSUME NEW s \in SUBSET S, s # {}, NEW k \in Nat, Cardinality(s) <= k + 1
      PROVE  rest(s) \in SUBSET S /\ Cardinality(rest(s)) <= k
  BY <1>0, <1>a, <1>b, Smaller
<1>c. \A s \in SUBSET S : /\ Cardinality(s) <= 0 => s = {}
                         /\ Cardinality(s) <= Cardinality(S)
  BY <1>0, Smaller
<1>1. 0 \in Solvable
  <2>1. Solves([s \in SUBSET S |-> m], 0)
    BY <1>c
  <2>2. QED
    BY <2>1
<1>2. ASSUME NEW k \in Nat, k \in Solvable PROVE k + 1 \in Solvable
  <2>1. PICK f : Solves(f, k)
    BY <1>2
  <2> DEFINE g == [s \in SUBSET S |-> IF Cardinality(s) <= k THEN f[s] ELSE step(f, s)]
  <2>2. ASSUME NEW s \in SUBSET S, Cardinality(s) <= k + 1 PROVE g[s] = step(g, s)
    <3>1. g[s] = step(f, s)
      BY <2>1
    <3>2. s # {} => g[rest(s)] = f[rest(s)]
      BY <2>2, <1>b
    <3>3. QED
      BY <3>1, <3>2
  <2>3. Solves(g, k + 1)
    BY <2>2
  <2> HIDE DEF Solves, g
  <2>4. QED
    BY <2>3
<1>3. PICK f : Solves(f, Cardinality(S))
  <2>1. Cardinality(S) \in Solvable
    BY <1>0, <1>1, <1>2, Reaches
  <2>2. QED
    BY <2>1
<1> DEFINE iter == CHOOSE i : i = [s \in SUBSET S |-> step(i, s)]
<1>4. iter = [s \in SUBSET S |-> step(iter, s)]
  <2>1. f = [s \in SUBSET S |-> step(f, s)]
    BY <1>3, <1>c
  <2>2. QED
    BY <2>1
<1>5. Update(m, n) = iter[S]
  BY DEF Update, FoldLeft, MapThenFoldSet, S, pick, next
<1> HIDE DEF iter
<1> DEFINE Fine(v, s) == /\ Dictionary(v) /\ Keys(v) \subseteq Keys(m) \cup Keys(n)
                         /\ m = n => v = m
           Good == {k \in Nat : \A s \in SUBSET S : Cardinality(s) <= k => Fine(iter[s], s)}
<1>d. Fine(m, {})
  OBVIOUS
<1>e. ASSUME NEW s \in SUBSET S, NEW x \in s, NEW v, Fine(v, s \ {x})
      PROVE  Fine(next(v, x), s)
  <2>1. n[x] \in Entries(n) /\ n[x].key \in Keys(n)
    BY Shape DEF S
  <2>2. /\ Dictionary(Assign(v, n[x])) /\ Keys(Assign(v, n[x])) = Keys(v) \cup {n[x].key}
        /\ n[x] \in Entries(v) => Assign(v, n[x]) = v
    BY <1>e, AssignEntry
  <2>3. next(v, x) = Assign(v, n[x])
    BY DEF next
  <2>4. QED
    BY <1>e, <2>1, <2>2, <2>3
<1> HIDE DEF Fine
<1>6. 0 \in Good
  <2>1. ASSUME NEW s \in SUBSET S, Cardinality(s) <= 0 PROVE Fine(iter[s], s)
    BY <1>c, <2>1, <1>4, <1>d
  <2>2. QED
    BY <2>1
<1>7. ASSUME NEW k \in Nat, k \in Good PROVE k + 1 \in Good
  <2>1. ASSUME NEW s \in SUBSET S, Cardinality(s) <= k + 1 PROVE Fine(iter[s], s)
    <3>1. CASE s = {}
      BY <3>1, <1>4, <1>d
    <3>2. CASE s # {}
      <4>1. rest(s) \in SUBSET S /\ Cardinality(rest(s)) <= k
        BY <2>1, <3>2, <1>b
      <4>2. Fine(iter[rest(s)], rest(s)) /\ pick(s) \in s
        BY <4>1, <1>7, <1>a, <3>2
      <4>3. iter[s] = next(iter[rest(s)], pick(s))
        BY <1>4, <3>2
      <4>4. QED
        BY <4>2, <4>3, <1>e
    <3>3. QED
      BY <3>1, <3>2
  <2>2. QED
    BY <2>1
<1>8. Fine(iter[S], S)
  <2>1. Cardinality(S) \in Good
    BY <1>0, <1>6, <1>7, Reaches
  <2>2. QED
    BY <2>1, <1>0
<1>9. QED
  BY <1>5, <1>8 DEF Fine

-----------------------------------------------------------------------------
(* Types, and the bookkeeping of keys.                                     *)

Small(m) == config.kind = "lru" => Len(m) <= config.max_size

Label == {"down", "init", "load", "run", "check", "merge", "open", "dump", "md5"}

(* What a process has before it has loaded the file. *)
Fresh(p) ==
  /\ pc[p] \in {"down", "init", "load"} =>
       /\ exits[p] = "no" /\ torn[p] = "no" /\ cache[p] = <<>>
       /\ write_count[p] = 0 /\ behind[p] = 0
  /\ pc[p] \in {"down", "init"} => cache_file_md5[p] = NoMd5
  /\ exits[p] = "no" => torn[p] = "no"

CacheType ==
  /\ config \in Config
  /\ pc \in [Process -> Label]
  /\ exits \in [Process -> {"no", "save", "end"}]
  /\ torn \in [Process -> {"no", "open", "closed"}]
  /\ write_count \in [Process -> Nat] /\ behind \in [Process -> Nat]
  /\ merged \in [Process -> BOOLEAN]
  /\ DOMAIN cache = Process /\ DOMAIN cache_file_md5 = Process
  /\ DOMAIN recency = Process /\ DOMAIN seen = Process
  /\ \A p \in Process : Fresh(p)

(* The caches and the file are dictionaries, and seen has the keys of the  *)
(* cache.                                                                  *)
Dictionaries ==
  /\ Dictionary(file.data)
  /\ \A p \in Process :
       Dictionary(cache[p]) /\ Line(recency[p]) /\ Keys(cache[p]) \subseteq seen[p]

(* KeepsRecent, also of a process that is down. *)
Recent ==
  \A p \in Process :
    config.kind = "lru" /\ ~merged[p] =>
      Trails(KeyOrder(cache[p]), recency[p]) /\ Len(cache[p]) <= config.max_size

CoreInv == CacheType /\ Dictionaries /\ Recent

(* The arguments of the constructors. *)
LEMMA Arguments ==
  ASSUME config \in Config
  PROVE  /\ config.kind \in {"ttl", "lru"} /\ config.max_size \in Nat
         /\ config.save_step \in Nat /\ config.processes \subseteq Process
BY CacheAssumption

(* cleanup *)
LEMMA CleanedEntries ==
  ASSUME config \in Config, NEW m, Dictionary(m)
  PROVE  /\ Dictionary(Cleaned(m)) /\ Keys(Cleaned(m)) \subseteq Keys(m)
         /\ Small(Cleaned(m))
         /\ config.kind = "lru" /\ Small(m) => Cleaned(m) = m
         /\ config.kind = "lru" =>
              \A t : Line(t) /\ Trails(KeyOrder(m), t) => Trails(KeyOrder(Cleaned(m)), t)
<1>0. config.kind \in {"ttl", "lru"} /\ config.max_size \in Nat /\ Len(m) \in Nat
  BY Arguments, Shape
<1>1. CASE config.kind = "ttl"
  BY <1>1, UnexpiredEntries DEF Cleaned, Small
<1>2. CASE config.kind = "lru" /\ Len(m) > config.max_size
  <2>1. Cleaned(m) = Newest(m, config.max_size) /\ config.max_size <= Len(m) /\ ~Small(m)
    BY <1>0, <1>2 DEF Cleaned, Small
  <2> DEFINE n == config.max_size
  <2>2. /\ Dictionary(Newest(m, n)) /\ Keys(Newest(m, n)) \subseteq Keys(m)
        /\ Len(Newest(m, n)) = n
        /\ \A t : Line(t) /\ Trails(KeyOrder(m), t) => Trails(KeyOrder(Newest(m, n)), t)
    <3> HIDE DEF n
    <3>1. n \in Nat /\ n <= Len(m)
      BY <1>0, <2>1 DEF n
    <3>2. QED
      BY <3>1, NewestEntries
  <2>3. Small(Newest(m, n))
    BY <2>2, <1>0 DEF Small
  <2>4. QED
    BY <2>1, <2>2, <2>3
<1>3. CASE config.kind = "lru" /\ ~(Len(m) > config.max_size)
  <2>1. Cleaned(m) = m
    BY <1>3 DEF Cleaned
  <2>2. Small(m)
    BY <1>0, <1>3 DEF Small
  <2>3. QED
    BY <2>1, <2>2
<1>4. QED
  BY <1>0, <1>1, <1>2, <1>3

(* set of an LRUCache: the new entry is the last, and the order of the     *)
(* keys is the old one with the key moved to its end.                      *)
LEMMA SetEntry ==
  ASSUME NEW m, Dictionary(m), NEW e,
         NEW old, old = IF e.key \in Keys(m) THEN MoveToEnd(m, e.key) ELSE m
  PROVE  /\ Dictionary(Assign(old, e))
         /\ KeyOrder(Assign(old, e)) = Append(Forgotten(KeyOrder(m), e.key), e.key)
<1>1. CASE e.key \in Keys(m)
  <2>1. /\ Dictionary(old) /\ e.key \in Keys(old)
        /\ KeyOrder(old) = Append(Forgotten(KeyOrder(m), e.key), e.key)
    BY <1>1, MovedEntry
  <2>2. QED
    BY <2>1, AssignEntry, AssignOrder
<1>2. CASE e.key \notin Keys(m)
  <2>1. old = m /\ Assign(m, e) = Append(m, e)
    BY <1>2 DEF Assign
  <2>2. Forgotten(KeyOrder(m), e.key) = KeyOrder(m)
    BY <1>2, KeysLine DEF Forgotten
  <2>3. Dictionary(Append(m, e)) /\ KeyOrder(Append(m, e)) = Append(KeyOrder(m), e.key)
    BY <1>2, AppendEntry, AppendOrder
  <2>4. QED
    BY <2>1, <2>2, <2>3
<1>3. QED
  BY <1>1, <1>2

(* What get, set, delete and cleanup have in common.  The cache becomes m, *)
(* the keys were used in the order r, and n writes are counted.            *)
Operates(p, m, n, r) ==
  /\ Idle(p) /\ Writes(p, m, n) /\ n \in {0, 1} /\ DOMAIN recency' = Process
  /\ \A q \in Process : recency'[q] = IF q = p THEN r ELSE recency[q]
  /\ Dictionary(m) /\ Line(r)
  /\ config.kind = "lru" /\ ~merged[p] => Trails(KeyOrder(m), r)
  /\ Small(cache[p]) => Small(m)
  /\ n = 0 /\ Small(cache[p]) => Entries(m) = Entries(cache[p])

(* The order in which the keys were used. *)
LEMMA Uses ==
  ASSUME CoreInv, NEW p \in Process, NEW k
  PROVE  /\ Line(Forgotten(recency[p], k)) /\ Line(Append(Forgotten(recency[p], k), k))
         /\ config.kind = "lru" /\ ~merged[p] =>
              /\ Trails(Forgotten(KeyOrder(cache[p]), k), Forgotten(recency[p], k))
              /\ Trails(Append(Forgotten(KeyOrder(cache[p]), k), k),
                        Append(Forgotten(recency[p], k), k))
<1> DEFINE K == KeyOrder(cache[p])
           t == recency[p]
<1>1. Line(t) /\ Line(K)
  BY KeysLine DEF CoreInv, Dictionaries
<1> HIDE DEF K, t
<1>2. /\ Line(Forgotten(t, k)) /\ \A i \in DOMAIN Forgotten(t, k) : Forgotten(t, k)[i] # k
      /\ Line(Forgotten(K, k)) /\ \A i \in DOMAIN Forgotten(K, k) : Forgotten(K, k)[i] # k
  BY <1>1, ForgottenLine
<1>3. Line(Append(Forgotten(t, k), k))
  BY <1>2, AppendLine
<1>4. ASSUME config.kind = "lru", ~merged[p]
      PROVE  /\ Trails(Forgotten(K, k), Forgotten(t, k))
             /\ Trails(Append(Forgotten(K, k), k), Append(Forgotten(t, k), k))
  <2>1. Trails(K, t)
    BY <1>4 DEF CoreInv, Recent, K, t
  <2>2. Trails(Forgotten(K, k), Forgotten(t, k))
    BY <1>1, <2>1, TrailForgotten
  <2>3. QED
    BY <1>2, <2>2, TrailAppend
<1>5. QED
  BY <1>2, <1>3, <1>4 DEF K, t

(* get *)
LEMMA GetOperates ==
  ASSUME CoreInv, NEW p \in Process, NEW k, Get(p, k)
  PROVE  \E m, n, r : Operates(p, m, n, r)
<1> DEFINE c == cache[p]
           t == recency[p]
<1>0. Dictionary(c) /\ k \in Keys(c) /\ Idle(p) /\ DOMAIN recency = Process /\ Len(c) \in Nat
      /\ config.max_size \in Nat
  BY Shape, Arguments DEF CoreInv, Dictionaries, CacheType, Get
<1>1. CASE /\ config.kind = "lru"
           /\ Writes(p, MoveToEnd(c, k), 0) /\ Used(p, k)
  <2>1. /\ Dictionary(MoveToEnd(c, k)) /\ Len(MoveToEnd(c, k)) = Len(c)
        /\ Entries(MoveToEnd(c, k)) = Entries(c)
        /\ KeyOrder(MoveToEnd(c, k)) = Append(Forgotten(KeyOrder(c), k), k)
    BY <1>0, MovedEntry
  <2>2. Operates(p, MoveToEnd(c, k), 0, Append(Forgotten(t, k), k))
    BY <1>0, <1>1, <2>1, Uses DEF Operates, Small, Used
  <2>3. QED
    BY <2>2
<1>2. CASE /\ config.kind = "ttl"
           /\ Writes(p, Without(c, k), 1) /\ Dropped(p, k)
  <2>1. Dictionary(Without(c, k))
    BY <1>0, WithoutEntry
  <2>2. Operates(p, Without(c, k), 1, Forgotten(t, k))
    BY <1>0, <1>2, <2>1, Uses DEF Operates, Small, Dropped
  <2>3. QED
    BY <2>2
<1>3. QED
  BY <1>1, <1>2 DEF Get

(* set of a TTLCache *)
LEMMA SetTTLOperates ==
  ASSUME CoreInv, NEW p \in Process, NEW k, NEW v, SetTTL(p, k, v)
  PROVE  \E m, n, r : Operates(p, m, n, r)
<1>1. PICK ttl \in config.ttls :
        Writes(p, Assign(cache[p], [key |-> k, value |-> v, expiry |-> time + ttl]), 1)
  BY DEF SetTTL
<1> DEFINE e == [key |-> k, value |-> v, expiry |-> time + ttl]
<1>2. Dictionary(Assign(cache[p], e))
  BY AssignEntry DEF CoreInv, Dictionaries
<1>3. Operates(p, Assign(cache[p], e), 1, Append(Forgotten(recency[p], k), k))
  <2> HIDE DEF e
  <2>1. Writes(p, Assign(cache[p], e), 1)
    BY <1>1 DEF e
  <2>2. QED
    BY <1>2, <2>1, Uses DEF Operates, Small, Used, SetTTL, CoreInv, CacheType
<1>4. QED
  BY <1>3

(* set of an LRUCache *)
LEMMA SetLRUOperates ==
  ASSUME CoreInv, NEW p \in Process, NEW k, NEW v, SetLRU(p, k, v)
  PROVE  \E m, n, r : Operates(p, m, n, r)
<1> DEFINE c == cache[p]
           e == [key |-> k, value |-> v]
           old == IF k \in Keys(c) THEN MoveToEnd(c, k) ELSE c
           m == Assign(old, e)
           t == Append(Forgotten(recency[p], k), k)
<1>0. Dictionary(c) /\ config \in Config /\ e.key = k
  BY DEF CoreInv, Dictionaries, CacheType
<1>1. /\ Idle(p) /\ config.kind = "lru"
      /\ Writes(p, Cleaned(m), 1) /\ Used(p, k)
  BY DEF SetLRU
<1> HIDE DEF e, c
<1>2. Dictionary(m) /\ KeyOrder(m) = Append(Forgotten(KeyOrder(c), k), k)
  BY <1>0, SetEntry
<1> HIDE DEF m
<1>3. Line(t) /\ (~merged[p] => Trails(KeyOrder(m), t))
  BY <1>1, <1>2, Uses DEF c
<1>4. DOMAIN recency' = Process /\ \A q \in Process : recency'[q] = IF q = p THEN t ELSE recency[q]
  BY <1>1 DEF Used, CoreInv, CacheType
<1> HIDE DEF t
<1>5. /\ Dictionary(Cleaned(m)) /\ Small(Cleaned(m))
      /\ ~merged[p] => Trails(KeyOrder(Cleaned(m)), t)
  BY <1>0, <1>1, <1>2, <1>3, CleanedEntries
<1>6. Operates(p, Cleaned(m), 1, t)
  BY <1>1, <1>3, <1>4, <1>5 DEF Operates
<1>7. QED
  BY <1>6

(* delete *)
LEMMA DeleteOperates ==
  ASSUME CoreInv, NEW p \in Process, NEW k, Delete(p, k)
  PROVE  \E m, n, r : Operates(p, m, n, r)
<1> DEFINE c == cache[p]
<1>0. Dictionary(c) /\ k \in Keys(c) /\ Len(c) \in Nat /\ config.max_size \in Nat
  BY Shape, Arguments DEF CoreInv, Dictionaries, CacheType, Delete
<1>1. /\ Dictionary(Without(c, k)) /\ Len(Without(c, k)) = Len(c) - 1
      /\ KeyOrder(Without(c, k)) = Forgotten(KeyOrder(c), k)
  BY <1>0, WithoutEntry
<1>2. Small(c) => Small(Without(c, k))
  BY <1>0, <1>1 DEF Small
<1>3. Operates(p, Without(c, k), 1, Forgotten(recency[p], k))
  BY <1>1, <1>2, Uses DEF Operates, Dropped, Delete, CoreInv, CacheType
<1>4. QED
  BY <1>3

(* cleanup *)
LEMMA CleanupOperates ==
  ASSUME CoreInv, NEW p \in Process, Cleanup(p)
  PROVE  \E m, n, r : Operates(p, m, n, r)
<1> DEFINE c == cache[p]
           n == IF config.kind = "ttl" THEN 1 ELSE 0
<1>0. /\ Dictionary(c) /\ config \in Config /\ Line(recency[p]) /\ DOMAIN recency = Process
  BY DEF CoreInv, Dictionaries, CacheType
<1>1. /\ Dictionary(Cleaned(c)) /\ Small(Cleaned(c))
      /\ config.kind = "lru" => Cleaned(c) = c \/ ~Small(c)
      /\ config.kind = "lru" /\ ~merged[p] => Trails(KeyOrder(Cleaned(c)), recency[p])
  BY <1>0, CleanedEntries DEF CoreInv, Recent
<1>2. config.kind \in {"ttl", "lru"}
  BY <1>0, Arguments
<1>3. recency' = recency
  BY DEF Cleanup
<1>4. Operates(p, Cleaned(c), n, recency[p])
  <2>1. Idle(p) /\ Writes(p, Cleaned(c), n) /\ Cleaned(c) # c
    BY DEF Cleanup
  <2>2. n \in {0, 1} /\ (n = 0 => config.kind = "lru")
    BY <1>2
  <2> HIDE DEF n
  <2>3. QED
    BY <2>1, <2>2, <1>0, <1>1, <1>3 DEF Operates
<1>5. QED
  BY <1>4

(* Every operation of a running process operates. *)
LEMMA AllOperate ==
  ASSUME CoreInv, NEW p \in Process,
         \/ Cleanup(p)
         \/ \E k : Get(p, k) \/ Delete(p, k) \/ \E v : SetTTL(p, k, v) \/ SetLRU(p, k, v)
  PROVE  \E m, n, r : Operates(p, m, n, r)
BY GetOperates, DeleteOperates, SetTTLOperates, SetLRUOperates, CleanupOperates

(* The steps of save_cache. *)
Saves(p) ==
  \/ SaveFails(p) \/ Merge(p) \/ SaveChecked(p) \/ SaveOpen(p) \/ SaveDump(p)
  \/ DumpFails(p) \/ SaveMd5(p)

(* The ends of a process. *)
Stopping(p) == Ends(p) \/ Crash(p)

Exiting(p) == Quit(p) \/ Signal(p) \/ ExitSaves(p)

(* What cuts a write off. *)
Tears(p) == SignalInDump(p) \/ Closes(p)

(* The kinds of steps. *)
LEMMA Steps ==
  ASSUME CoreInv, [Next]_vars
  PROVE  \/ UNCHANGED vars
         \/ TimePasses
         \/ \E p \in Process :
              \/ Start(p) \/ TakeMd5(p) \/ Load(p) \/ Clear(p)
              \/ Exiting(p) \/ Stopping(p) \/ Tears(p) \/ Saves(p)
              \/ \E m, n, r : Operates(p, m, n, r)
<1>1. CASE UNCHANGED vars
  BY <1>1
<1>2. CASE TimePasses
  BY <1>2
<1>3. ASSUME NEW p \in config.processes,
             \/ Start(p) \/ TakeMd5(p) \/ Load(p) \/ Clear(p) \/ Cleanup(p)
             \/ Quit(p) \/ Signal(p) \/ SignalInDump(p) \/ Closes(p) \/ ExitSaves(p)
             \/ Ends(p) \/ Crash(p)
             \/ SaveChecked(p) \/ SaveFails(p) \/ Merge(p) \/ SaveOpen(p) \/ SaveDump(p)
             \/ DumpFails(p) \/ SaveMd5(p)
             \/ \E k \in config.keys :
                  \/ Get(p, k) \/ Delete(p, k)
                  \/ \E v \in config.values : SetTTL(p, k, v) \/ SetLRU(p, k, v)
      PROVE  \E q \in Process :
               \/ Start(q) \/ TakeMd5(q) \/ Load(q) \/ Clear(q)
               \/ Exiting(q) \/ Stopping(q) \/ Tears(q) \/ Saves(q)
               \/ \E m, n, r : Operates(q, m, n, r)
  <2>1. p \in Process
    BY Arguments DEF CoreInv, CacheType
  <2>2. CASE \/ Cleanup(p)
             \/ \E k : Get(p, k) \/ Delete(p, k) \/ \E v : SetTTL(p, k, v) \/ SetLRU(p, k, v)
    BY <2>1, <2>2, AllOperate
  <2>3. CASE \/ Start(p) \/ TakeMd5(p) \/ Load(p) \/ Clear(p)
             \/ Exiting(p) \/ Stopping(p) \/ Tears(p) \/ Saves(p)
    BY <2>1, <2>3
  <2>4. QED
    BY <1>3, <2>2, <2>3 DEF Exiting, Stopping, Tears, Saves
<1>4. QED
  BY <1>1, <1>2, <1>3 DEF Next

(* An operation keeps the books. *)
LEMMA OperatesCore ==
  ASSUME CoreInv, NEW p \in Process, NEW m, NEW n, NEW r, Operates(p, m, n, r)
  PROVE  CoreInv'
<1>1. CacheType'
  BY DEF CoreInv, CacheType, Fresh, Label, Operates, Writes, Idle, ending
<1>2. /\ cache' = [cache EXCEPT ![p] = m] /\ seen' = [seen EXCEPT ![p] = @ \cup Keys(m)]
      /\ UNCHANGED <<config, file, merged>>
      /\ \A q \in Process : recency'[q] = IF q = p THEN r ELSE recency[q]
  BY DEF Operates, Writes
<1>3. Dictionaries'
  BY <1>2 DEF CoreInv, CacheType, Dictionaries, Operates
<1>4. Recent'
  <2> SUFFICES ASSUME NEW q \in Process, config.kind = "lru", ~merged[q]
               PROVE  Trails(KeyOrder(cache'[q]), recency'[q]) /\ Len(cache'[q]) <= config.max_size
    BY <1>2 DEF Recent
  <2>1. CASE q # p
    BY <1>2, <2>1 DEF CoreInv, CacheType, Recent
  <2>2. CASE q = p
    BY <1>2, <2>2 DEF CoreInv, CacheType, Recent, Operates, Small
  <2>3. QED
    BY <2>1, <2>2
<1>5. QED
  BY <1>1, <1>3, <1>4 DEF CoreInv

(* A step that changes no cache. *)
LEMMA QuietCore ==
  ASSUME CoreInv, CacheType', UNCHANGED <<config, cache, recency, merged, seen>>,
         Dictionary(file'.data)
  PROVE  CoreInv'
BY DEF CoreInv, Dictionaries, Recent

(* A process loads what is in the file. *)
LEMMA LoadCore ==
  ASSUME CoreInv, NEW p \in Process, Load(p)
  PROVE  CoreInv'
<1> DEFINE loaded == file.data
           kept == Cleaned(loaded)
           counted == IF config.kind = "ttl" /\ kept # loaded THEN 1 ELSE 0
<1>1. CacheType'
  <2>1. counted \in Nat
    OBVIOUS
  <2>2. /\ write_count' = [write_count EXCEPT ![p] = counted]
        /\ behind' = [behind EXCEPT ![p] = counted]
        /\ \E l \in {"check", "run"} : pc' = [pc EXCEPT ![p] = l]
        /\ cache' = [cache EXCEPT ![p] = kept]
    BY DEF Load, Goes
  <2> HIDE DEF counted, kept
  <2>3. QED
    BY <2>1, <2>2 DEF Load, ending, CoreInv, CacheType, Fresh, Label
<1>2. /\ cache' = [cache EXCEPT ![p] = kept]
      /\ recency' = [recency EXCEPT ![p] = KeyOrder(loaded)]
      /\ seen' = [seen EXCEPT ![p] = Keys(loaded)]
      /\ UNCHANGED <<config, file, merged>>
  BY DEF Load
<1>3. Dictionary(loaded) /\ Line(KeyOrder(loaded)) /\ Trails(KeyOrder(loaded), KeyOrder(loaded))
  <2>1. Dictionary(loaded)
    BY DEF CoreInv, Dictionaries
  <2>2. Line(KeyOrder(loaded))
    BY <2>1, KeysLine
  <2>3. Trails(KeyOrder(loaded), KeyOrder(loaded))
    <3> DEFINE K == KeyOrder(loaded)
    <3> HIDE DEF K
    <3>1. Len(K) \in Nat
      BY <2>2, LineShape DEF K
    <3>2. \A i \in 1 .. Len(K) : Len(K) - Len(K) + i = i
      BY <3>1
    <3>3. Trails(K, K)
      BY <3>1, <3>2 DEF Trails
    <3>4. QED
      BY <3>3 DEF K
  <2>4. QED
    BY <2>1, <2>2, <2>3
<1>4. /\ Dictionary(kept) /\ Keys(kept) \subseteq Keys(loaded) /\ Small(kept)
      /\ config.kind = "lru" => Trails(KeyOrder(kept), KeyOrder(loaded))
  BY <1>3, CleanedEntries DEF CoreInv, CacheType
<1> HIDE DEF kept
<1>5. Dictionaries'
  BY <1>2, <1>3, <1>4 DEF CoreInv, CacheType, Dictionaries
<1>6. Recent'
  BY <1>2, <1>4 DEF CoreInv, CacheType, Recent, Small
<1>7. QED
  BY <1>1, <1>5, <1>6 DEF CoreInv

(* An empty cache is the end of an empty order. *)
LEMMA EmptyTrails == Line(<<>>) /\ Trails(KeyOrder(<<>>), <<>>)
<1>1. KeyOrder(<<>>) = <<>> /\ Len(<<>>) = 0
  BY NoEntries
<1>2. Line(<<>>)
  BY DEF Line, Range
<1>3. QED
  BY <1>1, <1>2 DEF Trails

(* clear, and the end of a process. *)
LEMMA EmptiedCore ==
  ASSUME CoreInv, CacheType', NEW p \in Process,
         cache' = [cache EXCEPT ![p] = <<>>], recency' = [recency EXCEPT ![p] = <<>>],
         config' = config, Dictionary(file'.data),
         \A q \in Process : q # p => seen'[q] = seen[q] /\ merged'[q] = merged[q]
  PROVE  CoreInv'
<1>1. Dictionary(<<>>) /\ Line(<<>>) /\ Keys(<<>>) = {} /\ Len(<<>>) = 0
      /\ Trails(KeyOrder(<<>>), <<>>)
  BY NoEntries, EmptyTrails
<1>2. config.max_size \in Nat
  BY Arguments DEF CoreInv, CacheType
<1>3. Dictionaries'
  BY <1>1 DEF CoreInv, CacheType, Dictionaries
<1>4. Recent'
  BY <1>1, <1>2 DEF CoreInv, CacheType, Recent
<1>5. QED
  BY <1>3, <1>4 DEF CoreInv

(* The steps of save_cache keep the books. *)
LEMMA SavesCore ==
  ASSUME CoreInv, NEW p \in Process, Saves(p)
  PROVE  CoreInv'
<1>0. Dictionary(file.data) /\ Dictionary(cache[p]) /\ Dictionary(<<>>)
  BY NoEntries DEF CoreInv, Dictionaries
<1>1. CASE Merge(p)
  <2> DEFINE m == Update(file.data, cache[p])
  <2>1. CacheType'
    BY <1>1 DEF Merge, Goes, ending, CoreInv, CacheType, Fresh, Label
  <2>2. /\ cache' = [cache EXCEPT ![p] = m] /\ merged' = [merged EXCEPT ![p] = TRUE]
        /\ seen' = [seen EXCEPT ![p] = @ \cup Keys(file.data)]
        /\ UNCHANGED <<config, file, recency>>
    BY <1>1 DEF Merge
  <2>3. Dictionary(m) /\ Keys(m) \subseteq Keys(file.data) \cup Keys(cache[p])
    BY <1>0, UpdateEntries
  <2> HIDE DEF m
  <2>4. Dictionaries'
    BY <2>2, <2>3 DEF CoreInv, CacheType, Dictionaries
  <2>5. Recent'
    BY <2>2 DEF CoreInv, CacheType, Recent
  <2>6. QED
    BY <2>1, <2>4, <2>5 DEF CoreInv
<1>2. CASE SaveFails(p) \/ SaveChecked(p) \/ SaveMd5(p)
  <2>1. CacheType'
    <3>1. CASE SaveFails(p)
      BY <3>1 DEF SaveFails, Goes, own, ending, history, CoreInv, CacheType, Fresh, Label
    <3>2. CASE SaveChecked(p)
      BY <3>2 DEF SaveChecked, Goes, own, ending, history, CoreInv, CacheType, Fresh, Label
    <3>3. CASE SaveMd5(p)
      BY <3>3 DEF SaveMd5, Goes, ending, history, CoreInv, CacheType, Fresh, Label
    <3>4. QED
      BY <1>2, <3>1, <3>2, <3>3
  <2>2. UNCHANGED <<config, file, cache, recency, merged, seen>>
    BY <1>2 DEF SaveFails, SaveChecked, SaveMd5, own, history
  <2>3. QED
    BY <1>0, <2>1, <2>2, QuietCore
<1>3. CASE SaveOpen(p) \/ SaveDump(p) \/ DumpFails(p)
  <2>1. CacheType'
    <3>1. CASE SaveOpen(p)
      BY <3>1 DEF SaveOpen, Goes, own, ending, history, CoreInv, CacheType, Fresh, Label
    <3>2. CASE SaveDump(p)
      BY <3>2 DEF SaveDump, Goes, own, ending, history, CoreInv, CacheType, Fresh, Label
    <3>3. CASE DumpFails(p)
      BY <3>3 DEF DumpFails, Goes, own, ending, history, CoreInv, CacheType, Fresh, Label
    <3>4. QED
      BY <1>3, <3>1, <3>2, <3>3
  <2>2. UNCHANGED <<config, cache, recency, merged, seen>>
    BY <1>3 DEF SaveOpen, SaveDump, DumpFails, own, history
  <2>3. file' \in {Empty, Partial, File(cache[p])}
    BY <1>3 DEF SaveOpen, SaveDump, DumpFails
  <2>4. Dictionary(file'.data)
    BY <1>0, <2>3 DEF Empty, Partial, File
  <2>5. QED
    BY <2>1, <2>2, <2>4, QuietCore
<1>4. QED
  BY <1>1, <1>2, <1>3 DEF Saves

(* A process that ends gives up its memory. *)
LEMMA StoppingCore ==
  ASSUME CoreInv, NEW p \in Process, Stopping(p)
  PROVE  CoreInv'
<1>1. Stops(p)
  BY DEF Stopping, Ends, Crash
<1>2. CacheType'
  BY <1>1 DEF Stops, CoreInv, CacheType, Fresh, Label
<1>3. Dictionary(file'.data)
  <2>1. file' = file \/ file' = Partial
    BY DEF Stopping, Ends, Crash
  <2>2. QED
    BY <2>1, NoEntries DEF Partial, CoreInv, Dictionaries
<1>4. QED
  BY <1>1, <1>2, <1>3, EmptiedCore DEF Stops, CoreInv, CacheType

(* Every step keeps the books. *)
LEMMA CoreSteps == CoreInv /\ [Next]_vars => CoreInv'
<1> SUFFICES ASSUME CoreInv, [Next]_vars PROVE CoreInv'
  OBVIOUS
<1>0. Dictionary(file.data)
  BY DEF CoreInv, Dictionaries
<1>1. CASE UNCHANGED vars
  <2>1. CacheType'
    BY <1>1 DEF vars, own, ending, history, CoreInv, CacheType, Fresh
  <2>2. QED
    BY <1>0, <1>1, <2>1, QuietCore DEF vars, own, history
<1>2. CASE TimePasses
  <2>1. CacheType'
    BY <1>2 DEF TimePasses, own, ending, history, CoreInv, CacheType, Fresh
  <2>2. QED
    BY <1>0, <1>2, <2>1, QuietCore DEF TimePasses, own, history
<1>3. ASSUME NEW p \in Process, Clear(p) PROVE CoreInv'
  <2>1. CacheType'
    BY <1>3 DEF Clear, Idle, ending, CoreInv, CacheType, Fresh, Label
  <2>2. QED
    BY <1>0, <1>3, <2>1, EmptiedCore DEF Clear
<1>4. ASSUME NEW p \in Process, Exiting(p) PROVE CoreInv'
  <2>1. /\ pc' = [pc EXCEPT ![p] = "check"]
        /\ exits' = [exits EXCEPT ![p] = "save"] \/ exits' = [exits EXCEPT ![p] = "end"]
        /\ UNCHANGED <<config, file, torn, own, behind, history>>
    BY <1>4 DEF Exiting, Quit, Signal, ExitSaves, Exits, Handled, Goes, CoreInv, CacheType
  <2>2. CacheType'
    BY <2>1 DEF own, history, CoreInv, CacheType, Fresh, Label
  <2>3. QED
    BY <1>0, <2>1, <2>2, QuietCore DEF own, history
<1>5. ASSUME NEW p \in Process, Start(p) \/ TakeMd5(p) PROVE CoreInv'
  <2>1. CacheType'
    BY <1>5 DEF Start, TakeMd5, Goes, ending, history, CoreInv, CacheType, Fresh, Label
  <2>2. QED
    BY <1>0, <1>5, <2>1, QuietCore DEF Start, TakeMd5, history
<1>6. ASSUME NEW p \in Process, Tears(p) PROVE CoreInv'
  <2>1. CacheType'
    <3>1. CASE SignalInDump(p)
      <4>1. /\ pc' = [pc EXCEPT ![p] = "check"] /\ torn' = [torn EXCEPT ![p] = "open"]
            /\ exits' = [exits EXCEPT ![p] = "save"] \/ exits' = [exits EXCEPT ![p] = "end"]
            /\ UNCHANGED <<config, own, behind, history>>
        BY <3>1 DEF SignalInDump, Exits, Handled, Goes, CoreInv, CacheType
      <4>2. QED
        BY <4>1 DEF own, history, CoreInv, CacheType, Fresh, Label
    <3>2. CASE Closes(p)
      BY <3>2 DEF Closes, own, history, CoreInv, CacheType, Fresh
    <3>3. QED
      BY <1>6, <3>1, <3>2 DEF Tears
  <2>2. UNCHANGED <<config, cache, recency, merged, seen>>
    BY <1>6 DEF Tears, SignalInDump, Closes, Exits, own, history
  <2>3. file' \in {file, Partial, File(cache[p])}
    BY <1>6 DEF Tears, SignalInDump, Closes
  <2>4. Dictionary(file'.data)
    BY <1>0, <2>3, NoEntries DEF Partial, File, CoreInv, Dictionaries
  <2>5. QED
    BY <2>1, <2>2, <2>4, QuietCore
<1>7. QED
  BY <1>1, <1>2, <1>3, <1>4, <1>5, <1>6, Steps, LoadCore, StoppingCore, SavesCore,
     OperatesCore

(* Nothing is cached before a process starts. *)
LEMMA CoreStarts == Init => CoreInv
<1> SUFFICES ASSUME Init PROVE CoreInv
  OBVIOUS
<1>1. CacheType
  BY DEF Init, CacheType, Fresh, Label
<1>2. Dictionary(<<>>) /\ Line(<<>>) /\ Keys(<<>>) = {} /\ Len(<<>>) = 0
      /\ Trails(KeyOrder(<<>>), <<>>)
  BY NoEntries, EmptyTrails
<1>3. Dictionaries
  BY <1>2 DEF Init, Dictionaries, Absent
<1>4. Recent
  BY <1>1, <1>2, Arguments DEF Init, Recent, CacheType
<1>5. QED
  BY <1>1, <1>3, <1>4 DEF CoreInv

(* The end of a sequence, as SequencesExt has it. *)
LEMMA TrailsIsSuffix ==
  ASSUME NEW s, Line(s), NEW t, Line(t), Trails(s, t)
  PROVE  IsSuffix(s, t)
<1> DEFINE r == Reverse(s)
           u == Reverse(t)
           n == Len(s)
           S == Range(t)
<1>0. /\ n \in Nat /\ Len(t) \in Nat /\ n <= Len(t)
      /\ \A i \in 1 .. Len(t) : t[i] \in S
      /\ \A i \in 1 .. n : s[i] = t[Len(t) - n + i]
  BY LineShape DEF Trails
<1>1. Len(r) = n /\ \A i \in 1 .. n : r[i] = s[n - i + 1]
  BY <1>0 DEF Reverse
<1>2. Len(u) = Len(t) /\ \A i \in 1 .. Len(t) : u[i] = t[Len(t) - i + 1]
  BY <1>0 DEF Reverse
<1> HIDE DEF r, u, n, S
<1>3. ASSUME NEW i \in 1 .. n PROVE r[i] = u[i] /\ u[i] \in S /\ r[i] \in S
  <2>1. n - i + 1 \in 1 .. n /\ i \in 1 .. Len(t) /\ Len(t) - i + 1 \in 1 .. Len(t)
        /\ Len(t) - n + (n - i + 1) = Len(t) - i + 1
    BY <1>0
  <2>2. r[i] = s[n - i + 1] /\ s[n - i + 1] = t[Len(t) - i + 1]
    BY <1>0, <1>1, <2>1
  <2>3. u[i] = t[Len(t) - i + 1]
    BY <1>2, <2>1
  <2>4. QED
    BY <2>1, <2>2, <2>3, <1>0
<1> DEFINE a == SubSeq(r, 1, n)
           b == SubSeq(u, 1, n)
<1>4. /\ a \in Seq(S) /\ Len(a) = (IF 1 <= n THEN n - 1 + 1 ELSE 0)
      /\ \A i \in 1 .. n - 1 + 1 : a[i] = r[1 + i - 1]
  BY <1>0, <1>3, SubSeqProperties
<1>5. /\ b \in Seq(S) /\ Len(b) = (IF 1 <= n THEN n - 1 + 1 ELSE 0)
      /\ \A i \in 1 .. n - 1 + 1 : b[i] = u[1 + i - 1]
  BY <1>0, <1>3, SubSeqProperties
<1> HIDE DEF a, b
<1>6. Len(a) = n /\ Len(b) = n /\ n - 1 + 1 = n
  BY <1>0, <1>4, <1>5
<1>7. \A i \in 1 .. n : a[i] = r[i] /\ b[i] = u[i]
  <2> SUFFICES ASSUME NEW i \in 1 .. n PROVE a[i] = r[i] /\ b[i] = u[i]
    OBVIOUS
  <2>1. 1 + i - 1 = i
    OBVIOUS
  <2>2. QED
    BY <2>1, <1>4, <1>5, <1>6
<1>8. a = b
  <2>1. a = [i \in 1 .. n |-> a[i]] /\ b = [i \in 1 .. n |-> b[i]]
    BY <1>4, <1>5, <1>6, LenProperties
  <2>2. \A i \in 1 .. n : a[i] = b[i]
    BY <1>3, <1>7
  <2>3. QED
    BY <2>1, <2>2
<1>9. IsPrefix(r, u)
  BY <1>0, <1>1, <1>2, <1>8 DEF IsPrefix, a, b
<1>10. QED
  BY <1>9 DEF IsSuffix, r, u

(* KeepsRecent, for every size of the cache and every number of keys and   *)
(* processes: the order of an LRUCache is the end of the order in which    *)
(* its keys were used, through gets, sets, deletes, evictions, loads and   *)
(* saves.                                                                  *)
THEOREM CacheKeepsRecent == Spec => []KeepsRecent
<1>1. CoreInv => KeepsRecent
  <2> SUFFICES ASSUME CoreInv, NEW p \in Process, config.kind = "lru", ~merged[p]
               PROVE  /\ IsSuffix(KeyOrder(cache[p]), recency[p])
                      /\ Len(cache[p]) <= config.max_size
    BY DEF KeepsRecent
  <2>1. Line(KeyOrder(cache[p])) /\ Line(recency[p])
    BY KeysLine DEF CoreInv, Dictionaries
  <2>2. QED
    BY <2>1, TrailsIsSuffix DEF CoreInv, Recent
<1>2. QED
  BY <1>1, CoreStarts, CoreSteps, PTL DEF Spec

-----------------------------------------------------------------------------
(* Several processes over one file.                                        *)

OneSaver == \A p, q \in Process : Halfway(p) /\ Halfway(q) => p = q

(* The cache has held every key of the file of its MD5, once that file is  *)
(* loaded.  After p has compared the file with its MD5, merged or written  *)
(* it, and until the next step of its save, these are the keys in the      *)
(* file.                                                                   *)
Knows(p) ==
  /\ pc[p] = "load" => cache_file_md5[p] = file
  /\ pc[p] # "load" => Keys(cache_file_md5[p].data) \subseteq seen[p]
  /\ \/ pc[p] = "md5"
     \/ pc[p] = "open" /\ cache_file_md5[p] # NoMd5
     => Keys(file.data) \subseteq seen[p]

Undisturbed == past \cap {"raced", "early"} = {}

InTurn == Undisturbed => OneSaver /\ \A p \in Process : Knows(p)

TurnInv == CoreInv /\ InTurn

(* A step of p, which others see only in the file, and only while p is     *)
(* halfway.                                                                *)
LEMMA TurnStep ==
  ASSUME TurnInv, CoreInv', NEW p \in Process,
         past \subseteq past', Undisturbed' => Knows(p)',
         Halfway(p)' /\ ~Halfway(p) /\ Undisturbed' =>
           \A q \in Process \ {p} : ~Halfway(q),
         file' # file => Halfway(p),
         \A q \in Process : q # p =>
           /\ pc'[q] = pc[q] /\ torn'[q] = torn[q]
           /\ seen'[q] = seen[q] /\ cache_file_md5'[q] = cache_file_md5[q]
  PROVE  TurnInv'
<1> SUFFICES ASSUME Undisturbed' PROVE OneSaver' /\ \A q \in Process : Knows(q)'
  BY DEF TurnInv, InTurn
<1>1. OneSaver /\ \A q \in Process : Knows(q)
  BY DEF TurnInv, InTurn, Undisturbed
<1>2. \A q \in Process : q # p => (Halfway(q)' <=> Halfway(q))
  BY DEF Halfway
<1>3. OneSaver'
  BY <1>1, <1>2 DEF OneSaver
<1>4. ASSUME NEW q \in Process, q # p PROVE Knows(q)'
  <2>1. file' = file \/ ~Halfway(q)
    BY <1>1, <1>4 DEF OneSaver
  <2>2. QED
    BY <1>1, <1>4, <2>1 DEF Knows, Halfway
<1>5. QED
  BY <1>3, <1>4

(* Unreadable files have no keys. *)
LEMMA NoKeys ==
  Keys(Absent.data) = {} /\ Keys(Empty.data) = {} /\ Keys(Partial.data) = {}
    /\ Keys(NoMd5.data) = {}
BY NoEntries DEF Absent, Empty, Partial, NoMd5

(* The steps of save_cache. *)
LEMMA SavesTurn ==
  ASSUME TurnInv, NEW p \in Process, Saves(p)
  PROVE  TurnInv'
<1>0. CoreInv' /\ pc \in [Process -> Label]
      /\ DOMAIN cache_file_md5 = Process /\ DOMAIN seen = Process
  BY SavesCore DEF TurnInv, CoreInv, CacheType
<1>1. /\ torn' = torn
      /\ \A q \in Process : q # p =>
           pc'[q] = pc[q] /\ seen'[q] = seen[q] /\ cache_file_md5'[q] = cache_file_md5[q]
  BY <1>0 DEF Saves, SaveFails, Merge, SaveChecked, SaveOpen, SaveDump, DumpFails, SaveMd5,
              Goes, own, ending, history
<1>2. past \subseteq past'
  BY DEF Saves, SaveFails, Merge, SaveChecked, SaveOpen, SaveDump, DumpFails, SaveMd5, Happened
<1>3. file' # file => Halfway(p)
  BY DEF Saves, SaveFails, Merge, SaveChecked, SaveOpen, SaveDump, DumpFails, SaveMd5, Halfway
<1>4. Halfway(p)' /\ ~Halfway(p) /\ Undisturbed' => \A q \in Process \ {p} : ~Halfway(q)
  <2>1. CASE SaveChecked(p)
    BY <2>1 DEF SaveChecked, Happened, Undisturbed
  <2>2. CASE Merge(p) \/ SaveFails(p) \/ SaveOpen(p) \/ SaveDump(p) \/ DumpFails(p) \/ SaveMd5(p)
    BY <2>2, <1>0, <1>1 DEF Merge, SaveFails, SaveOpen, SaveDump, DumpFails, SaveMd5, Goes,
                            Halfway
  <2>3. QED
    BY <2>1, <2>2 DEF Saves
<1>5. ASSUME Undisturbed' PROVE Knows(p)'
  <2>0. Knows(p)
    BY <1>2, <1>5 DEF TurnInv, InTurn, Undisturbed
  <2>1. CASE Merge(p)
    BY <1>0, <2>0, <2>1 DEF Merge, Goes, Knows
  <2>2. CASE SaveChecked(p)
    <3>1. /\ UNCHANGED <<file, cache_file_md5, seen>> /\ pc[p] = "check"
          /\ pc' = [pc EXCEPT ![p] = IF Changed(p) THEN "merge" ELSE "open"]
      BY <2>2 DEF SaveChecked, Goes, own, history
    <3>2. CASE Changed(p)
      BY <1>0, <2>0, <3>1, <3>2 DEF Knows
    <3>3. CASE file = Absent \/ cache_file_md5[p] = NoMd5 \/ file = cache_file_md5[p]
      BY <1>0, <2>0, <3>1, <3>3, NoKeys DEF Knows, Changed
    <3>4. QED
      BY <3>2, <3>3 DEF Changed
  <2>3. CASE SaveFails(p) \/ SaveOpen(p) \/ DumpFails(p)
    BY <1>0, <2>0, <2>3 DEF SaveFails, SaveOpen, DumpFails, Goes, own, history, Knows
  <2>4. CASE SaveDump(p)
    <3>1. /\ pc' = [pc EXCEPT ![p] = "md5"] /\ UNCHANGED <<cache_file_md5, seen>>
          /\ file' = File(cache[p]) \/ file' = Partial
          /\ pc[p] = "dump"
      BY <2>4 DEF SaveDump, Goes, own, history
    <3>2. Keys(cache[p]) \subseteq seen[p] /\ File(cache[p]).data = cache[p]
      BY DEF TurnInv, CoreInv, Dictionaries, File
    <3>3. Keys(file'.data) \subseteq seen[p]
      BY <3>1, <3>2, NoKeys
    <3>4. QED
      BY <1>0, <2>0, <3>1, <3>3 DEF Knows
  <2>5. CASE SaveMd5(p)
    BY <1>0, <2>0, <2>5 DEF SaveMd5, Goes, history, Knows
  <2>6. QED
    BY <2>1, <2>2, <2>3, <2>4, <2>5 DEF Saves
<1>6. QED
  BY <1>0, <1>1, <1>2, <1>3, <1>4, <1>5, TurnStep

(* A step of p after which it knows of no file but that of its MD5, or is  *)
(* loading it.                                                             *)
LEMMA OtherTurn ==
  ASSUME TurnInv, CoreInv', NEW p \in Process,
         past \subseteq past', pc'[p] \notin {"open", "md5"},
         Undisturbed' => IF pc'[p] = "load" THEN cache_file_md5'[p] = file'
                         ELSE Keys(cache_file_md5'[p].data) \subseteq seen'[p],
         Halfway(p)' /\ ~Halfway(p) /\ Undisturbed' =>
           \A q \in Process \ {p} : ~Halfway(q),
         file' # file => Halfway(p),
         \A q \in Process : q # p =>
           /\ pc'[q] = pc[q] /\ torn'[q] = torn[q]
           /\ seen'[q] = seen[q] /\ cache_file_md5'[q] = cache_file_md5[q]
  PROVE  TurnInv'
<1>1. Undisturbed' => Knows(p)'
  BY DEF Knows
<1>2. QED
  BY <1>1, TurnStep

(* The start of a process. *)
LEMMA StartTurn ==
  ASSUME TurnInv, CoreInv', NEW p \in Process, Start(p) \/ TakeMd5(p) \/ Load(p)
  PROVE  TurnInv'
<1>0. /\ pc \in [Process -> Label] /\ Fresh(p)
      /\ DOMAIN cache_file_md5 = Process /\ DOMAIN seen = Process
  BY DEF TurnInv, CoreInv, CacheType
<1>1. CASE Start(p)
  <2>1. /\ pc' = [pc EXCEPT ![p] = "init"] /\ UNCHANGED <<file, torn, seen, cache_file_md5>>
        /\ past \subseteq past' /\ cache_file_md5[p] = NoMd5 /\ torn[p] = "no"
    BY <1>0, <1>1 DEF Start, Goes, ending, history, Fresh
  <2>2. ~Halfway(p)'
    BY <1>0, <2>1 DEF Halfway
  <2>3. QED
    BY <1>0, <2>1, <2>2, NoKeys, OtherTurn
<1>2. CASE TakeMd5(p)
  <2>1. /\ pc' = [pc EXCEPT ![p] = IF file = Absent THEN "run" ELSE "load"]
        /\ UNCHANGED <<file, torn, seen>> /\ torn[p] = "no"
        /\ cache_file_md5' = [cache_file_md5 EXCEPT ![p] = LoadedMd5]
        /\ past' = IF file = Absent THEN past ELSE Happened(p)
    BY <1>0, <1>2 DEF TakeMd5, Goes, ending, history, Fresh
  <2>2. CASE file = Absent
    <3>1. ~Halfway(p)' /\ cache_file_md5'[p] = NoMd5 /\ pc'[p] = "run" /\ past' = past
      BY <1>0, <2>1, <2>2 DEF Halfway, LoadedMd5
    <3>2. QED
      BY <1>0, <2>1, <3>1, NoKeys, OtherTurn
  <2>3. CASE file # Absent
    <3>1. cache_file_md5'[p] = file /\ pc'[p] = "load" /\ past' = Happened(p)
      BY <1>0, <2>1, <2>3 DEF LoadedMd5
    <3>2. past \subseteq past' /\ (Undisturbed' => \A q \in Process \ {p} : ~Halfway(q))
      BY <3>1 DEF Happened, Undisturbed
    <3>3. QED
      BY <1>0, <2>1, <3>1, <3>2, OtherTurn
  <2>4. QED
    BY <2>2, <2>3
<1>3. CASE Load(p)
  <2>1. /\ pc[p] = "load" /\ \E l \in {"check", "run"} : pc' = [pc EXCEPT ![p] = l]
        /\ seen' = [seen EXCEPT ![p] = Keys(file.data)]
        /\ UNCHANGED <<file, torn, cache_file_md5, past>>
    BY <1>3 DEF Load, Goes, ending
  <2>2. Undisturbed' => cache_file_md5[p] = file
    BY <2>1 DEF TurnInv, InTurn, Knows, Undisturbed
  <2>3. ~Halfway(p)' \/ Halfway(p)
    BY <2>1 DEF Halfway
  <2>4. QED
    BY <1>0, <2>1, <2>2, <2>3, OtherTurn
<1>4. QED
  BY <1>1, <1>2, <1>3

(* What interrupts a process. *)
LEMMA InterruptTurn ==
  ASSUME TurnInv, CoreInv', NEW p \in Process,
         Clear(p) \/ Exiting(p) \/ Tears(p) \/ Stopping(p)
  PROVE  TurnInv'
<1>0. /\ pc \in [Process -> Label] /\ Fresh(p) /\ DOMAIN torn = Process
      /\ DOMAIN cache_file_md5 = Process /\ DOMAIN seen = Process
  BY DEF TurnInv, CoreInv, CacheType
<1>a. ASSUME past \subseteq past', Undisturbed', pc[p] # "load"
      PROVE  Keys(cache_file_md5[p].data) \subseteq seen[p]
  BY <1>a DEF TurnInv, InTurn, Knows, Undisturbed
<1>1. CASE Clear(p) \/ Exiting(p)
  <2>1. /\ UNCHANGED <<file, seen, cache_file_md5, torn>> /\ pc' = [pc EXCEPT ![p] = "check"]
        /\ past \subseteq past' /\ (pc[p] = "load" => "early" \in past')
    BY <1>1 DEF Clear, Exiting, Quit, Signal, ExitSaves, Exits, Goes, Idle, own, ending, history
  <2>2. Undisturbed' => Keys(cache_file_md5[p].data) \subseteq seen[p]
    BY <1>a, <2>1 DEF Undisturbed
  <2>3. pc'[p] = "check" /\ (Halfway(p)' => Halfway(p))
    BY <1>0, <2>1 DEF Halfway
  <2>4. QED
    BY <1>0, <2>1, <2>2, <2>3, OtherTurn
<1>2. CASE SignalInDump(p)
  <2>1. /\ UNCHANGED <<seen, cache_file_md5, past>> /\ pc[p] = "dump"
        /\ pc' = [pc EXCEPT ![p] = "check"] /\ torn' = [torn EXCEPT ![p] = "open"]
    BY <1>2 DEF SignalInDump, Exits, Goes, own, history
  <2>2. Halfway(p)
    BY <2>1 DEF Halfway
  <2>3. QED
    BY <1>0, <1>a, <2>1, <2>2, OtherTurn
<1>3. CASE Closes(p)
  <2>1. /\ UNCHANGED <<pc, seen, cache_file_md5, past>> /\ pc[p] = "run"
        /\ torn[p] = "open" /\ torn' = [torn EXCEPT ![p] = "closed"]
    BY <1>3 DEF Closes, own, history
  <2>2. Halfway(p)
    BY <2>1 DEF Halfway
  <2>3. QED
    BY <1>0, <1>a, <2>1, <2>2, OtherTurn
<1>4. CASE Stopping(p)
  <2>1. /\ pc' = [pc EXCEPT ![p] = "down"] /\ seen' = [seen EXCEPT ![p] = {}]
        /\ cache_file_md5' = [cache_file_md5 EXCEPT ![p] = NoMd5]
        /\ torn' = [torn EXCEPT ![p] = "no"]
        /\ past \subseteq past' /\ (file' # file => Halfway(p))
    BY <1>4 DEF Stopping, Ends, Crash, Stops, Halfway
  <2>2. ~Halfway(p)' /\ pc'[p] = "down" /\ cache_file_md5'[p] = NoMd5
    BY <1>0, <2>1 DEF Halfway
  <2>3. QED
    BY <1>0, <2>1, <2>2, NoKeys, OtherTurn
<1>5. QED
  BY <1>1, <1>2, <1>3, <1>4 DEF Tears

(* OthersKept is kept by every step. *)
LEMMA TurnSteps == TurnInv /\ [Next]_vars => TurnInv'
<1> SUFFICES ASSUME TurnInv, [Next]_vars PROVE TurnInv'
  OBVIOUS
<1>0. CoreInv /\ CoreInv' /\ pc \in [Process -> Label]
      /\ DOMAIN cache_file_md5 = Process /\ DOMAIN seen = Process
  BY CoreSteps DEF TurnInv, CoreInv, CacheType
<1>1. CASE UNCHANGED vars \/ TimePasses
  <2>1. UNCHANGED <<file, pc, torn, cache_file_md5, seen, past>>
    BY <1>1 DEF vars, TimePasses, own, ending, history
  <2>2. InTurn'
    BY <2>1 DEF TurnInv, InTurn, Undisturbed, OneSaver, Knows, Halfway
  <2>3. QED
    BY <1>0, <2>2 DEF TurnInv
<1>2. ASSUME NEW p \in Process, NEW m, NEW n, NEW r, Operates(p, m, n, r) PROVE TurnInv'
  <2>1. /\ \E l \in {"check", "run"} : pc' = [pc EXCEPT ![p] = l]
        /\ seen' = [seen EXCEPT ![p] = @ \cup Keys(m)]
        /\ UNCHANGED <<file, torn, cache_file_md5, past>> /\ pc[p] = "run"
    BY <1>2 DEF Operates, Writes, Idle, ending
  <2>2. Undisturbed' => Keys(cache_file_md5[p].data) \subseteq seen[p]
    BY <2>1 DEF TurnInv, InTurn, Knows, Undisturbed
  <2>3. Halfway(p)' => Halfway(p)
    BY <1>0, <2>1 DEF Halfway
  <2>4. QED
    BY <1>0, <2>1, <2>2, <2>3, OtherTurn
<1>3. QED
  BY <1>0, <1>1, <1>2, Steps, StartTurn, InterruptTurn, SavesTurn

(* OthersKept, for every number of processes: as long as no load or save   *)
(* ran beside another one of a different process, and no signal came       *)
(* before a load, a save replaces no key that its process has not seen.    *)
THEOREM OthersAreKept == Spec => []OthersKept
<1>1. Init => TurnInv
  <2> SUFFICES ASSUME Init PROVE InTurn
    BY CoreStarts DEF TurnInv
  <2>1. QED
    BY NoKeys DEF Init, InTurn, OneSaver, Knows, Halfway
<1>2. TurnInv => OthersKept
  BY DEF TurnInv, InTurn, Undisturbed, Knows, OthersKept
<1>3. QED
  BY <1>1, <1>2, TurnSteps, PTL DEF Spec

-----------------------------------------------------------------------------
(* A process that has the file for itself.                                 *)

Lone == \A p, q \in Process : pc[p] # "down" /\ pc[q] # "down" => p = q

(* What a process that is alone may rely on.  Only its own write changes   *)
(* the file, so that a save that finds a changed file is one of an exit    *)
(* that interrupted a save after the write: the merge gives back what is   *)
(* in memory, and the save cannot fail.  After a signal in the write, what *)
(* is in the file is unreadable or what is in memory.                      *)
Settled(p) ==
  /\ /\ pc[p] \in {"load", "run", "check", "merge", "open"}
     /\ Changed(p) /\ torn[p] = "no"
     => exits[p] # "no" /\ file = File(cache[p])
  /\ pc[p] = "merge" => Changed(p)
  /\ pc[p] = "dump" => file = Empty
  /\ pc[p] = "md5" => file = File(cache[p]) /\ behind[p] = 0
  /\ pc[p] = "run" /\ exits[p] # "no" /\ torn[p] = "no" => file = File(cache[p])
  /\ torn[p] # "no" /\ Readable(file) => file = File(cache[p])
  /\ Idle(p) /\ behind[p] = 0 => OnDisk(p)
  /\ Idle(p) /\ config.save_step > 0 =>
       behind[p] = write_count[p] /\ write_count[p] < config.save_step
  /\ Small(cache[p])

AloneInv == Alone => Lone /\ Small(file.data) /\ \A p \in Process : Settled(p)

SavedInv == CoreInv /\ AloneInv

(* A step of p, while all others are down. *)
LEMMA AloneStep ==
  ASSUME SavedInv, CoreInv', NEW p \in Process, config' = config,
         Alone' => Alone,
         Alone' => Settled(p)' /\ Small(file'.data),
         Alone' => pc[p] # "down" \/ \A q \in Process \ {p} : pc[q] = "down",
         \A q \in Process : q # p => pc'[q] = pc[q] /\ cache'[q] = cache[q]
  PROVE  SavedInv'
<1> SUFFICES ASSUME Alone' PROVE Lone' /\ Small(file.data)' /\ \A q \in Process : Settled(q)'
  BY DEF SavedInv, AloneInv
<1>1. Lone /\ \A q \in Process : Settled(q)
  BY DEF SavedInv, AloneInv
<1>2. \A q \in Process : q # p => pc[q] = "down"
  BY <1>1 DEF Lone
<1>3. Lone'
  BY <1>2 DEF Lone
<1>4. ASSUME NEW q \in Process, q # p PROVE Settled(q)'
  <2>1. pc'[q] = "down" /\ Small(cache[q])
    BY <1>1, <1>2, <1>4 DEF Settled
  <2>2. Small(cache[q])'
    BY <1>4, <2>1 DEF Small
  <2>3. torn'[q] = "no"
    BY <2>1 DEF CoreInv, CacheType, Fresh
  <2>4. QED
    BY <2>1, <2>2, <2>3 DEF Settled, Idle
<1>5. Small(file.data)'
  BY DEF Small
<1>6. QED
  BY <1>3, <1>4, <1>5

(* get, set, delete and cleanup *)
LEMMA OperatesSaved ==
  ASSUME SavedInv, NEW p \in Process, NEW m, NEW n, NEW r, Operates(p, m, n, r)
  PROVE  SavedInv'
<1>0. CoreInv' /\ CacheType /\ config.save_step \in Nat
  BY OperatesCore, Arguments DEF SavedInv, CoreInv, CacheType
<1>1. /\ pc[p] = "run" /\ exits[p] = "no" /\ n \in {0, 1}
      /\ cache' = [cache EXCEPT ![p] = m]
      /\ write_count' = [write_count EXCEPT ![p] = @ + n]
      /\ behind' = [behind EXCEPT ![p] = @ + n]
      /\ pc' = [pc EXCEPT ![p] = IF n > 0 /\ Due(p, write_count[p] + n) THEN "check" ELSE @]
      /\ UNCHANGED <<config, file, cache_file_md5, exits, torn, past>>
  BY DEF Operates, Writes, Idle, ending
<1>2. ASSUME Alone' PROVE Settled(p)' /\ Small(file'.data)
  <2>0. Alone /\ Settled(p) /\ Small(file.data)
    BY <1>1, <1>2 DEF Alone, SavedInv, AloneInv
  <2>1. torn[p] = "no" /\ ~Changed(p) /\ ~Changed(p)'
    BY <1>0, <1>1, <2>0 DEF Settled, Changed, CacheType, Fresh
  <2>2. pc'[p] \in {"run", "check"} /\ exits'[p] = "no" /\ torn'[p] = "no" /\ cache'[p] = m
        /\ behind'[p] = behind[p] + n /\ write_count'[p] = write_count[p] + n
        /\ behind[p] \in Nat /\ write_count[p] \in Nat
    BY <1>0, <1>1, <2>1 DEF CacheType
  <2>3. Small(m)
    BY <2>0 DEF Settled, Operates
  <2>4. ASSUME behind'[p] = 0 PROVE Entries(file.data) = Entries(m)
    <3>1. n = 0 /\ behind[p] = 0
      BY <1>1, <2>2, <2>4
    <3>2. QED
      BY <3>1, <1>1, <2>0 DEF Settled, Operates, OnDisk, Idle
  <2>5. ASSUME pc'[p] = "run", config.save_step > 0
        PROVE  behind'[p] = write_count'[p] /\ write_count'[p] < config.save_step
    <3>1. behind[p] = write_count[p] /\ write_count[p] < config.save_step
      BY <1>1, <2>0, <2>5 DEF Settled, Idle
    <3>2. n = 0 \/ ~Due(p, write_count[p] + n)
      BY <1>0, <1>1, <2>5 DEF CacheType
    <3>3. n = 0 \/ write_count[p] + n < config.save_step
      BY <3>2, <2>5, <2>2, <1>1, <1>0 DEF Due
    <3>4. QED
      BY <3>1, <3>3, <2>2
  <2>6. Settled(p)'
    <3>1. Small(cache[p])'
      BY <2>2, <2>3, <1>1 DEF Small
    <3>2. behind'[p] = 0 => OnDisk(p)'
      BY <2>2, <2>4, <1>1 DEF OnDisk
    <3>3. config' = config
      BY <1>1
    <3>4. QED
      BY <2>1, <2>2, <2>5, <3>1, <3>2, <3>3 DEF Settled, Idle
  <2>7. QED
    BY <2>0, <2>6, <1>1
<1>3. QED
  BY <1>0, <1>1, <1>2, AloneStep DEF Alone, CacheType

(* The start of a process, up to the load. *)
LEMMA StartSaved ==
  ASSUME SavedInv, CoreInv', NEW p \in Process, Start(p) \/ TakeMd5(p)
  PROVE  SavedInv'
<1>0. CacheType /\ CacheType' /\ config.save_step \in Nat
  BY Arguments DEF SavedInv, CoreInv, CacheType
<1>1. CASE Start(p)
  <2>1. /\ pc[p] = "down" /\ pc' = [pc EXCEPT ![p] = "init"]
        /\ past' = IF \E q \in Process \ {p} : pc[q] # "down" THEN past \cup {"shared"} ELSE past
        /\ UNCHANGED <<config, file, cache, exits, torn>>
    BY <1>1 DEF Start, Goes, ending
  <2>2. Alone' => Alone /\ \A q \in Process \ {p} : pc[q] = "down"
    BY <2>1 DEF Alone
  <2>3. pc'[p] = "init" /\ torn'[p] = "no"
    BY <1>0, <2>1 DEF CacheType, Fresh
  <2>4. ASSUME Alone' PROVE Settled(p)' /\ Small(file'.data)
    <3>1. Settled(p) /\ Small(file.data)
      BY <2>2, <2>4 DEF SavedInv, AloneInv
    <3>2. Small(cache[p])'
      BY <2>1, <3>1 DEF Settled, Small
    <3>3. QED
      BY <2>1, <2>3, <3>1, <3>2 DEF Settled, Idle
  <2>5. QED
    BY <1>0, <2>1, <2>2, <2>4, AloneStep DEF CacheType
<1>2. CASE TakeMd5(p)
  <2>1. /\ pc[p] = "init" /\ past \subseteq past'
        /\ pc' = [pc EXCEPT ![p] = IF file = Absent THEN "run" ELSE "load"]
        /\ cache_file_md5' = [cache_file_md5 EXCEPT ![p] = LoadedMd5]
        /\ UNCHANGED <<config, file, cache, exits, torn, behind, write_count>>
    BY <1>2 DEF TakeMd5, Goes, ending, Happened
  <2>2. /\ pc'[p] \in {"run", "load"} /\ (pc'[p] = "run" => file = Absent)
        /\ exits'[p] = "no" /\ torn'[p] = "no" /\ cache'[p] = <<>>
        /\ write_count'[p] = 0 /\ behind'[p] = 0 /\ cache_file_md5'[p] = LoadedMd5
    BY <1>0, <2>1 DEF CacheType, Fresh
  <2>3. Alone' => Alone
    BY <2>1 DEF Alone
  <2>4. ASSUME Alone' PROVE Settled(p)' /\ Small(file'.data)
    <3>1. Settled(p) /\ Small(file.data)
      BY <2>3, <2>4 DEF SavedInv, AloneInv
    <3>2. Small(cache[p])'
      BY <2>1, <3>1 DEF Settled, Small
    <3>3. ~Changed(p)'
      BY <2>1, <2>2 DEF Changed, LoadedMd5
    <3>4. pc'[p] = "run" => OnDisk(p)'
      BY <2>1, <2>2, NoEntries DEF OnDisk, Absent
    <3>5. config'.save_step > 0 => write_count'[p] < config'.save_step
      BY <1>0, <2>1, <2>2
    <3>6. QED
      BY <2>1, <2>2, <3>1, <3>2, <3>3, <3>4, <3>5 DEF Settled, Idle
  <2>5. QED
    BY <1>0, <2>1, <2>3, <2>4, AloneStep DEF CacheType
<1>3. QED
  BY <1>1, <1>2

(* The load. *)
LEMMA LoadSaved ==
  ASSUME SavedInv, NEW p \in Process, Load(p)
  PROVE  SavedInv'
<1> DEFINE kept == Cleaned(file.data)
           counted == IF config.kind = "ttl" /\ kept # file.data THEN 1 ELSE 0
<1>0. CoreInv' /\ CacheType /\ config.save_step \in Nat /\ config.kind \in {"ttl", "lru"}
      /\ Dictionary(file.data) /\ config \in Config
  BY LoadCore, Arguments DEF SavedInv, CoreInv, CacheType, Dictionaries
<1>1. /\ pc[p] = "load"
      /\ cache' = [cache EXCEPT ![p] = kept]
      /\ write_count' = [write_count EXCEPT ![p] = counted]
      /\ behind' = [behind EXCEPT ![p] = counted]
      /\ pc' = [pc EXCEPT ![p] =
                  IF counted > 0 /\ config.save_step = 1 THEN "check" ELSE "run"]
      /\ UNCHANGED <<config, file, cache_file_md5, exits, torn, past>>
  BY DEF Load, Goes, ending
<1>2. counted \in {0, 1}
  OBVIOUS
<1>3. Small(kept) /\ (counted = 0 /\ Small(file.data) => kept = file.data)
  BY <1>0, CleanedEntries
<1> HIDE DEF counted, kept
<1>4. /\ cache'[p] = kept /\ exits[p] = "no" /\ torn[p] = "no"
      /\ write_count'[p] = counted /\ behind'[p] = counted
      /\ pc'[p] \in {"check", "run"}
      /\ pc'[p] = "run" => ~(counted > 0 /\ config.save_step = 1)
  BY <1>0, <1>1 DEF CacheType, Fresh
<1>5. ASSUME Alone' PROVE Settled(p)' /\ Small(file'.data)
  <2>0. Settled(p) /\ Small(file.data)
    BY <1>1, <1>5 DEF Alone, SavedInv, AloneInv
  <2>1. ~Changed(p)'
    BY <1>1, <1>4, <2>0 DEF Changed, Settled
  <2>2. behind'[p] = 0 => OnDisk(p)'
    BY <1>1, <1>3, <1>4, <2>0 DEF OnDisk
  <2>3. pc'[p] = "run" /\ config.save_step > 0 => counted < config.save_step
    BY <1>0, <1>2, <1>4
  <2>4. Small(cache[p])' /\ config' = config
    BY <1>1, <1>3, <1>4 DEF Small
  <2>5. exits'[p] = "no" /\ torn'[p] = "no"
    BY <1>1, <1>4
  <2>6. Settled(p)'
    BY <1>4, <2>1, <2>2, <2>3, <2>4, <2>5 DEF Settled, Idle
  <2>7. QED
    BY <2>0, <2>6, <1>1
<1>6. QED
  BY <1>0, <1>1, <1>5, AloneStep DEF CacheType, Alone

(* The steps of save_cache *)
LEMMA SavesSaved ==
  ASSUME SavedInv, NEW p \in Process, Saves(p)
  PROVE  SavedInv'
<1>0. CoreInv' /\ CacheType /\ config.save_step \in Nat /\ config.max_size \in Nat
      /\ Dictionary(cache[p]) /\ (exits[p] = "no" => torn[p] = "no")
  BY SavesCore, Arguments DEF SavedInv, CoreInv, CacheType, Fresh, Dictionaries
<1>1. /\ config' = config /\ pc[p] # "down" /\ exits' = exits /\ torn' = torn
      /\ past \subseteq past'
      /\ \A q \in Process : q # p => pc'[q] = pc[q] /\ cache'[q] = cache[q]
  BY <1>0 DEF Saves, SaveFails, Merge, SaveChecked, SaveOpen, SaveDump, DumpFails, SaveMd5,
              Goes, own, ending, Happened, CacheType
<1>2. Alone' => Alone
  BY <1>1 DEF Alone
<1>3. ASSUME Alone' PROVE Settled(p)' /\ Small(file'.data)
  <2>0. Settled(p) /\ Small(file.data)
    BY <1>2, <1>3 DEF SavedInv, AloneInv
  <2>1. Small(cache[p])
    BY <2>0 DEF Settled
  <2>2. CASE SaveFails(p)
    <3>1. /\ pc[p] = "merge" /\ ~Readable(file) /\ pc'[p] = "run"
          /\ UNCHANGED <<file, cache, cache_file_md5>>
      BY <1>0, <2>2 DEF SaveFails, Goes, own, CacheType
    <3>2. torn[p] # "no" /\ exits[p] # "no"
      BY <1>0, <2>0, <3>1 DEF Settled, Readable, File
    <3>3. ~Readable(file)' /\ Small(cache[p])'
      BY <1>1, <2>1, <3>1 DEF Readable, Small
    <3>4. QED
      BY <1>1, <2>0, <3>1, <3>2, <3>3 DEF Settled, Idle
  <2>3. CASE Merge(p)
    <3>1. pc[p] = "merge" /\ Readable(file) /\ file = File(cache[p]) /\ exits[p] # "no"
      BY <1>0, <2>0, <2>3 DEF Merge, Settled
    <3>2. Update(file.data, cache[p]) = cache[p]
      BY <3>1, <1>0, UpdateEntries DEF File
    <3>3. cache'[p] = cache[p] /\ pc'[p] = "open" /\ file' = file
      BY <1>0, <2>3, <3>2 DEF Merge, Goes, CacheType
    <3>4. Small(cache[p])'
      BY <1>1, <2>1, <3>3 DEF Small
    <3>5. QED
      BY <1>1, <2>0, <3>1, <3>3, <3>4 DEF Settled, Idle
  <2>4. CASE SaveChecked(p)
    <3>1. /\ UNCHANGED <<file, cache_file_md5, cache>> /\ pc[p] = "check"
          /\ pc'[p] = IF Changed(p) THEN "merge" ELSE "open"
      BY <1>0, <2>4 DEF SaveChecked, Goes, own, CacheType
    <3>2. (Changed(p)' <=> Changed(p)) /\ Small(cache[p])' /\ (Readable(file)' <=> Readable(file))
      BY <1>1, <2>1, <3>1 DEF Changed, Small, Readable
    <3>3. QED
      BY <1>1, <2>0, <3>1, <3>2 DEF Settled, Idle
  <2>5. CASE SaveOpen(p)
    <3>1. cache' = cache /\ pc'[p] = "dump" /\ file' = Empty
      BY <1>0, <2>5 DEF SaveOpen, Goes, own, CacheType
    <3>2. Small(cache[p])' /\ Small(file'.data) /\ ~Readable(file)'
      BY <1>0, <1>1, <2>1, <3>1, NoEntries DEF Small, Empty, Readable
    <3>3. QED
      BY <3>1, <3>2 DEF Settled, Idle
  <2>6. CASE SaveDump(p)
    <3>1. cache' = cache /\ pc'[p] = "md5" /\ file' = File(cache[p]) /\ behind'[p] = 0
      BY <1>0, <2>0, <2>6 DEF SaveDump, Settled, Goes, own, CacheType
    <3>2. Small(cache[p])' /\ Small(file'.data)
      BY <1>1, <2>1, <3>1 DEF Small, File
    <3>3. QED
      BY <3>1, <3>2 DEF Settled, Idle
  <2>7. CASE DumpFails(p)
    BY <1>3, <2>7 DEF DumpFails, Alone
  <2>8. CASE SaveMd5(p)
    <3>1. /\ UNCHANGED <<file, cache>> /\ pc'[p] = "run" /\ cache_file_md5'[p] = file
          /\ write_count'[p] = 0 /\ behind' = behind
      BY <1>0, <2>8 DEF SaveMd5, Goes, SavedInv, CoreInv, CacheType
    <3>2. file = File(cache[p]) /\ behind[p] = 0
      BY <2>0, <2>8 DEF SaveMd5, Settled
    <3>3. ~Changed(p)' /\ Small(cache[p])'
      BY <1>1, <2>1, <3>1 DEF Changed, Small
    <3>4. OnDisk(p)'
      BY <3>1, <3>2 DEF OnDisk, File
    <3>5. config'.save_step > 0 => 0 < config'.save_step
      BY <1>0, <1>1
    <3>6. file' = File(cache'[p]) /\ behind'[p] = 0
      BY <3>1, <3>2
    <3>7. Small(file'.data)
      BY <2>0, <3>1
    <3>8. QED
      BY <3>1, <3>3, <3>4, <3>5, <3>6, <3>7 DEF Settled, Idle
  <2>9. QED
    BY <2>2, <2>3, <2>4, <2>5, <2>6, <2>7, <2>8 DEF Saves
<1>4. QED
  BY <1>0, <1>1, <1>2, <1>3, AloneStep

(* The memory of the process that had the file to itself is on disk, or    *)
(* going there, after every step.                                          *)
LEMMA SavedSteps == SavedInv /\ [Next]_vars => SavedInv'
<1> SUFFICES ASSUME SavedInv, [Next]_vars PROVE SavedInv'
  OBVIOUS
<1>0. CoreInv /\ CoreInv' /\ CacheType /\ config.max_size \in Nat
  BY CoreSteps, Arguments DEF SavedInv, CoreInv, CacheType
<1>1. CASE UNCHANGED vars \/ TimePasses
  <2>1. UNCHANGED <<config, file, pc, cache, cache_file_md5, write_count, exits, torn, behind,
                    past>>
    BY <1>1 DEF vars, TimePasses, own, ending
  <2>2. AloneInv'
    BY <2>1 DEF SavedInv, AloneInv, Alone, Lone, Settled, Small, Changed, Idle, OnDisk, Readable
  <2>3. QED
    BY <1>0, <2>2 DEF SavedInv
<1>2. ASSUME NEW p \in Process, Clear(p) PROVE SavedInv'
  <2>1. /\ pc[p] = "run" /\ exits[p] = "no" /\ pc' = [pc EXCEPT ![p] = "check"]
        /\ cache' = [cache EXCEPT ![p] = <<>>]
        /\ UNCHANGED <<config, file, cache_file_md5, exits, torn, past>>
    BY <1>2 DEF Clear, Idle, ending
  <2>2. ASSUME Alone' PROVE Settled(p)' /\ Small(file'.data)
    <3>1. Settled(p) /\ Small(file.data)
      BY <2>1, <2>2 DEF SavedInv, AloneInv, Alone
    <3>2. torn[p] = "no" /\ ~Changed(p)'
      BY <1>0, <2>1, <3>1 DEF Settled, Changed, CacheType, Fresh
    <3>3. Small(cache[p])'
      BY <1>0, <2>1, NoEntries DEF Small, CacheType
    <3>4. pc'[p] = "check"
      BY <1>0, <2>1 DEF CacheType
    <3>5. QED
      BY <2>1, <3>1, <3>2, <3>3, <3>4 DEF Settled, Idle
  <2>3. QED
    BY <1>0, <2>1, <2>2, AloneStep DEF Alone, CacheType
<1>3. ASSUME NEW p \in Process, Exiting(p) PROVE SavedInv'
  <2>1. /\ pc[p] \notin {"down", "dump"} /\ pc' = [pc EXCEPT ![p] = "check"]
        /\ exits' = [exits EXCEPT ![p] = "save"] \/ exits' = [exits EXCEPT ![p] = "end"]
        /\ past \subseteq past' /\ UNCHANGED <<config, file, cache, cache_file_md5, torn>>
    BY <1>0, <1>3 DEF Exiting, Quit, Signal, ExitSaves, Exits, Handled, Goes, own, Idle, CacheType
  <2>2. pc'[p] = "check" /\ exits'[p] # "no"
    BY <1>0, <2>1 DEF CacheType
  <2>3. ASSUME Alone' PROVE Settled(p)' /\ Small(file'.data)
    <3>1. Settled(p) /\ Small(file.data)
      BY <2>1, <2>3 DEF SavedInv, AloneInv, Alone
    <3>2. pc[p] \in {"init", "load", "run", "check", "merge", "open", "md5"} /\ Fresh(p)
      BY <1>0, <2>1 DEF CacheType, Label
    <3>3. Changed(p)' /\ torn'[p] = "no" => file' = File(cache'[p])
      BY <2>1, <3>1, <3>2 DEF Settled, Changed, Fresh
    <3>4. Small(cache[p])' /\ (Readable(file)' <=> Readable(file))
      BY <2>1, <3>1 DEF Settled, Small, Readable
    <3>5. torn'[p] # "no" /\ Readable(file)' => file' = File(cache'[p])
      BY <2>1, <3>1, <3>4 DEF Settled
    <3>6. QED
      BY <2>1, <2>2, <3>1, <3>3, <3>4, <3>5 DEF Settled, Idle
  <2>4. QED
    BY <1>0, <2>1, <2>3, AloneStep DEF Alone, CacheType
<1>4. ASSUME NEW p \in Process, Stopping(p) PROVE SavedInv'
  <2>1. /\ pc[p] # "down" /\ pc' = [pc EXCEPT ![p] = "down"]
        /\ cache' = [cache EXCEPT ![p] = <<>>] /\ config' = config
        /\ torn' = [torn EXCEPT ![p] = "no"]
        /\ past \subseteq past' /\ (file' = file \/ file' = Partial)
    BY <1>4 DEF Stopping, Ends, Crash, Stops
  <2>2. Alone' => Alone
    BY <2>1 DEF Alone
  <2>3. Small(<<>>) /\ Small(Partial.data)
    BY <1>0, NoEntries DEF Small, Partial
  <2>4. ASSUME Alone' PROVE Settled(p)' /\ Small(file'.data)
    <3>1. Small(file'.data)
      BY <2>1, <2>2, <2>3, <2>4 DEF SavedInv, AloneInv
    <3>2. pc'[p] = "down" /\ torn'[p] = "no" /\ Small(cache[p])'
      BY <1>0, <2>1, <2>3 DEF CacheType, Small
    <3>3. QED
      BY <3>1, <3>2 DEF Settled, Idle
  <2>5. QED
    BY <1>0, <2>1, <2>2, <2>4, AloneStep DEF CacheType
<1>5. ASSUME NEW p \in Process, Tears(p) PROVE SavedInv'
  <2>1. /\ pc[p] # "down" /\ pc'[p] \in {"check", "run"} /\ torn'[p] # "no" /\ exits'[p] # "no"
        /\ UNCHANGED <<config, cache, cache_file_md5, past>>
        /\ \A q \in Process : q # p => pc'[q] = pc[q]
    <3>1. CASE SignalInDump(p)
      BY <1>0, <3>1 DEF SignalInDump, Exits, Handled, Goes, own, CacheType
    <3>2. CASE Closes(p)
      BY <1>0, <3>2 DEF Closes, own, CacheType, Fresh
    <3>3. QED
      BY <1>5, <3>1, <3>2 DEF Tears
  <2>2. ASSUME Alone' PROVE Settled(p)' /\ Small(file'.data)
    <3>1. Settled(p) /\ Small(file.data)
      BY <2>1, <2>2 DEF SavedInv, AloneInv, Alone
    <3>2. file' \in {Empty, Partial, File(cache[p])}
      BY <1>5, <3>1 DEF Tears, SignalInDump, Closes, Settled
    <3>3. (Readable(file)' => file' = File(cache'[p])) /\ Small(cache[p])'
      BY <2>1, <3>1, <3>2 DEF Readable, Empty, Partial, Settled, Small
    <3>4. Small(file'.data)
      BY <1>0, <3>1, <3>2, NoEntries DEF Small, Empty, Partial, File, Settled
    <3>5. QED
      BY <2>1, <3>3, <3>4 DEF Settled, Idle
  <2>3. QED
    BY <1>0, <2>1, <2>2, AloneStep DEF Alone
<1>6. QED
  BY <1>0, <1>1, <1>2, <1>3, <1>4, <1>5, Steps, StartSaved, LoadSaved, SavesSaved,
     OperatesSaved

(* There is no file to begin with. *)
LEMMA SavedStarts == Init => SavedInv
<1> SUFFICES ASSUME Init PROVE AloneInv
  BY CoreStarts DEF SavedInv
<1>1. Small(<<>>)
  BY Arguments, NoEntries DEF Init, Small
<1>2. Lone /\ Small(file.data) /\ \A p \in Process : Settled(p)
  BY <1>1 DEF Init, Absent, Lone, Settled, Idle
<1>3. QED
  BY <1>2 DEF AloneInv

(* CrashLosesLittle, for every save_step and every sequence of operations, *)
(* crashes, signals and restarts.                                          *)
THEOREM CrashesLoseLittle == Spec => []CrashLosesLittle
<1>1. SavedInv => CrashLosesLittle
  BY DEF SavedInv, AloneInv, Settled, CrashLosesLittle
<1>2. QED
  BY <1>1, SavedStarts, SavedSteps, PTL DEF Spec

(* ExitSaved: exits and signals that find a process outside of the write   *)
(* itself leave its cache in the file.                                     *)
THEOREM ExitsAreSaved == Spec => []ExitSaved
<1>1. SavedInv => ExitSaved
  <2> SUFFICES ASSUME SavedInv, NEW p \in Process, pc[p] = "run", exits[p] = "end",
                      torn[p] = "no", Alone
               PROVE  OnDisk(p)
    BY DEF ExitSaved
  <2>1. file = File(cache[p])
    BY DEF SavedInv, AloneInv, Settled
  <2>2. QED
    BY <2>1 DEF OnDisk, File
<1>2. QED
  BY <1>1, SavedStarts, SavedSteps, PTL DEF Spec
=============================================================================
