------------------------------ MODULE FleetProofs ------------------------------
(***************************************************************************)
(* Proofs about the fleet analyses, for inputs of any length over any      *)
(* versions, login durations, limits and thresholds.  Sorting, selecting   *)
(* and counting are reduced to one fact: in a finite set with a strict     *)
(* order, each rank is had by exactly one element.                         *)
(***************************************************************************)
EXTENDS MCFleet, TLAPS, FiniteSetTheorems, FunctionTheorems

-----------------------------------------------------------------------------
(* Numbers and finite sets. *)

(* Sets of numbers have a least one: the only induction needed here. *)
LEMMA LeastNumber ==
  ASSUME NEW S \in SUBSET Nat, S # {}
  PROVE  \E x \in S : \A y \in S : x <= y
<1>1. IsWellFoundedOn(OpToRel(<, Nat), Nat) BY NatLessThanWellFounded
<1>2. PICK x \in S : \A y \in S : ~ (<<y, x>> \in OpToRel(<, Nat)) BY <1>1, WFMin
<1>3. \A y \in S : ~ (y < x) BY <1>2 DEF OpToRel
<1> QED BY <1>3

LEMMA MinOfTwo ==
  ASSUME NEW a \in Int, NEW b \in Int
  PROVE  Min({a, b}) = IF a <= b THEN a ELSE b
<1>1. \E x \in {a, b} : \A y \in {a, b} : x <= y OBVIOUS
<1>2. Min({a, b}) \in {a, b} /\ \A y \in {a, b} : Min({a, b}) <= y
  BY <1>1 DEF Min
<1> QED BY <1>2

LEMMA MaxOfTwo ==
  ASSUME NEW a \in Int, NEW b \in Int
  PROVE  Max({a, b}) = IF a >= b THEN a ELSE b
<1>1. \E x \in {a, b} : \A y \in {a, b} : x >= y OBVIOUS
<1>2. Max({a, b}) \in {a, b} /\ \A y \in {a, b} : Max({a, b}) >= y
  BY <1>1 DEF Max
<1> QED BY <1>2

LEMMA IntervalSize ==
  ASSUME NEW n \in Nat
  PROVE  /\ IsFiniteSet(1..n) /\ Cardinality(1..n) = n
         /\ IsFiniteSet(0..(n - 1)) /\ Cardinality(0..(n - 1)) = n
<1>1. 1 \in Int /\ n \in Int /\ 0 \in Int /\ n - 1 \in Int OBVIOUS
<1>2. IsFiniteSet(1..n) /\ Cardinality(1..n) = IF 1 > n THEN 0 ELSE n - 1 + 1
  BY <1>1, FS_Interval
<1>3. /\ IsFiniteSet(0..(n - 1))
      /\ Cardinality(0..(n - 1)) = IF 0 > n - 1 THEN 0 ELSE (n - 1) - 0 + 1
  BY <1>1, FS_Interval
<1> QED BY <1>2, <1>3

(* What a test leaves out of a finite set is the rest of it. *)
LEMMA Complement ==
  ASSUME NEW S, IsFiniteSet(S), NEW T \in SUBSET S
  PROVE  /\ IsFiniteSet(T) /\ Cardinality(T) \in Nat /\ Cardinality(S) \in Nat
         /\ Cardinality(S \ T) = Cardinality(S) - Cardinality(T)
<1>1. IsFiniteSet(T) /\ IsFiniteSet(S \ T) BY FS_Subset
<1>2. /\ Cardinality(T) \in Nat /\ Cardinality(S) \in Nat /\ Cardinality(S \ T) \in Nat
  BY <1>1, FS_CardinalityType
<1>3. Cardinality(T \cup (S \ T))
        = Cardinality(T) + Cardinality(S \ T) - Cardinality(T \cap (S \ T))
  BY <1>1, FS_Union
<1>4. T \cup (S \ T) = S /\ T \cap (S \ T) = {} OBVIOUS
<1>5. Cardinality(S) = Cardinality(T) + Cardinality(S \ T) - 0
  BY <1>3, <1>4, FS_EmptySet
<1> QED BY <1>1, <1>2, <1>5

(* An image is no larger. *)
LEMMA ImageOf ==
  ASSUME NEW S, IsFiniteSet(S), NEW f
  PROVE  LET image == {f[x] : x \in S}
         IN  IsFiniteSet(image) /\ Cardinality(image) <= Cardinality(S)
<1> DEFINE image == {f[x] : x \in S}
           g == [x \in S |-> f[x]]
<1>1. g \in [S -> image] OBVIOUS
<1>2. \A v \in image : \E x \in S : g[x] = v OBVIOUS
<1> HIDE DEF image, g
<1>3. g \in Surjection(S, image) BY <1>1, <1>2, Fun_IsSurj
<1>4. IsFiniteSet(image) /\ Cardinality(image) <= Cardinality(S) BY <1>3, FS_Surjection
<1> QED BY <1>4 DEF image

(* An image under an injection is as large. *)
LEMMA SameSize ==
  ASSUME NEW S, IsFiniteSet(S), NEW f, \A x, y \in S : f[x] = f[y] => x = y
  PROVE  LET image == {f[x] : x \in S}
         IN  IsFiniteSet(image) /\ Cardinality(image) = Cardinality(S)
<1> DEFINE image == {f[x] : x \in S}
           g == [x \in S |-> f[x]]
<1>1. g \in [S -> image] OBVIOUS
<1>2. \A v \in image : \E x \in S : g[x] = v OBVIOUS
<1>3. \A x, y \in S : g[x] = g[y] => x = y OBVIOUS
<1> HIDE DEF image, g
<1>4. g \in Surjection(S, image) BY <1>1, <1>2, Fun_IsSurj
<1>5. g \in Injection(S, image) BY <1>1, <1>3, Fun_IsInj
<1>6. IsFiniteSet(image) /\ Cardinality(image) = Cardinality(S)
  BY <1>4, <1>5, FS_Surjection
<1> QED BY <1>6 DEF image

(* Under a strict total order, each rank is had by exactly one element. *)
LEMMA Ranks ==
  ASSUME NEW S, IsFiniteSet(S), NEW ahead \in [S -> SUBSET S],
         \A i \in S : i \notin ahead[i],
         \A i, j \in S : i # j => i \in ahead[j] \/ j \in ahead[i],
         \A i, j \in S : i \in ahead[j] => ahead[i] \subseteq ahead[j]
  PROVE  /\ \A i \in S : Cardinality(ahead[i]) \in 0..(Cardinality(S) - 1)
         /\ \A i, j \in S : i \in ahead[j] <=> Cardinality(ahead[i]) < Cardinality(ahead[j])
         /\ \A i, j \in S : Cardinality(ahead[i]) = Cardinality(ahead[j]) => i = j
         /\ \A k \in 1..Cardinality(S) : \E i \in S : Cardinality(ahead[i]) = k - 1
<1> DEFINE n == Cardinality(S)
           rank == [i \in S |-> Cardinality(ahead[i])]
<1>1. n \in Nat BY FS_CardinalityType
<1>2. \A i \in S : IsFiniteSet(ahead[i]) /\ Cardinality(ahead[i]) \in Nat
  BY FS_Subset, FS_CardinalityType
<1>3. ASSUME NEW i \in S PROVE Cardinality(ahead[i]) \in 0..(n - 1)
  <2>1. ahead[i] \cup {i} \subseteq S OBVIOUS
  <2>2. Cardinality(ahead[i] \cup {i}) = Cardinality(ahead[i]) + 1
    BY <1>2, FS_AddElement
  <2>3. Cardinality(ahead[i] \cup {i}) <= n BY <2>1, FS_Subset
  <2> QED BY <1>1, <1>2, <2>2, <2>3
<1>4. ASSUME NEW i \in S, NEW j \in S, i \in ahead[j]
      PROVE  Cardinality(ahead[i]) < Cardinality(ahead[j])
  <2>1. ahead[i] \cup {i} \subseteq ahead[j] BY <1>4
  <2>2. Cardinality(ahead[i] \cup {i}) = Cardinality(ahead[i]) + 1
    BY <1>2, FS_AddElement
  <2>3. Cardinality(ahead[i] \cup {i}) <= Cardinality(ahead[j]) BY <1>2, <2>1, FS_Subset
  <2> QED BY <1>2, <2>2, <2>3
<1>5. rank \in [S -> 0..(n - 1)] BY <1>3
<1>6. \A i, j \in S : rank[i] = rank[j] => i = j
  <2> SUFFICES ASSUME NEW i \in S, NEW j \in S, i # j PROVE rank[i] # rank[j] OBVIOUS
  <2>1. CASE i \in ahead[j] BY <1>2, <1>4, <2>1
  <2>2. CASE j \in ahead[i] BY <1>2, <1>4, <2>2
  <2> QED BY <2>1, <2>2
<1>7. rank \in Injection(S, 0..(n - 1)) BY <1>5, <1>6, Fun_IsInj
<1>8. IsFiniteSet(0..(n - 1)) /\ Cardinality(0..(n - 1)) = n BY <1>1, IntervalSize
<1>9. rank \in Surjection(S, 0..(n - 1)) BY <1>7, <1>8, FS_Injection
<1>10. \A r \in 0..(n - 1) : \E i \in S : rank[i] = r BY <1>9 DEF Surjection
<1>11. \A k \in 1..n : k - 1 \in 0..(n - 1) BY <1>1
<1>12. \A k \in 1..n : \E i \in S : Cardinality(ahead[i]) = k - 1
  BY <1>10, <1>11
<1>13. ASSUME NEW i \in S, NEW j \in S, Cardinality(ahead[i]) < Cardinality(ahead[j])
       PROVE  i \in ahead[j]
  <2>1. CASE i = j BY <1>2, <1>13, <2>1
  <2>2. CASE j \in ahead[i] BY <1>2, <1>4, <1>13, <2>2
  <2> QED BY <2>1, <2>2
<1> QED BY <1>3, <1>4, <1>6, <1>12, <1>13

-----------------------------------------------------------------------------
(* Selecting and sorting. *)

(* The numbers of a finite set, from below: each once, in ascending order. *)
LEMMA Selecting ==
  ASSUME NEW P \in SUBSET Nat, IsFiniteSet(P)
  PROVE  /\ Cardinality(P) \in Nat
         /\ \A k \in 1..Cardinality(P) : Kth(P, k) \in P
         /\ \A j, k \in 1..Cardinality(P) : j < k => Kth(P, j) < Kth(P, k)
         /\ \A i \in P : \E k \in 1..Cardinality(P) : Kth(P, k) = i
<1> DEFINE n == Cardinality(P)
           ahead == [i \in P |-> {j \in P : j < i}]
           upTo(i) == {j \in P : j <= i}
<1>1. n \in Nat BY FS_CardinalityType
<1>2. \A i \in P : i \in Int OBVIOUS
<1>3. ASSUME NEW i \in P
      PROVE  /\ upTo(i) = ahead[i] \cup {i} /\ i \notin ahead[i] /\ ahead[i] \subseteq P
             /\ \A j \in P : j \in ahead[i] <=> j < i
  <2>1. ahead[i] = {j \in P : j < i} OBVIOUS
  <2>2. \A j \in P : j <= i <=> j < i \/ j = i BY <1>2
  <2>3. ~ (i < i) BY <1>2
  <2> QED BY <2>1, <2>2, <2>3
<1>4. ahead \in [P -> SUBSET P] OBVIOUS
<1> HIDE DEF ahead
<1>5. /\ \A i \in P : Cardinality(ahead[i]) \in 0..(n - 1)
      /\ \A i, j \in P : i \in ahead[j] <=> Cardinality(ahead[i]) < Cardinality(ahead[j])
      /\ \A i, j \in P : Cardinality(ahead[i]) = Cardinality(ahead[j]) => i = j
      /\ \A k \in 1..n : \E i \in P : Cardinality(ahead[i]) = k - 1
  <2>1. \A i, j \in P : i # j => i \in ahead[j] \/ j \in ahead[i] BY <1>2, <1>3
  <2>2. \A i, j \in P : i \in ahead[j] => ahead[i] \subseteq ahead[j] BY <1>2, <1>3
  <2> QED BY <1>3, <1>4, <2>1, <2>2, Ranks
<1>6. \A i \in P : Cardinality(ahead[i]) \in Int
  <2>1. \A c \in 0..(n - 1) : c \in Int OBVIOUS
  <2> QED BY <1>5, <2>1
<1>7. ASSUME NEW i \in P PROVE Cardinality(upTo(i)) = Cardinality(ahead[i]) + 1
  <2>1. IsFiniteSet(ahead[i]) BY <1>3, FS_Subset
  <2> QED BY <1>3, <2>1, FS_AddElement
<1>8. ASSUME NEW k \in 1..n
      PROVE  Kth(P, k) \in P /\ Cardinality(ahead[Kth(P, k)]) = k - 1
  <2>1. PICK i \in P : Cardinality(ahead[i]) = k - 1 BY <1>5
  <2>2. Cardinality(upTo(i)) = k BY <1>1, <1>7, <2>1
  <2>3. Kth(P, k) \in P /\ Cardinality(upTo(Kth(P, k))) = k BY <2>2 DEF Kth
  <2>4. Cardinality(upTo(Kth(P, k))) = Cardinality(ahead[Kth(P, k)]) + 1 BY <1>7, <2>3
  <2>5. PICK c \in Int : c = Cardinality(ahead[Kth(P, k)]) BY <1>6, <2>3
  <2>6. k = c + 1 BY <2>3, <2>4, <2>5
  <2> QED BY <2>3, <2>5, <2>6
<1>9. ASSUME NEW j \in 1..n, NEW k \in 1..n, j < k PROVE Kth(P, j) < Kth(P, k)
  <2>1. Cardinality(ahead[Kth(P, j)]) < Cardinality(ahead[Kth(P, k)]) BY <1>8, <1>9
  <2> QED BY <1>3, <1>5, <1>8, <2>1
<1>10. ASSUME NEW i \in P PROVE \E k \in 1..n : Kth(P, k) = i
  <2>1. PICK k \in 1..n : k - 1 = Cardinality(ahead[i])
    <3>1. PICK c \in 0..(n - 1) : c = Cardinality(ahead[i]) BY <1>5
    <3>2. c + 1 \in 1..n /\ (c + 1) - 1 = c BY <1>1
    <3> QED BY <3>1, <3>2
  <2> QED BY <1>5, <1>8, <2>1
<1> QED BY <1>1, <1>8, <1>9, <1>10

(* sorted(): every position once, by ascending key. *)
LEMMA Sorting ==
  ASSUME NEW keys \in Seq(Int)
  PROVE  /\ Ranked(keys) \in [1..Len(keys) -> 1..Len(keys)]
         /\ \A j, k \in 1..Len(keys) : j < k =>
              /\ keys[Ranked(keys)[j]] <= keys[Ranked(keys)[k]]
              /\ Ranked(keys)[j] # Ranked(keys)[k]
         /\ \A i \in 1..Len(keys) : \E k \in 1..Len(keys) : Ranked(keys)[k] = i
<1> PICK n \in Nat : n = Len(keys) OBVIOUS
<1>0. DOMAIN keys = 1..n OBVIOUS
<1> DEFINE S == 1..n
           before(i) == {j \in S : keys[j] < keys[i] \/ (keys[j] = keys[i] /\ j < i)}
           ahead == [i \in S |-> before(i)]
           R == Ranked(keys)
<1>1. IsFiniteSet(S) /\ Cardinality(S) = n BY IntervalSize
<1>2. \A i \in S : keys[i] \in Int /\ i \in Int OBVIOUS
<1>3. R = [k \in S |-> CHOOSE i \in S : Cardinality(before(i)) = k - 1]
  BY <1>0 DEF Ranked
<1>4. ahead \in [S -> SUBSET S] /\ \A i \in S : ahead[i] = before(i) OBVIOUS
<1> HIDE DEF ahead, R
<1>5. \A i, j \in S :
        j \in ahead[i] <=> keys[j] < keys[i] \/ (keys[j] = keys[i] /\ j < i)
  BY <1>4
<1> HIDE DEF before, S
<1>6. /\ \A i \in S : Cardinality(ahead[i]) \in 0..(n - 1)
      /\ \A i, j \in S : i \in ahead[j] <=> Cardinality(ahead[i]) < Cardinality(ahead[j])
      /\ \A i, j \in S : Cardinality(ahead[i]) = Cardinality(ahead[j]) => i = j
      /\ \A k \in 1..n : \E i \in S : Cardinality(ahead[i]) = k - 1
  <2>1. \A i \in S : i \notin ahead[i] BY <1>2, <1>5
  <2>2. \A i, j \in S : i # j => i \in ahead[j] \/ j \in ahead[i] BY <1>2, <1>5
  <2>3. \A i, j \in S : i \in ahead[j] => ahead[i] \subseteq ahead[j]
    BY <1>2, <1>4, <1>5
  <2> QED BY <1>1, <1>4, <2>1, <2>2, <2>3, Ranks
<1>7. S = 1..n BY DEF S
<1>8. ASSUME NEW k \in S PROVE R[k] \in S /\ Cardinality(ahead[R[k]]) = k - 1
  <2>1. R[k] = CHOOSE i \in S : Cardinality(before(i)) = k - 1 BY <1>3
  <2>2. \E i \in S : Cardinality(before(i)) = k - 1 BY <1>4, <1>6, <1>7
  <2> QED BY <1>4, <2>1, <2>2
<1>9. R \in [S -> S] BY <1>3, <1>8
<1>10. ASSUME NEW j \in S, NEW k \in S, j < k
       PROVE  keys[R[j]] <= keys[R[k]] /\ R[j] # R[k]
  <2>1. Cardinality(ahead[R[j]]) < Cardinality(ahead[R[k]]) BY <1>2, <1>8, <1>10
  <2>2. R[j] \in ahead[R[k]] BY <1>6, <1>8, <2>1
  <2>3. keys[R[j]] <= keys[R[k]]
    <3>1. \A a, b \in S : a \in ahead[b] => keys[a] <= keys[b] BY <1>2, <1>5
    <3> QED BY <1>8, <2>2, <3>1
  <2>4. R[j] # R[k] BY <1>2, <1>5, <1>8, <2>2
  <2> QED BY <2>3, <2>4
<1>11. ASSUME NEW i \in S PROVE \E k \in S : R[k] = i
  <2>1. PICK c \in 0..(n - 1) : c = Cardinality(ahead[i]) BY <1>6
  <2>2. c + 1 \in S /\ (c + 1) - 1 = c BY <1>7
  <2> QED BY <1>6, <1>8, <2>1, <2>2
<1> QED BY <1>7, <1>9, <1>10, <1>11 DEF R

(* Finite sets of numbers have a greatest one. *)
LEMMA GreatestNumber ==
  ASSUME NEW P \in SUBSET Nat, IsFiniteSet(P), P # {}
  PROVE  \E x \in P : \A y \in P : y <= x
<1>1. PICK n \in Nat : n = Cardinality(P) BY FS_CardinalityType
<1>2. n \in 1..n BY <1>1, FS_EmptySet
<1>3. Kth(P, n) \in P BY <1>1, <1>2, Selecting
<1>4. ASSUME NEW y \in P PROVE y <= Kth(P, n)
  <2>1. PICK k \in 1..n : Kth(P, k) = y BY <1>1, Selecting
  <2>2. k < n => y < Kth(P, n) BY <1>1, <1>2, <2>1, Selecting
  <2>3. k < n \/ k = n OBVIOUS
  <2>4. \A i \in P : i \in Int OBVIOUS
  <2>5. PICK a \in Int, b \in Int : a = y /\ b = Kth(P, n) BY <1>3, <2>4
  <2>6. a < b \/ a = b BY <2>1, <2>2, <2>3, <2>5
  <2> QED BY <2>5, <2>6
<1> QED BY <1>3, <1>4

-----------------------------------------------------------------------------
(* The inputs. *)

Inputs ==
  /\ fleet \in Seq(Endpoint(Versions))
  /\ sessions \in Seq(Session(0..MaxTime, Logins))

(***************************************************************************)
(* The analyses are applied to lists of endpoints and of session records   *)
(* (what inventory() and sessions() hand them), of any length.             *)
(***************************************************************************)
LEMMA InputsAreLists == Spec => []Inputs
<1>1. Init => Inputs BY DEF Init, Inputs
<1>2. Inputs /\ [Next]_<<sessions, fleet>> => Inputs'
  <2> SUFFICES ASSUME Inputs, [Next]_<<sessions, fleet>> PROVE Inputs' OBVIOUS
  <2>1. CASE AddSession BY <2>1 DEF AddSession, Inputs
  <2>2. CASE AddEndpoint BY <2>2 DEF AddEndpoint, Inputs
  <2>3. CASE UNCHANGED <<sessions, fleet>> BY <2>3 DEF Inputs
  <2> QED BY <2>1, <2>2, <2>3 DEF Next
<1> QED BY <1>1, <1>2, PTL DEF Spec

(* A list of n records has n positions. *)
LEMMA Positions ==
  ASSUME NEW S, NEW s \in Seq(S)
  PROVE  /\ Len(s) \in Nat /\ DOMAIN s = 1..Len(s)
         /\ IsFiniteSet(DOMAIN s) /\ Cardinality(DOMAIN s) = Len(s)
<1>1. Len(s) \in Nat /\ DOMAIN s = 1..Len(s) OBVIOUS
<1> QED BY <1>1, IntervalSize

-----------------------------------------------------------------------------
(* Counting and the majority. *)

LEMMA FieldValues ==
  ASSUME NEW fl \in Seq(Endpoint(Versions)), NEW e \in DOMAIN fl, NEW f \in Fields
  PROVE  fl[e][f] \in Versions \cup {Unset}
<1>1. fl[e] \in Endpoint(Versions) OBVIOUS
<1>2. CASE f = "agentVersion" BY <1>1, <1>2 DEF Endpoint
<1>3. CASE f = "patchLevel" BY <1>1, <1>3 DEF Endpoint
<1> QED BY <1>2, <1>3 DEF Fields

LEMMA Counts ==
  ASSUME NEW fl \in Seq(Endpoint(Versions)), NEW f \in Fields, NEW v
  PROVE  /\ Count(fl, f, v) \in 0..Len(fl)
         /\ v \notin {fl[e][f] : e \in DOMAIN fl} => Count(fl, f, v) = 0
<1> DEFINE same == {e \in DOMAIN fl : fl[e][f] = v}
<1>1. /\ IsFiniteSet(DOMAIN fl) /\ Cardinality(DOMAIN fl) = Len(fl) /\ Len(fl) \in Nat
  BY Positions
<1>2. Cardinality(same) \in Nat /\ Cardinality(same) <= Len(fl)
  BY <1>1, FS_Subset, FS_CardinalityType
<1>3. v \notin {fl[e][f] : e \in DOMAIN fl} => same = {} OBVIOUS
<1>4. Cardinality({}) = 0 BY FS_EmptySet
<1>5. Count(fl, f, v) = Cardinality(same) BY DEF Count
<1>6. v \notin {fl[e][f] : e \in DOMAIN fl} => Count(fl, f, v) = 0 BY <1>3, <1>4, <1>5
<1> HIDE DEF same
<1> QED BY <1>1, <1>2, <1>5, <1>6

(* max(counts, key=(count, value)) exists, and nothing is more common. *)
LEMMA MajorityIsCommonest ==
  ASSUME NEW fl \in Seq(Endpoint(Versions)), NEW f \in Fields
  PROVE  \/ Majority(fl, f) = Unset /\ Reported(fl, f) = {}
         \/ /\ Majority(fl, f) \in Versions
            /\ \A v \in Versions : Count(fl, f, v) <= Count(fl, f, Majority(fl, f))
<1> DEFINE values == Reported(fl, f)
           n == Len(fl)
           count == [v \in Versions |-> Count(fl, f, v)]
           commoner(v, w) == \/ Count(fl, f, v) > Count(fl, f, w)
                             \/ Count(fl, f, v) = Count(fl, f, w) /\ v >= w
<1>1. n \in Nat /\ IsFiniteSet(DOMAIN fl) BY Positions
<1>2. values \subseteq Versions BY FieldValues DEF Reported
<1>3. count \in [Versions -> 0..n] BY Counts
<1>4. CASE values = {} BY <1>4 DEF Majority
<1>5. CASE values # {}
  <2> DEFINE misses == {n - count[v] : v \in values}
  <2>1. misses \in SUBSET Nat /\ misses # {}
    <3>1. \A v \in values : count[v] \in 0..n BY <1>2, <1>3
    <3>2. \A c \in 0..n : n - c \in Nat BY <1>1
    <3> HIDE DEF count, values, n
    <3> QED BY <3>1, <3>2, <1>5
  <2>2. PICK top \in values : \A v \in values : n - count[top] <= n - count[v]
    <3>1. PICK x \in misses : \A y \in misses : x <= y
      <4> HIDE DEF misses
      <4> QED BY <2>1, LeastNumber
    <3> QED BY <3>1
  <2>3. \A v \in values : count[v] <= count[top]
    <3>1. \A v \in values : count[v] \in 0..n BY <1>2, <1>3
    <3> HIDE DEF count, values, n
    <3> QED BY <1>1, <2>2, <3>1
  <2> DEFINE tied == {v \in values : count[v] = count[top]}
  <2>4. tied \in SUBSET Nat /\ tied # {} BY <1>2, InputAssumption
  <2>5. IsFiniteSet(tied)
    <3> DEFINE valueOf == [e \in DOMAIN fl |-> fl[e][f]]
    <3>1. IsFiniteSet({fl[e][f] : e \in DOMAIN fl})
      <4>1. {fl[e][f] : e \in DOMAIN fl} = {valueOf[e] : e \in DOMAIN fl} OBVIOUS
      <4> HIDE DEF valueOf
      <4> QED BY <1>1, <4>1, ImageOf
    <3>2. tied \subseteq {fl[e][f] : e \in DOMAIN fl} BY DEF Reported
    <3> QED BY <3>1, <3>2, FS_Subset
  <2>6. PICK best \in tied : \A v \in tied : v <= best BY <2>4, <2>5, GreatestNumber
  <2>7. best \in values /\ count[best] = count[top] OBVIOUS
  <2>8. ASSUME NEW v \in values PROVE commoner(best, v)
    <3>1. count[v] \in 0..n /\ count[best] \in 0..n BY <1>2, <1>3, <2>7
    <3>2. count[v] <= count[best] BY <2>3, <2>7
    <3>3. count[v] = count[best] => v <= best BY <2>6, <2>7
    <3>4. count[v] = Count(fl, f, v) /\ count[best] = Count(fl, f, best)
      BY <1>2, <2>7
    <3>5. best \in Nat /\ v \in Nat BY <1>2, <2>7, InputAssumption
    <3> HIDE DEF count, values, n, tied
    <3> QED BY <3>1, <3>2, <3>3, <3>4, <3>5
  <2>9. Majority(fl, f) = CHOOSE v \in values : \A w \in values : commoner(v, w)
    BY <1>5 DEF Majority
  <2>10. Majority(fl, f) \in values /\ \A w \in values : commoner(Majority(fl, f), w)
    <3> HIDE DEF values, commoner
    <3> QED BY <2>7, <2>8, <2>9
  <2> DEFINE m == Majority(fl, f)
  <2>11. ASSUME NEW v \in Versions PROVE Count(fl, f, v) <= Count(fl, f, m)
    <3> HIDE DEF m
    <3>1. Count(fl, f, v) \in 0..n /\ Count(fl, f, m) \in 0..n BY Counts
    <3>2. CASE v \in values
      <4>1. commoner(m, v) BY <2>10, <3>2 DEF m
      <4> HIDE DEF values, n
      <4> QED BY <1>1, <3>1, <4>1
    <3>3. CASE v \notin values
      <4>1. v # Unset BY InputAssumption
      <4>2. v \notin {fl[e][f] : e \in DOMAIN fl} BY <3>3, <4>1 DEF Reported
      <4>3. Count(fl, f, v) = 0 BY <4>2, Counts
      <4> QED BY <1>1, <3>1, <4>3
    <3> QED BY <3>2, <3>3
  <2> QED BY <1>2, <2>10, <2>11
<1> QED BY <1>4, <1>5

(* Those that deviate in a field are those that do not have the expected value. *)
LEMMA Deviating ==
  ASSUME NEW fl \in Seq(Endpoint(Versions)), NEW f \in Fields, NEW effective
  PROVE  Cardinality({e \in DOMAIN fl : Deviates(effective, fl[e], f)})
           = IF effective[f] = Unset THEN 0 ELSE Len(fl) - Count(fl, f, effective[f])
<1> DEFINE dev == {e \in DOMAIN fl : Deviates(effective, fl[e], f)}
           same == {e \in DOMAIN fl : fl[e][f] = effective[f]}
<1>1. IsFiniteSet(DOMAIN fl) /\ Cardinality(DOMAIN fl) = Len(fl) BY Positions
<1>2. CASE effective[f] = Unset
  <2>1. dev = {} BY <1>2 DEF Deviates
  <2> QED BY <1>2, <2>1, FS_EmptySet
<1>3. CASE effective[f] # Unset
  <2>1. dev = DOMAIN fl \ same BY <1>3 DEF Deviates
  <2>2. Cardinality(DOMAIN fl \ same) = Len(fl) - Cardinality(same) BY <1>1, Complement
  <2> QED BY <1>3, <2>1, <2>2 DEF Count
<1> QED BY <1>2, <1>3

(***************************************************************************)
(* The majority that stands in for a missing baseline never has config_    *)
(* drift blame more endpoints for a field than a declared value would.     *)
(***************************************************************************)
THEOREM MajorityIsMildest == Spec => []MajorityBlamesFewest
<1>1. ASSUME Inputs PROVE MajorityBlamesFewest
  <2> DEFINE none == [f \in Fields |-> Unset]
             same(v) == [f \in Fields |-> v]
  <2>0. fleet \in Seq(Endpoint(Versions)) BY <1>1 DEF Inputs
  <2>1. ASSUME NEW b, NEW f \in Fields
        PROVE  ConfigDrift(fleet, b).deviating[f]
                 = Cardinality({e \in DOMAIN fleet : Deviates(Effective(fleet, b), fleet[e], f)})
    BY DEF ConfigDrift
  <2>2. ASSUME NEW f \in Fields
        PROVE  Effective(fleet, none)[f] = Majority(fleet, f)
    BY DEF Effective
  <2>3. ASSUME NEW f \in Fields, NEW v \in Versions
        PROVE  Effective(fleet, same(v))[f] = v /\ v # Unset
    <3>1. v # Unset BY InputAssumption
    <3>2. ~ \A g \in Fields : same(v)[g] = Unset BY <3>1
    <3> QED BY <3>1, <3>2 DEF Effective
  <2>4. ASSUME NEW f \in Fields, NEW v \in Versions
        PROVE  ConfigDrift(fleet, none).deviating[f] <= ConfigDrift(fleet, same(v)).deviating[f]
    <3> PICK n \in Nat : n = Len(fleet) BY <2>0
    <3>1. ConfigDrift(fleet, same(v)).deviating[f] = n - Count(fleet, f, v)
      <4> DEFINE eff == Effective(fleet, same(v))
      <4>1. eff[f] = v /\ v # Unset BY <2>3
      <4>2. ConfigDrift(fleet, same(v)).deviating[f]
              = Cardinality({e \in DOMAIN fleet : Deviates(eff, fleet[e], f)})
        BY <2>1
      <4> HIDE DEF eff, same
      <4> QED BY <2>0, <4>1, <4>2, Deviating
    <3>2. ConfigDrift(fleet, none).deviating[f]
            = IF Majority(fleet, f) = Unset THEN 0
              ELSE n - Count(fleet, f, Majority(fleet, f))
      <4> DEFINE eff == Effective(fleet, none)
      <4>1. eff[f] = Majority(fleet, f) BY <2>2
      <4>2. ConfigDrift(fleet, none).deviating[f]
              = Cardinality({e \in DOMAIN fleet : Deviates(eff, fleet[e], f)})
        BY <2>1
      <4> HIDE DEF eff, none
      <4> QED BY <2>0, <4>1, <4>2, Deviating
    <3>3. /\ Count(fleet, f, v) \in 0..n
          /\ Count(fleet, f, Majority(fleet, f)) \in 0..n
      BY <2>0, Counts
    <3>4. \/ Majority(fleet, f) = Unset
          \/ Count(fleet, f, v) <= Count(fleet, f, Majority(fleet, f))
      BY <2>0, MajorityIsCommonest
    <3> QED BY <3>1, <3>2, <3>3, <3>4
  <2> QED BY <2>4 DEF MajorityBlamesFewest
<1> QED BY <1>1, InputsAreLists, PTL

-----------------------------------------------------------------------------
(* The analyses of the inventory. *)

(* A selection lists as many as are selected. *)
LEMMA InOrderIsList ==
  ASSUME NEW P \in SUBSET Nat, IsFiniteSet(P)
  PROVE  /\ InOrder(P) \in Seq(P) /\ Len(InOrder(P)) = Cardinality(P)
         /\ Cardinality(P) \in Nat
<1>1. PICK n \in Nat : n = Cardinality(P) BY Selecting
<1>2. \A k \in 1..n : Kth(P, k) \in P BY <1>1, Selecting
<1>3. InOrder(P) = [k \in 1..n |-> Kth(P, k)] BY <1>1 DEF InOrder
<1>4. InOrder(P) \in Seq(P) /\ Len(InOrder(P)) = n BY <1>2, <1>3
<1> QED BY <1>1, <1>4

LEMMA ListedPositions ==
  ASSUME NEW S, NEW s \in Seq(S), NEW P \in SUBSET (DOMAIN s)
  PROVE  /\ P \in SUBSET Nat /\ IsFiniteSet(P)
         /\ Len(InOrder(P)) = Cardinality(P) /\ Cardinality(P) \in Nat
<1>1. DOMAIN s \subseteq Nat OBVIOUS
<1>2. P \in SUBSET Nat BY <1>1
<1>3. IsFiniteSet(P) BY Positions, FS_Subset
<1> QED BY <1>2, <1>3, InOrderIsList

(* The deductions sum to at most 100: the score needs no clamping. *)
LEMMA ScoreIsDeduction ==
  ASSUME NEW row \in Endpoint(Versions), NEW base
  PROVE  /\ ScoreEndpoint(row, base) \in 0..100
         /\ ScoreEndpoint(row, base) = 100 <=>
              row.online /\ ~row.stale /\ \A f \in Fields : ~Deviates(base, row, f)
<1> DEFINE lags(f) == base[f] # Unset /\ row[f] # base[f]
           a == IF ~row.online THEN 40 ELSE 0
           b == IF row.stale THEN 20 ELSE 0
           c == IF lags("patchLevel") THEN 25 ELSE 0
           d == IF lags("agentVersion") THEN 15 ELSE 0
           score == 100 - a - b - c - d
<1>1. row.online \in BOOLEAN /\ row.stale \in BOOLEAN BY DEF Endpoint
<1>2. ScoreEndpoint(row, base) = Max({0, Min({100, score})}) BY DEF ScoreEndpoint
<1>3. /\ a \in {0, 40} /\ b \in {0, 20} /\ c \in {0, 25} /\ d \in {0, 15}
      /\ a = 0 <=> row.online
      /\ b = 0 <=> ~row.stale
      /\ c = 0 <=> ~lags("patchLevel")
      /\ d = 0 <=> ~lags("agentVersion")
  BY <1>1
<1>4. score \in 0..100 /\ (score = 100 <=> a = 0 /\ b = 0 /\ c = 0 /\ d = 0)
  <2> HIDE DEF a, b, c, d
  <2> QED BY <1>3
<1>5. ScoreEndpoint(row, base) = score
  <2> HIDE DEF score
  <2>1. Min({100, score}) = score BY <1>4, MinOfTwo
  <2>2. Max({0, score}) = score BY <1>4, MaxOfTwo
  <2> QED BY <1>2, <2>1, <2>2
<1>6. (\A f \in Fields : ~Deviates(base, row, f))
        <=> ~lags("patchLevel") /\ ~lags("agentVersion")
  BY DEF Fields, Deviates
<1> HIDE DEF score, a, b, c, d, lags
<1> QED BY <1>3, <1>4, <1>5, <1>6

(* Where nobody reports a patch level, there is nobody to be behind one. *)
LEMMA BehindOrNonCompliant ==
  ASSUME NEW fl \in Seq(Endpoint(Versions)), NEW target
  PROVE  \A e \in DOMAIN fl :
           fl[e].patchLevel # TargetPatch(fl, target)
             <=> /\ TargetPatch(fl, target) # Unset
                 /\ fl[e].patchLevel # TargetPatch(fl, target)
<1> DEFINE wanted == TargetPatch(fl, target)
<1>1. CASE wanted # Unset BY <1>1
<1>2. CASE wanted = Unset
  <2>1. Majority(fl, "patchLevel") = Unset BY <1>2 DEF TargetPatch
  <2>2. Reported(fl, "patchLevel") = {}
    BY <2>1, MajorityIsCommonest, InputAssumption DEF Fields
  <2>3. \A e \in DOMAIN fl : fl[e]["patchLevel"] = Unset BY <2>2 DEF Reported
  <2> QED BY <1>2, <2>3
<1> QED BY <1>1, <1>2

(***************************************************************************)
(* The cross-checks of an operator agree: patch_status, patch_compliance   *)
(* and config_drift count the same endpoints, and health_score gives its   *)
(* 100 points to exactly the online, fresh and undrifted.                  *)
(***************************************************************************)
THEOREM CrossChecksAgree == Spec => []AnalysesAgree
<1>1. ASSUME Inputs PROVE AnalysesAgree
  <2>0. fleet \in Seq(Endpoint(Versions)) BY <1>1 DEF Inputs
  <2> SUFFICES ASSUME NEW base \in Baselines
               PROVE  LET drift == ConfigDrift(fleet, base)
                          effective == Effective(fleet, base)
                          scores == Scores(fleet, base)
                          status == PatchStatus(fleet, base.patchLevel)
                          sla == PatchCompliance(fleet, base.patchLevel)
                          unset == {f \in Fields : base[f] = Unset}
                      IN  /\ status.behindCount = sla.nonCompliantCount
                          /\ unset # {"patchLevel"} =>
                               drift.deviating["patchLevel"] = status.behindCount
                          /\ unset \in {{}, Fields} =>
                               \A e \in DOMAIN fleet :
                                 scores[e] = 100 <=>
                                   /\ fleet[e].online /\ ~fleet[e].stale
                                   /\ \A f \in Fields : ~Deviates(effective, fleet[e], f)
    BY DEF AnalysesAgree
  <2> DEFINE wanted == TargetPatch(fleet, base.patchLevel)
             behind == {e \in DOMAIN fleet : wanted # Unset /\ fleet[e].patchLevel # wanted}
             non == {e \in DOMAIN fleet : fleet[e].patchLevel # wanted}
             effective == Effective(fleet, base)
             unset == {f \in Fields : base[f] = Unset}
  <2>1. Fields = {"agentVersion", "patchLevel"} BY DEF Fields
  <2>2. base.patchLevel = base["patchLevel"] OBVIOUS
  <2>3. PatchStatus(fleet, base.patchLevel).behindCount = Cardinality(behind)
    <3>1. PatchStatus(fleet, base.patchLevel).behindCount = Len(InOrder(behind))
      BY DEF PatchStatus
    <3> QED BY <2>0, <3>1, ListedPositions
  <2>4. PatchCompliance(fleet, base.patchLevel).nonCompliantCount = Cardinality(non)
    <3>1. PatchCompliance(fleet, base.patchLevel).nonCompliantCount = Len(InOrder(non))
      BY DEF PatchCompliance
    <3> QED BY <2>0, <3>1, ListedPositions
  <2>5. behind = non BY <2>0, BehindOrNonCompliant
  <2>6. ASSUME unset # {"patchLevel"}
        PROVE  ConfigDrift(fleet, base).deviating["patchLevel"] = Cardinality(behind)
    <3>1. effective["patchLevel"] = wanted
      <4>1. CASE base["patchLevel"] = Unset
        <5>1. \A f \in Fields : base[f] = Unset BY <2>1, <2>6, <4>1
        <5>2. effective["patchLevel"] = Majority(fleet, "patchLevel")
          BY <2>1, <5>1 DEF Effective
        <5> QED BY <2>2, <4>1, <5>2 DEF TargetPatch
      <4>2. CASE base["patchLevel"] # Unset
        <5>1. effective = base BY <2>1, <4>2 DEF Effective
        <5> QED BY <2>2, <4>2, <5>1 DEF TargetPatch
      <4> QED BY <4>1, <4>2
    <3>2. ConfigDrift(fleet, base).deviating["patchLevel"]
            = Cardinality({e \in DOMAIN fleet : Deviates(effective, fleet[e], "patchLevel")})
      BY <2>1 DEF ConfigDrift
    <3>3. {e \in DOMAIN fleet : Deviates(effective, fleet[e], "patchLevel")} = behind
      BY <3>1 DEF Deviates
    <3> QED BY <3>2, <3>3
  <2>7. ASSUME unset \in {{}, Fields}, NEW e \in DOMAIN fleet
        PROVE  Scores(fleet, base)[e] = 100 <=>
                 /\ fleet[e].online /\ ~fleet[e].stale
                 /\ \A f \in Fields : ~Deviates(effective, fleet[e], f)
    <3>1. \A f \in Fields : HealthBaseline(fleet, base)[f] = effective[f]
      <4>1. CASE unset = Fields
        <5>1. \A f \in Fields : base[f] = Unset BY <4>1
        <5> QED BY <5>1 DEF Effective, HealthBaseline
      <4>2. CASE unset = {}
        <5>1. \A f \in Fields : base[f] # Unset BY <4>2
        <5> QED BY <2>1, <5>1 DEF Effective, HealthBaseline
      <4> QED BY <2>7, <4>1, <4>2
    <3>2. Scores(fleet, base)[e] = ScoreEndpoint(fleet[e], HealthBaseline(fleet, base))
      BY DEF Scores
    <3>3. fleet[e] \in Endpoint(Versions) BY <2>0
    <3>4. \A f \in Fields : Deviates(HealthBaseline(fleet, base), fleet[e], f)
                              <=> Deviates(effective, fleet[e], f)
      BY <3>1 DEF Deviates
    <3> HIDE DEF effective
    <3> QED BY <3>2, <3>3, <3>4, ScoreIsDeduction
  <2> QED BY <2>3, <2>4, <2>5, <2>6, <2>7
<1> QED BY <1>1, InputsAreLists, PTL

(* A capped list: the first rows, and whether there are more. *)
LEMMA EnvelopeIsHonest ==
  ASSUME NEW S, NEW rows \in Seq(S), NEW limit \in Nat
  PROVE  /\ Len(Envelope(rows, limit).items) \in 0..Len(rows)
         /\ DOMAIN Envelope(rows, limit).items = 1..Len(Envelope(rows, limit).items)
         /\ \A k \in DOMAIN Envelope(rows, limit).items :
              Envelope(rows, limit).items[k] = rows[k]
         /\ Envelope(rows, limit).truncated
              <=> Len(Envelope(rows, limit).items) < Len(rows)
<1> PICK n \in Nat : n = Len(rows) OBVIOUS
<1> DEFINE capped == Max({1, limit})
           shown == Min({capped, n})
<1>1. capped \in Nat BY MaxOfTwo
<1>2. shown = IF capped <= n THEN capped ELSE n
  <2> HIDE DEF capped
  <2> QED BY <1>1, MinOfTwo
<1>3. Envelope(rows, limit).items = SubSeq(rows, 1, shown) BY DEF Envelope
<1>4. Envelope(rows, limit).truncated <=> n > capped BY DEF Envelope
<1> HIDE DEF shown, capped
<1>5. shown \in 0..n BY <1>1, <1>2
<1>6. /\ SubSeq(rows, 1, shown) \in Seq(S) /\ Len(SubSeq(rows, 1, shown)) = shown
      /\ \A k \in 1..shown : SubSeq(rows, 1, shown)[k] = rows[k]
  BY <1>5
<1>7. shown < n <=> n > capped BY <1>1, <1>2
<1> QED BY <1>3, <1>4, <1>5, <1>6, <1>7

(* A capped ranking leaves out nobody with a lesser key than one it shows. *)
LEMMA RankedPrefix ==
  ASSUME NEW keys \in Seq(Int), NEW limit \in Nat
  PROVE  LET cut == Envelope(Ranked(keys), limit)
         IN  /\ Len(cut.items) \in 0..Len(keys) /\ DOMAIN cut.items = 1..Len(cut.items)
             /\ \A k \in DOMAIN cut.items :
                  cut.items[k] = Ranked(keys)[k] /\ cut.items[k] \in 1..Len(keys)
             /\ \A k \in DOMAIN cut.items, e \in 1..Len(keys) :
                  keys[e] < keys[cut.items[k]] => \E j \in 1..(k - 1) : cut.items[j] = e
             /\ cut.truncated <=> Len(cut.items) < Len(keys)
<1> PICK n \in Nat : n = Len(keys) OBVIOUS
<1> DEFINE R == Ranked(keys)
           cut == Envelope(R, limit)
           items == cut.items
<1>1. \A i \in 1..n : keys[i] \in Int OBVIOUS
<1>2. /\ R \in [1..n -> 1..n]
      /\ \A j, k \in 1..n : j < k => keys[R[j]] <= keys[R[k]]
      /\ \A i \in 1..n : \E k \in 1..n : R[k] = i
  BY Sorting
<1> HIDE DEF R
<1>3. R \in Seq(1..n) /\ Len(R) = n
  <2>1. R \in [1..n -> 1..n] BY <1>2
  <2> QED BY <2>1
<1>4. /\ Len(items) \in 0..n /\ DOMAIN items = 1..Len(items)
      /\ \A k \in DOMAIN items : items[k] = R[k]
      /\ cut.truncated <=> Len(items) < n
  BY <1>3, EnvelopeIsHonest
<1> HIDE DEF cut
<1> PICK s \in 0..n : s = Len(items) BY <1>4
<1>5. \A k \in 1..s : k \in 1..n /\ items[k] = R[k] /\ R[k] \in 1..n
  <2>1. \A k \in 1..s : k \in 1..n OBVIOUS
  <2> QED BY <1>2, <1>4, <2>1
<1>6. ASSUME NEW k \in 1..s, NEW e \in 1..n, keys[e] < keys[items[k]]
      PROVE  \E j \in 1..(k - 1) : items[j] = e
  <2>1. PICK j \in 1..n : R[j] = e BY <1>2
  <2>2. k \in 1..n /\ items[k] = R[k] /\ R[k] \in 1..n BY <1>5
  <2>3. keys[e] \in Int /\ keys[R[k]] \in Int BY <1>1, <2>2
  <2>4. ~ (keys[R[k]] <= keys[e])
    <3> PICK a \in Int, b \in Int : a = keys[e] /\ b = keys[R[k]] BY <2>3
    <3>1. a < b BY <1>6, <2>2
    <3> QED BY <3>1
  <2>5. ~ (k < j) BY <1>2, <2>1, <2>2, <2>4
  <2>6. k # j BY <2>1, <2>3, <2>4
  <2>7. j \in 1..(k - 1) /\ j \in 1..s BY <2>5, <2>6
  <2> QED BY <1>5, <2>1, <2>7
<1> QED BY <1>4, <1>5, <1>6 DEF cut, R

(***************************************************************************)
(* health_score shows the worst endpoints first, says when it leaves       *)
(* somebody out, and its bands account for the whole fleet.                *)
(***************************************************************************)
THEOREM WorstComeFirst == Spec => []WorstAreShown
<1>1. ASSUME Inputs PROVE WorstAreShown
  <2>0. fleet \in Seq(Endpoint(Versions)) BY <1>1 DEF Inputs
  <2> DEFINE none == [f \in Fields |-> Unset]
             scores == Scores(fleet, none)
             health == HealthScore(fleet, none)
             shown == health.worst.items
             band(b) == {e \in DOMAIN fleet : Band(scores[e]) = b}
  <2> PICK n \in Nat : n = Len(fleet) BY <2>0
  <2>1. DOMAIN fleet = 1..n /\ IsFiniteSet(1..n) /\ Cardinality(1..n) = n
    BY <2>0, IntervalSize
  <2>2. scores \in Seq(Int) /\ Len(scores) = n
    <3> DEFINE score(e) == ScoreEndpoint(fleet[e], HealthBaseline(fleet, none))
    <3>1. scores = [e \in 1..n |-> score(e)] BY <2>1 DEF Scores
    <3>2. ASSUME NEW e \in 1..n PROVE score(e) \in Int
      <4>1. fleet[e] \in Endpoint(Versions) BY <2>0
      <4>2. score(e) \in 0..100 BY <4>1, ScoreIsDeduction, ZenonT(30)
      <4>3. \A x \in 0..100 : x \in Int OBVIOUS
      <4> HIDE DEF score
      <4> QED BY <4>2, <4>3
    <3> HIDE DEF score
    <3>3. scores \in [1..n -> Int] BY <3>1, <3>2
    <3> HIDE DEF scores
    <3> QED BY <3>3
  <2>3. /\ health.worst = Envelope(Ranked(scores), FleetLimit)
        /\ \A b \in {"healthy", "degraded", "critical"} :
             health.summary[b] = Cardinality(band(b))
    BY DEF HealthScore, WorstFirst, FleetEnvelope
  <2>4. /\ \A k \in DOMAIN shown, e \in DOMAIN fleet :
             scores[e] < scores[shown[k]] => \E j \in 1..(k - 1) : shown[j] = e
        /\ health.worst.truncated <=> Len(shown) < Len(fleet)
    <3> HIDE DEF scores, health
    <3> DEFINE cut == Envelope(Ranked(scores), FleetLimit)
    <3>1. /\ \A k \in DOMAIN cut.items, e \in 1..n :
               scores[e] < scores[cut.items[k]] => \E j \in 1..(k - 1) : cut.items[j] = e
          /\ cut.truncated <=> Len(cut.items) < n
      <4>1. FleetLimit \in Nat BY FleetAssumption
      <4>2. LET c == Envelope(Ranked(scores), FleetLimit)
            IN  /\ \A k \in DOMAIN c.items, e \in 1..Len(scores) :
                     scores[e] < scores[c.items[k]] => \E j \in 1..(k - 1) : c.items[j] = e
                /\ c.truncated <=> Len(c.items) < Len(scores)
        BY <2>2, <4>1, RankedPrefix
      <4> QED BY <2>2, <4>2
    <3>2. health.worst = cut BY <2>3
    <3> HIDE DEF cut
    <3> QED BY <2>1, <3>1, <3>2
  <2>5. health.summary["healthy"] + health.summary["degraded"]
          + health.summary["critical"] = Len(fleet)
    <3> DEFINE rest == (1..n) \ band("healthy")
    <3>1. \A e \in 1..n : Band(scores[e]) \in {"healthy", "degraded", "critical"}
      BY DEF Band
    <3>2. band("healthy") \subseteq 1..n /\ band("critical") = rest \ band("degraded")
          /\ band("degraded") \subseteq rest
      BY <2>1, <3>1
    <3>3. IsFiniteSet(rest) BY <2>1, FS_Subset
    <3> HIDE DEF band
    <3>4. /\ Cardinality(rest) = n - Cardinality(band("healthy"))
          /\ Cardinality(band("healthy")) \in Nat
      BY <2>1, <3>2, Complement
    <3>5. /\ Cardinality(band("critical")) = Cardinality(rest) - Cardinality(band("degraded"))
          /\ Cardinality(band("degraded")) \in Nat
      BY <3>2, <3>3, Complement
    <3> HIDE DEF rest, health
    <3> QED BY <2>3, <3>4, <3>5
  <2> HIDE DEF band
  <2> QED BY <2>4, <2>5 DEF WorstAreShown
<1> QED BY <1>1, InputsAreLists, PTL

-----------------------------------------------------------------------------
(* The ranking of the logins. *)

(* The sessions analysed are the first of those given. *)
LEMMA AnalysedIsList ==
  ASSUME NEW S, NEW given \in Seq(S)
  PROVE  Analysed(given) \in Seq(S)
<1>1. \A x \in 0..Len(given) : SubSeq(given, 1, x) \in Seq(S) OBVIOUS
<1>2. PICK n \in Nat : n = Len(given) OBVIOUS
<1>3. Min({MaxSessions, n}) \in 0..n BY MinOfTwo, StormAssumption
<1> QED BY <1>1, <1>2, <1>3 DEF Analysed

(* [r for r in rows if ...]: a list of rows. *)
LEMMA PickedIsList ==
  ASSUME NEW S, NEW s \in Seq(S), NEW P \in SUBSET (DOMAIN s)
  PROVE  /\ Picked(s, P) \in Seq(S) /\ Len(Picked(s, P)) = Cardinality(P)
         /\ DOMAIN Picked(s, P) = 1..Cardinality(P)
         /\ \A k \in 1..Cardinality(P) : Picked(s, P)[k] = s[Kth(P, k)]
<1>1. P \in SUBSET Nat /\ IsFiniteSet(P) BY ListedPositions
<1>2. PICK n \in Nat : n = Cardinality(P) BY <1>1, Selecting
<1>3. \A k \in 1..n : Kth(P, k) \in P BY <1>1, <1>2, Selecting
<1>4. Picked(s, P) = [k \in 1..n |-> s[Kth(P, k)]] BY <1>2 DEF Picked
<1>5. \A k \in 1..n : s[Kth(P, k)] \in S BY <1>3
<1>6. Picked(s, P) \in [1..n -> S] BY <1>4, <1>5
<1>7. Picked(s, P) \in Seq(S) /\ Len(Picked(s, P)) = n BY <1>6
<1> QED BY <1>2, <1>4, <1>7

(* Of the logins with a duration, fewer than k are slower than the k-th listed. *)
LEMMA SlowestFirst ==
  ASSUME NEW T, NEW rows \in Seq(Session(T, Logins))
  PROVE  LET known == {i \in DOMAIN rows : rows[i].login # None}
             slow == SlowestByLogin(rows)
         IN  /\ slow \in Seq(Session(T, Logins)) /\ Len(slow) = Cardinality(known)
             /\ \A k \in 1..Len(slow) :
                  Cardinality({i \in known : rows[i].login > slow[k].login}) < k
<1> DEFINE K == {i \in DOMAIN rows : rows[i].login # None}
           P == Picked(rows, K)
           keys == [i \in DOMAIN P |-> 0 - P[i].login]
           R == Ranked(keys)
           slow == SlowestByLogin(rows)
<1>1. K \in SUBSET (DOMAIN rows) OBVIOUS
<1>2. \A i \in K : rows[i] \in Session(T, Logins) /\ rows[i].login \in Nat
  <2>1. \A i \in K : rows[i] \in Session(T, Logins) /\ rows[i].login # None OBVIOUS
  <2> QED BY <2>1, InputAssumption DEF Session
<1>3. slow = [k \in DOMAIN P |-> P[R[k]]] BY DEF SlowestByLogin
<1> HIDE DEF K
<1>4. K \in SUBSET Nat /\ IsFiniteSet(K) /\ Cardinality(K) \in Nat
  BY <1>1, ListedPositions
<1> PICK m \in Nat : m = Cardinality(K) BY <1>4
<1>5. /\ P \in Seq(Session(T, Logins)) /\ DOMAIN P = 1..m
      /\ \A k \in 1..m : P[k] = rows[Kth(K, k)]
  BY <1>1, PickedIsList
<1> HIDE DEF P
<1>6. /\ \A k \in 1..m : Kth(K, k) \in K
      /\ \A i \in K : \E k \in 1..m : Kth(K, k) = i
  BY <1>4, Selecting
<1>7. \A k \in 1..m : P[k].login \in Nat BY <1>2, <1>5, <1>6
<1>8. keys \in Seq(Int) /\ Len(keys) = m /\ \A k \in 1..m : keys[k] = 0 - P[k].login
  <2>1. keys = [k \in 1..m |-> 0 - P[k].login] BY <1>5
  <2>2. \A k \in 1..m : 0 - P[k].login \in Int BY <1>7
  <2>3. keys \in [1..m -> Int] BY <2>1, <2>2
  <2> HIDE DEF keys
  <2> QED BY <2>1, <2>3
<1> HIDE DEF keys
<1>9. /\ R \in [1..m -> 1..m]
      /\ \A j, k \in 1..m : j < k => keys[R[j]] <= keys[R[k]]
      /\ \A i \in 1..m : \E k \in 1..m : R[k] = i
  BY <1>8, Sorting
<1> HIDE DEF R
<1>10. \A k \in 1..m : R[k] \in 1..m /\ slow[k] = P[R[k]] BY <1>3, <1>5, <1>9
<1>11. slow \in Seq(Session(T, Logins)) /\ Len(slow) = m
  <2>1. \A k \in 1..m : P[R[k]] \in Session(T, Logins) BY <1>5, <1>10
  <2>2. slow \in [1..m -> Session(T, Logins)] BY <1>3, <1>5, <2>1
  <2> HIDE DEF slow
  <2> QED BY <2>2
<1>12. ASSUME NEW k \in 1..m
       PROVE  Cardinality({i \in K : rows[i].login > slow[k].login}) < k
  <2> DEFINE slower == {i \in K : rows[i].login > slow[k].login}
             place == [j \in 1..(k - 1) |-> Kth(K, R[j])]
             shown == {place[j] : j \in 1..(k - 1)}
  <2>1. slower \subseteq shown
    <3> SUFFICES ASSUME NEW i \in slower PROVE i \in shown OBVIOUS
    <3>1. i \in K /\ rows[i].login > slow[k].login OBVIOUS
    <3>2. PICK p \in 1..m : Kth(K, p) = i BY <1>6, <3>1
    <3>3. PICK j \in 1..m : R[j] = p BY <1>9
    <3>4. P[p].login > P[R[k]].login BY <1>5, <1>10, <3>1, <3>2
    <3>5. keys[R[j]] < keys[R[k]]
      <4>1. P[p].login \in Nat /\ P[R[k]].login \in Nat BY <1>7, <1>10
      <4>2. keys[p] = 0 - P[p].login /\ keys[R[k]] = 0 - P[R[k]].login BY <1>8, <1>10
      <4> QED BY <3>3, <3>4, <4>1, <4>2
    <3>6. keys[R[j]] \in Int /\ keys[R[k]] \in Int
      <4>1. \A x \in 1..m : keys[x] \in Int BY <1>8
      <4> QED BY <1>10, <4>1
    <3>7. ~ (keys[R[k]] <= keys[R[j]]) BY <3>5, <3>6
    <3>8. ~ (k < j) BY <1>9, <3>7
    <3>9. j \in 1..(k - 1)
      <4>1. k # j BY <3>5, <3>6
      <4> QED BY <3>8, <4>1
    <3>10. place[j] = i BY <3>2, <3>3, <3>9
    <3> QED BY <3>9, <3>10
  <2>2. /\ k - 1 \in Nat /\ IsFiniteSet(1..(k - 1)) /\ Cardinality(1..(k - 1)) = k - 1
    BY IntervalSize
  <2>3. IsFiniteSet(shown) /\ Cardinality(shown) <= k - 1
    <3> HIDE DEF place
    <3> QED BY <2>2, ImageOf
  <2>4. Cardinality(shown) \in Nat /\ Cardinality(slower) \in Nat
        /\ Cardinality(slower) <= Cardinality(shown)
    BY <2>1, <2>3, FS_Subset, FS_CardinalityType
  <2> HIDE DEF slower, shown
  <2> QED BY <2>2, <2>3, <2>4 DEF slower
<1> QED BY <1>11, <1>12 DEF K

-----------------------------------------------------------------------------
(* Episodes: the times in order. *)

TimesOf(rows) == LET timed == Timed(rows) IN [i \in DOMAIN timed |-> timed[i].time]

Ascending(t) == \A j, k \in 1..Len(t) : j < k => t[j] <= t[k]

(* Positions of the logins in a closed span of time. *)
Within(t, from, to) == {j \in 1..Len(t) : from <= t[j] /\ t[j] <= to}

(* Dropping the sessions without a time and sorting the rest loses no login. *)
LEMMA TimesAreSorted ==
  ASSUME NEW L, NEW rows \in Seq(Session(0..MaxTime, L))
  PROVE  /\ TimesOf(rows) \in Seq(Nat) /\ Ascending(TimesOf(rows))
         /\ TimesIn(rows) = {TimesOf(rows)[j] : j \in 1..Len(TimesOf(rows))}
         /\ \A from, to \in Nat :
              CountIn(rows, from, to) = Cardinality(Within(TimesOf(rows), from, to))
<1> DEFINE K == {i \in DOMAIN rows : rows[i].time # None}
           P == Picked(rows, K)
           keys == [i \in DOMAIN P |-> P[i].time]
           R == Ranked(keys)
           t == TimesOf(rows)
<1>1. K \in SUBSET (DOMAIN rows) OBVIOUS
<1>2. \A i \in K : rows[i] \in Session(0..MaxTime, L) /\ rows[i].time \in Nat
  <2>1. \A i \in K : rows[i] \in Session(0..MaxTime, L) /\ rows[i].time # None OBVIOUS
  <2> QED BY <2>1, InputAssumption DEF Session
<1>3. Timed(rows) = [k \in DOMAIN P |-> P[R[k]]] BY DEF Timed
<1>4. TimesIn(rows) = {rows[i].time : i \in K} BY DEF TimesIn
<1>5. \A from, to : CountIn(rows, from, to)
                      = Cardinality({i \in K : from <= rows[i].time /\ rows[i].time <= to})
  <2> TAKE from, to
  <2> DEFINE all == {i \in DOMAIN rows :
                       rows[i].time # None /\ from <= rows[i].time /\ rows[i].time <= to}
  <2>1. all = {i \in K : from <= rows[i].time /\ rows[i].time <= to} OBVIOUS
  <2>2. CountIn(rows, from, to) = Cardinality(all) BY DEF CountIn
  <2> QED BY <2>1, <2>2
<1> HIDE DEF K
<1>6. K \in SUBSET Nat /\ IsFiniteSet(K) /\ Cardinality(K) \in Nat
  BY <1>1, ListedPositions
<1> PICK m \in Nat : m = Cardinality(K) BY <1>6
<1>7. /\ DOMAIN P = 1..m
      /\ \A k \in 1..m : P[k] = rows[Kth(K, k)]
  BY <1>1, PickedIsList
<1> HIDE DEF P
<1>8. /\ \A k \in 1..m : Kth(K, k) \in K
      /\ \A j, k \in 1..m : j < k => Kth(K, j) < Kth(K, k)
      /\ \A i \in K : \E k \in 1..m : Kth(K, k) = i
  BY <1>6, Selecting
<1>9. \A k \in 1..m : P[k].time \in Nat BY <1>2, <1>7, <1>8
<1>10. /\ keys \in Seq(Int) /\ Len(keys) = m
       /\ \A k \in 1..m : keys[k] = P[k].time /\ keys[k] \in Nat
  <2>1. keys = [k \in 1..m |-> P[k].time] BY <1>7
  <2>2. \A k \in 1..m : P[k].time \in Int BY <1>9
  <2>3. keys \in [1..m -> Int] BY <2>1, <2>2
  <2>4. \A k \in 1..m : keys[k] = P[k].time /\ keys[k] \in Nat BY <1>9, <2>1
  <2> HIDE DEF keys
  <2> QED BY <2>3, <2>4
<1> HIDE DEF keys
<1>11. /\ R \in [1..m -> 1..m]
       /\ \A j, k \in 1..m : j < k => keys[R[j]] <= keys[R[k]] /\ R[j] # R[k]
       /\ \A i \in 1..m : \E k \in 1..m : R[k] = i
  <2>1. keys \in Seq(Int) /\ Len(keys) = m BY <1>10
  <2>2. /\ R \in [1..Len(keys) -> 1..Len(keys)]
        /\ \A j, k \in 1..Len(keys) : j < k => keys[R[j]] <= keys[R[k]] /\ R[j] # R[k]
        /\ \A i \in 1..Len(keys) : \E k \in 1..Len(keys) : R[k] = i
    BY <2>1, Sorting
  <2> QED BY <2>1, <2>2
<1> HIDE DEF R
<1> DEFINE place == [k \in 1..m |-> Kth(K, R[k])]
<1>12. \A k \in 1..m : R[k] \in 1..m /\ place[k] = Kth(K, R[k]) /\ place[k] \in K
  BY <1>8, <1>11
<1>13. t = [k \in 1..m |-> rows[place[k]].time]
  <2>1. t = [k \in 1..m |-> P[R[k]].time]
    BY <1>3, <1>7 DEF TimesOf
  <2>2. \A k \in 1..m : P[R[k]] = rows[place[k]] BY <1>7, <1>12
  <2> HIDE DEF place, t
  <2> QED BY <2>1, <2>2
<1>14. \A k \in 1..m : t[k] = rows[place[k]].time /\ t[k] = keys[R[k]] /\ t[k] \in Nat
  <2>1. \A k \in 1..m : keys[R[k]] = P[R[k]].time /\ keys[R[k]] \in Nat BY <1>10, <1>12
  <2>2. \A k \in 1..m : P[R[k]] = rows[place[k]] BY <1>7, <1>12
  <2>3. \A k \in 1..m : t[k] = rows[place[k]].time BY <1>13
  <2> HIDE DEF place, t
  <2> QED BY <2>1, <2>2, <2>3
<1>15. \A i \in K : \E k \in 1..m : place[k] = i
  <2> TAKE i \in K
  <2>1. PICK p \in 1..m : Kth(K, p) = i BY <1>8
  <2>2. PICK k \in 1..m : R[k] = p BY <1>11
  <2> QED BY <1>12, <2>1, <2>2
<1>16. \A j, k \in 1..m : place[j] = place[k] => j = k
  <2>1. \A p, q \in 1..m : Kth(K, p) = Kth(K, q) => p = q
    <3> SUFFICES ASSUME NEW p \in 1..m, NEW q \in 1..m, p < q PROVE Kth(K, p) # Kth(K, q)
      OBVIOUS
    <3>1. \A i \in K : i \in Int BY <1>6
    <3> QED BY <1>8, <3>1
  <2>2. \A j, k \in 1..m : R[j] = R[k] => j = k
    <3>1. \A j, k \in 1..m : j = k \/ j < k \/ k < j OBVIOUS
    <3> QED BY <1>11, <3>1
  <2> QED BY <1>12, <2>1, <2>2
<1> HIDE DEF place, t
<1>17. t \in Seq(Nat) /\ Len(t) = m
  <2>1. t \in [1..m -> Nat] BY <1>13, <1>14
  <2> QED BY <2>1
<1>18. Ascending(t)
  <2>1. ASSUME NEW j \in 1..m, NEW k \in 1..m, j < k PROVE t[j] <= t[k]
    <3>1. keys[R[j]] <= keys[R[k]] BY <1>11, <2>1
    <3>2. t[j] = keys[R[j]] /\ t[k] = keys[R[k]] BY <1>14
    <3> QED BY <3>1, <3>2
  <2> QED BY <1>17, <2>1 DEF Ascending
<1>19. TimesIn(rows) = {t[j] : j \in 1..m}
  <2>1. \A i \in K : rows[i].time \in {t[j] : j \in 1..m} BY <1>14, <1>15
  <2>2. \A j \in 1..m : t[j] \in {rows[i].time : i \in K} BY <1>12, <1>14
  <2> QED BY <1>4, <2>1, <2>2
<1>20. ASSUME NEW from \in Nat, NEW to \in Nat
       PROVE  CountIn(rows, from, to) = Cardinality(Within(t, from, to))
  <2> DEFINE mine == {i \in K : from <= rows[i].time /\ rows[i].time <= to}
             J == {j \in 1..m : from <= t[j] /\ t[j] <= to}
             image == {place[j] : j \in J}
  <2>1. IsFiniteSet(J) BY IntervalSize, FS_Subset
  <2>2. image = mine
    <3>1. \A j \in J : place[j] \in mine BY <1>12, <1>14
    <3>2. \A i \in mine : \E j \in J : place[j] = i BY <1>14, <1>15
    <3> HIDE DEF J, mine
    <3> QED BY <3>1, <3>2
  <2>3. \A x, y \in J : place[x] = place[y] => x = y BY <1>16
  <2>4. Cardinality(image) = Cardinality(J)
    <3> HIDE DEF J
    <3> QED BY <2>1, <2>3, SameSize
  <2>5. Within(t, from, to) = J BY <1>17 DEF Within
  <2> QED BY <1>5, <2>2, <2>4, <2>5
<1> QED BY <1>17, <1>18, <1>19, <1>20 DEF t

-----------------------------------------------------------------------------
(* Episodes: merging the flooded windows. *)

(* Induction up to n, on the set of numbers for which a fact holds. *)
LEMMA StepByStep ==
  ASSUME NEW n \in Nat, NEW S, 0 \in S, \A k \in 0..(n - 1) : k \in S => k + 1 \in S
  PROVE  \A k \in 0..n : k \in S
<1> DEFINE bad == {k \in 0..n : k \notin S}
<1> SUFFICES ASSUME bad # {} PROVE FALSE OBVIOUS
<1>1. bad \in SUBSET Nat OBVIOUS
<1>2. PICK k \in bad : \A y \in bad : k <= y
  <2> HIDE DEF bad
  <2> QED BY <1>1, LeastNumber
<1>3. k \in 0..n /\ k \notin S /\ k # 0 OBVIOUS
<1>4. k - 1 \in 0..(n - 1) /\ k - 1 \in 0..n /\ (k - 1) + 1 = k BY <1>3
<1>5. ~ (k <= k - 1) BY <1>3
<1>6. k - 1 \in S BY <1>2, <1>4, <1>5
<1> QED BY <1>3, <1>4, <1>6

(* The loop over the windows: each one is merged into what came before. *)
LEMMA MergingStepByStep ==
  ASSUME NEW S, NEW windows \in Seq(S)
  PROVE  /\ Merging(windows)[0] = <<>>
         /\ \A k \in 1..Len(windows) :
              Merging(windows)[k] = Merge(Merging(windows)[k - 1], windows[k])
<1> PICK n \in Nat : n = Len(windows) OBVIOUS
<1> DEFINE next(f, k) == IF k = 0 THEN <<>> ELSE Merge(f[k - 1], windows[k])
           runs(f, j) == f = [k \in 0..j |-> next(f, k)]
           S0 == {j \in 0..n : \E f : runs(f, j)}
<1>1. 0 \in S0
  <2> DEFINE f == [k \in 0..0 |-> <<>>]
  <2>1. \A k \in 0..0 : k = 0 OBVIOUS
  <2>2. runs(f, 0) BY <2>1
  <2>3. 0 \in 0..n OBVIOUS
  <2> HIDE DEF runs, f
  <2> QED BY <2>2, <2>3
<1>2. ASSUME NEW j \in 0..(n - 1), j \in S0 PROVE j + 1 \in S0
  <2>1. PICK f : runs(f, j) BY <1>2
  <2> DEFINE g == [k \in 0..(j + 1) |-> IF k <= j THEN f[k] ELSE Merge(f[j], windows[j + 1])]
  <2>2. ASSUME NEW k \in 0..(j + 1) PROVE g[k] = next(g, k)
    <3>1. CASE k = 0
      <4>1. f[0] = <<>> BY <2>1
      <4> QED BY <3>1, <4>1
    <3>2. CASE k \in 1..j
      <4>1. k \in 0..j /\ k - 1 \in 0..(j + 1) /\ k - 1 <= j /\ k # 0 BY <3>2
      <4>2. f[k] = Merge(f[k - 1], windows[k]) BY <2>1, <4>1
      <4>3. g[k] = f[k] /\ g[k - 1] = f[k - 1] BY <4>1
      <4> QED BY <4>1, <4>2, <4>3
    <3>3. CASE k = j + 1
      <4>1. ~ (k <= j) /\ k - 1 = j /\ j \in 0..(j + 1) /\ j <= j /\ k # 0 BY <3>3
      <4>2. g[k] = Merge(f[j], windows[k]) /\ g[j] = f[j] BY <3>3, <4>1
      <4> QED BY <4>1, <4>2
    <3> QED BY <3>1, <3>2, <3>3
  <2>3. runs(g, j + 1)
    <3>1. g = [k \in 0..(j + 1) |-> g[k]] OBVIOUS
    <3> HIDE DEF g, next
    <3> QED BY <2>2, <3>1
  <2>4. j + 1 \in 0..n OBVIOUS
  <2> HIDE DEF runs, g
  <2> QED BY <2>3, <2>4
<1>3. n \in S0
  <2> HIDE DEF S0
  <2> QED BY <1>1, <1>2, StepByStep
<1>4. Merging(windows) = CHOOSE f : runs(f, n) BY DEF Merging
<1>5. runs(Merging(windows), n)
  <2>1. \E f : runs(f, n) BY <1>3
  <2> HIDE DEF runs
  <2> QED BY <1>4, <2>1
<1>6. \A k \in 0..n : Merging(windows)[k] = next(Merging(windows), k)
  <2>1. ASSUME NEW f, runs(f, n), NEW k \in 0..n PROVE f[k] = next(f, k)
    <3>1. f = [x \in 0..n |-> next(f, x)] BY <2>1
    <3> HIDE DEF next
    <3> QED BY <3>1
  <2> HIDE DEF runs, next
  <2> QED BY <1>5, <2>1
<1>7. \A k \in 1..n : k \in 0..n /\ k # 0 OBVIOUS
<1> QED BY <1>6, <1>7

(* A window extends the last episode or begins a new one. *)
Extended(e, w, e2) ==
  /\ Len(e) > 0 /\ w[1] <= e[Len(e)][2]
  /\ Len(e2) = Len(e)
  /\ \A a \in 1..(Len(e) - 1) : e2[a] = e[a]
  /\ e2[Len(e)][1] = e[Len(e)][1]
  /\ e2[Len(e)][2] = IF e[Len(e)][2] >= w[2] THEN e[Len(e)][2] ELSE w[2]

Begun(e, w, e2) ==
  /\ Len(e) = 0 \/ w[1] > e[Len(e)][2]
  /\ Len(e2) = Len(e) + 1
  /\ \A a \in 1..Len(e) : e2[a] = e[a]
  /\ e2[Len(e) + 1] = w

LEMMA MergeIs ==
  ASSUME NEW e \in Seq(Nat \X Nat), NEW w \in Nat \X Nat
  PROVE  /\ Merge(e, w) \in Seq(Nat \X Nat)
         /\ Extended(e, w, Merge(e, w)) \/ Begun(e, w, Merge(e, w))
<1> PICK n \in Nat : n = Len(e) OBVIOUS
<1>1. CASE n > 0 /\ w[1] <= e[n][2]
  <2> DEFINE end == Max({e[n][2], w[2]})
             new == <<e[n][1], end>>
             front == SubSeq(e, 1, n - 1)
  <2>1. e[n] \in Nat \X Nat BY <1>1
  <2>2. end = (IF e[n][2] >= w[2] THEN e[n][2] ELSE w[2]) BY <2>1, MaxOfTwo, SMTT(30)
  <2>3. end \in Nat BY <2>1, <2>2
  <2>4. Merge(e, w) = Append(front, new)
    <3>1. e # <<>> BY <1>1
    <3> QED BY <1>1, <3>1 DEF Merge, Front, Last
  <2>5. /\ front \in Seq(Nat \X Nat) /\ Len(front) = n - 1
        /\ \A a \in 1..(n - 1) : front[a] = e[a]
    BY <1>1
  <2>6. new \in Nat \X Nat /\ new[1] = e[n][1] /\ new[2] = end BY <2>1, <2>3
  <2> HIDE DEF front, new, end
  <2>7. /\ Merge(e, w) \in Seq(Nat \X Nat) /\ Len(Merge(e, w)) = n
        /\ Merge(e, w)[n] = new
        /\ \A a \in 1..(n - 1) : Merge(e, w)[a] = e[a]
    BY <1>1, <2>4, <2>5, <2>6
  <2> QED BY <1>1, <2>2, <2>6, <2>7 DEF Extended
<1>2. CASE ~ (n > 0 /\ w[1] <= e[n][2])
  <2>1. n > 0 => e[n] \in Nat \X Nat OBVIOUS
  <2>2. n > 0 <=> e # <<>> OBVIOUS
  <2>3. Merge(e, w) = Append(e, w) BY <1>2, <2>2 DEF Merge, Last
  <2>4. n = 0 \/ w[1] > e[n][2] BY <1>2, <2>1
  <2> QED BY <2>3, <2>4 DEF Begun
<1> QED BY <1>1, <1>2

(* Where the windows, or the episodes, of a list begin and end. *)
Begins(e) == [a \in 1..Len(e) |-> e[a][1]]
Ends(e) == [a \in 1..Len(e) |-> e[a][2]]

LEMMA BeginsAndEnds ==
  ASSUME NEW e \in Seq(Nat \X Nat)
  PROVE  /\ Len(e) \in Nat
         /\ Begins(e) \in [1..Len(e) -> Nat] /\ Ends(e) \in [1..Len(e) -> Nat]
         /\ \A a \in 1..Len(e) : Begins(e)[a] = e[a][1] /\ Ends(e)[a] = e[a][2]
<1>1. \A a \in 1..Len(e) : e[a] \in Nat \X Nat OBVIOUS
<1>2. \A a \in 1..Len(e) : e[a][1] \in Nat /\ e[a][2] \in Nat BY <1>1
<1> QED BY <1>2 DEF Begins, Ends

(* Windows in the order in which they begin, and so end. *)
InTurn(L, U, l) ==
  /\ \A k \in 1..l : L[k] <= U[k]
  /\ \A j, k \in 1..l : j < k => L[j] < L[k] /\ U[j] <= U[k]

(* The n episodes are what the first k windows cover, in maximal pieces. *)
Groups(A, B, n, L, U, k) ==
  /\ \A a \in 1..n :
       /\ \E i \in 1..k : L[i] = A[a]
       /\ \E i \in 1..k : A[a] <= L[i] /\ U[i] = B[a]
       /\ \A p \in Nat : A[a] <= p /\ p < B[a]
            => \E i \in 1..k : L[i] <= p /\ p + 1 <= U[i]
  /\ \A a, b \in 1..n : a < b => B[a] < A[b]
  /\ \A i \in 1..k : \E a \in 1..n : A[a] <= L[i] /\ U[i] <= B[a]
  /\ k > 0 => n > 0 /\ B[n] = U[k]

(* The numbers up to the next one. *)
LEMMA NextNumber ==
  ASSUME NEW n \in Nat
  PROVE  /\ n + 1 \in 1..(n + 1) /\ 1..n \subseteq 1..(n + 1)
         /\ \A a \in 1..(n + 1) : a = n + 1 \/ a \in 1..n
OBVIOUS

LEMMA OneMore ==
  ASSUME NEW l \in Nat, NEW k \in 0..(l - 1)
  PROVE  /\ k \in Nat /\ k + 1 \in 1..l /\ 1..(k + 1) \subseteq 1..l
         /\ \A i \in 1..k : i < k + 1
OBVIOUS

LEMMA LastNumber ==
  ASSUME NEW n \in Nat \ {0}
  PROVE  n \in 1..n /\ 1..(n - 1) \subseteq 1..n /\ \A a \in 1..n : a = n \/ a \in 1..(n - 1)
OBVIOUS

(* Extending the last piece by a window that reaches it. *)
LEMMA ExtendKeepsGroups ==
  ASSUME NEW l \in Nat, NEW k \in 0..(l - 1),
         NEW L \in [1..l -> Nat], NEW U \in [1..l -> Nat], InTurn(L, U, l),
         NEW n \in Nat \ {0}, NEW A \in [1..n -> Nat], NEW B \in [1..n -> Nat],
         Groups(A, B, n, L, U, k), L[k + 1] <= B[n],
         NEW B2 \in [1..n -> Nat], \A a \in 1..(n - 1) : B2[a] = B[a],
         B2[n] = IF B[n] >= U[k + 1] THEN B[n] ELSE U[k + 1]
  PROVE  Groups(A, B2, n, L, U, k + 1)
<1>1. /\ k + 1 \in 1..l /\ 1..k \subseteq 1..(k + 1) /\ 1..(k + 1) \subseteq 1..l
      /\ k + 1 \in 1..(k + 1) /\ \A i \in 1..(k + 1) : i \in 1..k \/ i = k + 1
  BY NextNumber, OneMore
<1>2. n \in 1..n /\ \A a \in 1..n : a = n \/ a \in 1..(n - 1) BY LastNumber
<1>3. \A i \in 1..k : L[i] < L[k + 1] /\ U[i] <= U[k + 1]
  <2>1. \A i \in 1..k : i \in 1..l /\ i < k + 1 OBVIOUS
  <2> QED BY <1>1, <2>1 DEF InTurn
<1>4. /\ \A a \in 1..n :
           /\ \E i \in 1..k : L[i] = A[a]
           /\ \E i \in 1..k : A[a] <= L[i] /\ U[i] = B[a]
           /\ \A p \in Nat : A[a] <= p /\ p < B[a]
                => \E i \in 1..k : L[i] <= p /\ p + 1 <= U[i]
      /\ \A a, b \in 1..n : a < b => B[a] < A[b]
      /\ \A i \in 1..k : \E a \in 1..n : A[a] <= L[i] /\ U[i] <= B[a]
  BY DEF Groups
<1>5. B[n] <= U[k + 1] /\ A[n] < L[k + 1]
  <2>1. PICK i \in 1..k : A[n] <= L[i] /\ U[i] = B[n] BY <1>2, <1>4
  <2>2. A[n] \in Nat /\ B[n] \in Nat /\ L[i] \in Nat /\ L[k + 1] \in Nat BY <1>1, <1>2
  <2> QED BY <1>3, <2>1, <2>2
<1>6. B2[n] = U[k + 1]
  <2>1. B[n] \in Nat /\ U[k + 1] \in Nat BY <1>1, <1>2
  <2> QED BY <1>5, <2>1
<1>7. ASSUME NEW a \in 1..n PROVE \E i \in 1..(k + 1) : L[i] = A[a] BY <1>1, <1>4
<1>8. ASSUME NEW a \in 1..n PROVE \E i \in 1..(k + 1) : A[a] <= L[i] /\ U[i] = B2[a]
  <2>1. CASE a = n
    <3>1. A[n] \in Nat /\ L[k + 1] \in Nat BY <1>1, <1>2
    <3>2. A[n] <= L[k + 1] BY <1>5, <3>1
    <3> QED BY <1>1, <1>6, <2>1, <3>2
  <2>2. CASE a \in 1..(n - 1)
    <3>1. B2[a] = B[a] BY <2>2
    <3>2. PICK i \in 1..k : A[a] <= L[i] /\ U[i] = B[a] BY <1>4
    <3> QED BY <1>1, <3>1, <3>2
  <2> QED BY <1>2, <2>1, <2>2
<1>9. ASSUME NEW a \in 1..n, NEW p \in Nat, A[a] <= p, p < B2[a]
      PROVE  \E i \in 1..(k + 1) : L[i] <= p /\ p + 1 <= U[i]
  <2>1. CASE p < B[a] BY <1>1, <1>4, <1>9, <2>1
  <2>2. CASE ~ (p < B[a])
    <3>1. a = n BY <1>2, <1>9, <2>2
    <3>2. B[n] \in Nat /\ L[k + 1] \in Nat /\ U[k + 1] \in Nat BY <1>1, <1>2
    <3>3. L[k + 1] <= p /\ p + 1 <= U[k + 1] BY <1>6, <1>9, <2>2, <3>1, <3>2
    <3> QED BY <1>1, <3>3
  <2> QED BY <2>1, <2>2
<1>10. ASSUME NEW a \in 1..n, NEW b \in 1..n, a < b PROVE B2[a] < A[b]
  <2>1. a \in 1..(n - 1) BY <1>10
  <2>2. B2[a] = B[a] BY <2>1
  <2> QED BY <1>4, <1>10, <2>2
<1>11. ASSUME NEW i \in 1..(k + 1)
       PROVE  \E a \in 1..n : A[a] <= L[i] /\ U[i] <= B2[a]
  <2>1. CASE i = k + 1
    <3>1. A[n] \in Nat /\ L[k + 1] \in Nat /\ U[k + 1] \in Nat BY <1>1, <1>2
    <3>2. A[n] <= L[k + 1] /\ U[k + 1] <= B2[n] BY <1>5, <1>6, <3>1
    <3> QED BY <1>2, <2>1, <3>2
  <2>2. CASE i \in 1..k
    <3>1. PICK a \in 1..n : A[a] <= L[i] /\ U[i] <= B[a] BY <1>4, <2>2
    <3>2. CASE a = n
      <4>1. U[i] <= B2[n] BY <1>3, <1>6, <2>2
      <4> QED BY <1>2, <3>1, <3>2, <4>1
    <3>3. CASE a \in 1..(n - 1)
      <4>1. B2[a] = B[a] BY <3>3
      <4> QED BY <3>1, <4>1
    <3> QED BY <1>2, <3>2, <3>3
  <2> QED BY <1>1, <2>1, <2>2
<1>12. \A a \in 1..n :
         /\ \E i \in 1..(k + 1) : L[i] = A[a]
         /\ \E i \in 1..(k + 1) : A[a] <= L[i] /\ U[i] = B2[a]
         /\ \A p \in Nat : A[a] <= p /\ p < B2[a]
              => \E i \in 1..(k + 1) : L[i] <= p /\ p + 1 <= U[i]
  BY <1>7, <1>8, <1>9
<1>13. n > 0 OBVIOUS
<1> QED BY <1>6, <1>10, <1>11, <1>12, <1>13 DEF Groups

(* One more piece. *)
Then(A, n, x) == [a \in 1..(n + 1) |-> IF a <= n THEN A[a] ELSE x]

(* Beginning a new piece with a window that does not. *)
LEMMA AppendKeepsGroups ==
  ASSUME NEW l \in Nat, NEW k \in 0..(l - 1),
         NEW L \in [1..l -> Nat], NEW U \in [1..l -> Nat], InTurn(L, U, l),
         NEW n \in Nat, NEW A \in [1..n -> Nat], NEW B \in [1..n -> Nat],
         Groups(A, B, n, L, U, k), n = 0 \/ B[n] < L[k + 1]
  PROVE  Groups(Then(A, n, L[k + 1]), Then(B, n, U[k + 1]), n + 1, L, U, k + 1)
<1> DEFINE A2 == Then(A, n, L[k + 1])
           B2 == Then(B, n, U[k + 1])
<1>0. /\ \A a \in 1..n : A2[a] = A[a] /\ B2[a] = B[a]
      /\ A2[n + 1] = L[k + 1] /\ B2[n + 1] = U[k + 1]
  BY NextNumber DEF Then
<1> HIDE DEF A2, B2
<1>1. /\ k + 1 \in 1..l /\ 1..k \subseteq 1..(k + 1) /\ 1..(k + 1) \subseteq 1..l
      /\ k + 1 \in 1..(k + 1) /\ \A i \in 1..(k + 1) : i \in 1..k \/ i = k + 1
  BY NextNumber, OneMore
<1>2. n + 1 \in 1..(n + 1) /\ 1..n \subseteq 1..(n + 1)
      /\ \A a \in 1..(n + 1) : a = n + 1 \/ a \in 1..n
  BY NextNumber
<1>3. L[k + 1] \in Nat /\ U[k + 1] \in Nat /\ L[k + 1] <= U[k + 1]
  BY <1>1 DEF InTurn
<1>4. /\ \A a \in 1..n :
           /\ \E i \in 1..k : L[i] = A[a]
           /\ \E i \in 1..k : A[a] <= L[i] /\ U[i] = B[a]
           /\ \A p \in Nat : A[a] <= p /\ p < B[a]
                => \E i \in 1..k : L[i] <= p /\ p + 1 <= U[i]
      /\ \A a, b \in 1..n : a < b => B[a] < A[b]
      /\ \A i \in 1..k : \E a \in 1..n : A[a] <= L[i] /\ U[i] <= B[a]
  BY DEF Groups
<1>5. ASSUME NEW a \in 1..(n + 1)
      PROVE  /\ \E i \in 1..(k + 1) : L[i] = A2[a]
             /\ \E i \in 1..(k + 1) : A2[a] <= L[i] /\ U[i] = B2[a]
             /\ \A p \in Nat : A2[a] <= p /\ p < B2[a]
                  => \E i \in 1..(k + 1) : L[i] <= p /\ p + 1 <= U[i]
  <2>1. CASE a \in 1..n
    <3>1. A2[a] = A[a] /\ B2[a] = B[a] BY <1>0, <2>1
    <3> QED BY <1>1, <1>4, <2>1, <3>1
  <2>2. CASE a = n + 1
    <3>1. A2[a] = L[k + 1] /\ B2[a] = U[k + 1] BY <1>0, <2>2
    <3>2. A2[a] <= L[k + 1] BY <1>3, <3>1
    <3>3. \A p \in Nat : p < U[k + 1] => p + 1 <= U[k + 1] BY <1>3
    <3> QED BY <1>1, <3>1, <3>2, <3>3
  <2> QED BY <1>2, <2>1, <2>2
<1>6. ASSUME NEW a \in 1..(n + 1), NEW b \in 1..(n + 1), a < b PROVE B2[a] < A2[b]
  <2>1. a \in 1..n /\ B2[a] = B[a] BY <1>0, <1>6, SMTT(30)
  <2>2. CASE b \in 1..n BY <1>0, <1>4, <1>6, <2>1, <2>2
  <2>3. CASE b = n + 1
    <3>1. n \in 1..n /\ B[n] < L[k + 1] BY <2>1
    <3>2. B[a] <= B[n]
      <4>1. B[a] \in Nat /\ B[n] \in Nat /\ A[n] \in Nat BY <2>1, <3>1
      <4>2. A[n] <= B[n]
        <5>1. PICK i \in 1..k : A[n] <= L[i] /\ U[i] = B[n] BY <1>4, <3>1
        <5>2. i \in 1..l BY <1>1
        <5>3. L[i] <= U[i] BY <5>2 DEF InTurn
        <5> PICK x \in Nat, y \in Nat, z \in Nat : x = A[n] /\ y = L[i] /\ z = U[i]
          BY <4>1, <5>2
        <5>4. x <= y /\ y <= z BY <5>1, <5>3
        <5>5. x <= z BY <5>4, SMTT(30)
        <5> QED BY <5>1, <5>5
      <4>3. CASE a = n BY <4>1, <4>3
      <4>4. CASE a < n
        <5>1. B[a] < A[n] BY <1>4, <2>1, <3>1, <4>4
        <5> QED BY <4>1, <4>2, <5>1, SMTT(30)
      <4> QED BY <2>1, <4>3, <4>4
    <3>3. B[a] \in Nat /\ B[n] \in Nat BY <2>1, <3>1
    <3>4. B[a] < L[k + 1] BY <1>3, <3>1, <3>2, <3>3, SMTT(30)
    <3> QED BY <1>0, <2>1, <2>3, <3>4
  <2> QED BY <1>2, <2>2, <2>3
<1>7. ASSUME NEW i \in 1..(k + 1)
      PROVE  \E a \in 1..(n + 1) : A2[a] <= L[i] /\ U[i] <= B2[a]
  <2>1. CASE i = k + 1
    <3>1. A2[n + 1] = L[i] /\ U[i] = B2[n + 1] BY <1>0, <2>1
    <3>2. L[i] <= L[i] /\ U[i] <= U[i]
      <4>1. \A x \in Nat : x <= x OBVIOUS
      <4>2. L[i] \in Nat /\ U[i] \in Nat BY <1>1
      <4> QED BY <4>1, <4>2, Zenon
    <3>3. A2[n + 1] <= L[i] /\ U[i] <= B2[n + 1] BY <3>1, <3>2
    <3> QED BY <1>2, <3>3
  <2>2. CASE i \in 1..k
    <3>1. PICK a \in 1..n : A[a] <= L[i] /\ U[i] <= B[a] BY <1>4, <2>2
    <3>2. A2[a] = A[a] /\ B2[a] = B[a] BY <1>0, <3>1
    <3> QED BY <1>2, <3>1, <3>2
  <2> QED BY <1>1, <2>1, <2>2
<1>8. n + 1 > 0 OBVIOUS
<1>9. Groups(A2, B2, n + 1, L, U, k + 1) BY <1>0, <1>5, <1>6, <1>7, <1>8 DEF Groups
<1> QED BY <1>9 DEF A2, B2

(* The loop leaves the maximal pieces of all its windows. *)
LEMMA EpisodesGroup ==
  ASSUME NEW w \in Seq(Nat \X Nat), InTurn(Begins(w), Ends(w), Len(w))
  PROVE  LET e == Merging(w)[Len(w)]
         IN  /\ e \in Seq(Nat \X Nat)
             /\ Groups(Begins(e), Ends(e), Len(e), Begins(w), Ends(w), Len(w))
<1> PICK n \in Nat : n = Len(w) OBVIOUS
<1> DEFINE m == Merging(w)
           L == Begins(w)
           U == Ends(w)
           holds(e, k) == Groups(Begins(e), Ends(e), Len(e), L, U, k)
           good == {k \in 0..n : m[k] \in Seq(Nat \X Nat) /\ holds(m[k], k)}
<1>1. m[0] = <<>> /\ \A k \in 1..n : m[k] = Merge(m[k - 1], w[k])
  BY MergingStepByStep
<1>2. L \in [1..n -> Nat] /\ U \in [1..n -> Nat]
      /\ \A k \in 1..n : L[k] = w[k][1] /\ U[k] = w[k][2]
  BY BeginsAndEnds
<1> HIDE DEF m, L, U
<1>3. 0 \in good
  <2>1. <<>> \in Seq(Nat \X Nat) /\ holds(<<>>, 0) BY DEF Groups
  <2>2. 0 \in 0..n OBVIOUS
  <2> QED BY <1>1, <2>1, <2>2
<1>4. ASSUME NEW k \in 0..(n - 1), k \in good PROVE k + 1 \in good
  <2>1. k + 1 \in 1..n /\ k + 1 \in 0..n /\ (k + 1) - 1 = k OBVIOUS
  <2>2. PICK e \in Seq(Nat \X Nat) : e = m[k] /\ holds(e, k) BY <1>4
  <2>3. PICK x \in Nat \X Nat : x = w[k + 1] BY <2>1
  <2>4. PICK e2 : e2 = Merge(e, x) OBVIOUS
  <2>5. m[k + 1] = e2 BY <1>1, <2>1, <2>2, <2>3, <2>4
  <2> PICK c \in Nat : c = Len(e) OBVIOUS
  <2> PICK A \in [1..c -> Nat] : A = Begins(e) BY BeginsAndEnds
  <2> PICK B \in [1..c -> Nat] : B = Ends(e) BY BeginsAndEnds
  <2>6. \A a \in 1..c : A[a] = e[a][1] /\ B[a] = e[a][2] BY BeginsAndEnds
  <2>7. Groups(A, B, c, L, U, k) BY <2>2
  <2>8. L[k + 1] = x[1] /\ U[k + 1] = x[2] BY <1>2, <2>1, <2>3
  <2>9. InTurn(L, U, n) BY DEF L, U
  <2>10. e2 \in Seq(Nat \X Nat) BY <2>4, MergeIs
  <2> PICK A2, B2 : A2 = Begins(e2) /\ B2 = Ends(e2) OBVIOUS
  <2>11. A2 \in [1..Len(e2) -> Nat] /\ B2 \in [1..Len(e2) -> Nat]
         /\ \A a \in 1..Len(e2) : A2[a] = e2[a][1] /\ B2[a] = e2[a][2]
    BY <2>10, BeginsAndEnds
  <2>12. CASE Extended(e, x, e2)
    <3>9. /\ c > 0 /\ x[1] <= e[c][2]
          /\ Len(e2) = c
          /\ \A a \in 1..(c - 1) : e2[a] = e[a]
          /\ e2[c][1] = e[c][1]
          /\ e2[c][2] = IF e[c][2] >= x[2] THEN e[c][2] ELSE x[2]
      BY <2>12 DEF Extended
    <3>0. c \in Nat \ {0} BY <3>9
    <3>1. c \in 1..c /\ 1..(c - 1) \subseteq 1..c /\ \A a \in 1..c : a = c \/ a \in 1..(c - 1)
      BY <3>0, LastNumber
    <3>2. L[k + 1] <= B[c] BY <2>6, <2>8, <3>9, <3>1
    <3>3. B2[c] = IF B[c] >= U[k + 1] THEN B[c] ELSE U[k + 1]
      BY <2>6, <2>8, <2>11, <3>9, <3>1
    <3>4. ASSUME NEW a \in 1..(c - 1) PROVE B2[a] = B[a]
      <4>1. a \in 1..c /\ a \in 1..Len(e2) BY <3>9, <3>1
      <4>2. B2[a] = e2[a][2] /\ B[a] = e[a][2] BY <2>6, <2>11, <4>1
      <4>3. e2[a] = e[a] BY <3>9
      <4> QED BY <4>2, <4>3
    <3>5. A2 = A
      <4>1. \A a \in 1..c : A2[a] = A[a] BY <2>6, <2>11, <3>9, <3>1, ZenonT(30)
      <4>2. A2 \in [1..c -> Nat] BY <2>11, <3>9
      <4> QED BY <4>1, <4>2
    <3>6. B2 \in [1..c -> Nat] BY <2>11, <3>9
    <3>7. Groups(A, B2, c, L, U, k + 1)
      BY <1>2, <2>7, <2>9, <3>0, <3>2, <3>3, <3>4, <3>6, ExtendKeepsGroups, ZenonT(30)
    <3>8. holds(e2, k + 1) BY <3>9, <3>5, <3>7
    <3> QED BY <2>1, <2>5, <2>10, <3>8
  <2>13. CASE Begun(e, x, e2)
    <3>9. /\ c = 0 \/ x[1] > e[c][2]
          /\ Len(e2) = c + 1
          /\ \A a \in 1..c : e2[a] = e[a]
          /\ e2[c + 1] = x
      BY <2>13 DEF Begun
    <3>1. c + 1 \in 1..(c + 1) /\ 1..c \subseteq 1..(c + 1) BY NextNumber
    <3>2. c = 0 \/ B[c] < L[k + 1]
      <4>1. c # 0 => c \in 1..c OBVIOUS
      <4>2. c # 0 => e[c][2] = B[c] /\ B[c] \in Nat BY <2>6, <4>1
      <4>3. x[1] \in Nat OBVIOUS
      <4> QED BY <2>8, <3>9, <4>2, <4>3
    <3>3. \A a \in 1..c : A2[a] = A[a] /\ B2[a] = B[a] BY <2>6, <2>11, <3>9, <3>1, SMTT(30)
    <3>4. A2[c + 1] = L[k + 1] /\ B2[c + 1] = U[k + 1] BY <2>8, <2>11, <3>9, <3>1
    <3>5. A2 = Then(A, c, L[k + 1]) /\ B2 = Then(B, c, U[k + 1])
      <4>1. A2 \in [1..(c + 1) -> Nat] /\ B2 \in [1..(c + 1) -> Nat] BY <2>11, <3>9
      <4>2. \A a \in 1..(c + 1) : a = c + 1 \/ a \in 1..c BY NextNumber
      <4>3. ~ (c + 1 <= c) /\ \A a \in 1..c : a <= c OBVIOUS
      <4>4. \A a \in 1..(c + 1) : /\ A2[a] = IF a <= c THEN A[a] ELSE L[k + 1]
                                 /\ B2[a] = IF a <= c THEN B[a] ELSE U[k + 1]
        BY <3>3, <3>4, <4>2, <4>3
      <4> QED BY <4>1, <4>4 DEF Then
    <3> HIDE DEF good, holds
    <3>6. Groups(A2, B2, c + 1, L, U, k + 1)
      <4>1. Groups(Then(A, c, L[k + 1]), Then(B, c, U[k + 1]), c + 1, L, U, k + 1)
        BY <1>2, <2>7, <2>9, <3>2, AppendKeepsGroups, Zenon
      <4> QED BY <3>5, <4>1
    <3>7. holds(e2, k + 1) BY <3>9, <3>6 DEF holds
    <3> QED BY <2>1, <2>5, <2>10, <3>7 DEF good
  <2> HIDE DEF good
  <2>14. Extended(e, x, e2) \/ Begun(e, x, e2) BY <2>4, MergeIs
  <2> QED BY <2>12, <2>13, <2>14
<1>5. n \in good
  <2>1. n \in 0..n OBVIOUS
  <2> HIDE DEF good
  <2> QED BY <1>3, <1>4, <2>1, StepByStep
<1> QED BY <1>5 DEF m, L, U

-----------------------------------------------------------------------------
(* Episodes: the flooded windows. *)

(* Reach is the last event in the window: up to it, and no further, events *)
(* come less than the window's length after its anchor.                    *)
LEMMA ReachIs ==
  ASSUME NEW t \in Seq(Nat), Ascending(t), NEW hi \in 1..Len(t), NEW i \in 1..hi
  PROVE  /\ Reach(t, i, hi) \in i..hi
         /\ \A j \in i..hi : j <= Reach(t, i, hi) <=> t[j] - t[i] < Window
<1> PICK n \in Nat : n = Len(t) OBVIOUS
<1> DEFINE S == {j \in i..hi : \A k \in (i + 1)..j : t[k] - t[i] < Window}
<1>1. \A j \in 1..n : t[j] \in Nat OBVIOUS
<1>2. /\ i \in 1..n /\ hi \in 1..n /\ i..hi \subseteq 1..n /\ i \in i..hi
      /\ i \in Nat /\ hi \in Nat
  OBVIOUS
<1>3. Window \in Nat \ {0} BY StormAssumption
<1>4. S \in SUBSET Nat /\ S # {} /\ IsFiniteSet(S)
  <2>1. i \in S BY <1>2
  <2>2. S \subseteq 1..n BY <1>2
  <2>3. IsFiniteSet(1..n) BY IntervalSize
  <2>4. 1..n \subseteq Nat OBVIOUS
  <2> HIDE DEF S
  <2> QED BY <2>1, <2>2, <2>3, <2>4, FS_Subset
<1>5. PICK r \in S : \A j \in S : j <= r
  <2> HIDE DEF S
  <2> QED BY <1>4, GreatestNumber
<1>6. Reach(t, i, hi) = r
  <2>1. Reach(t, i, hi) = Max(S) BY DEF Reach
  <2>2. \A j \in S : j \in Int OBVIOUS
  <2>3. \A j \in S : r >= j BY <1>5, <2>2
  <2> HIDE DEF S
  <2>4. Max(S) \in S /\ \A j \in S : Max(S) >= j BY <2>3 DEF Max
  <2>5. Max(S) >= r /\ r >= Max(S) BY <2>3, <2>4
  <2> QED BY <2>1, <2>2, <2>4, <2>5
<1>7. r \in i..hi /\ \A k \in (i + 1)..r : t[k] - t[i] < Window OBVIOUS
<1>8. ASSUME NEW j \in i..hi PROVE j <= r <=> t[j] - t[i] < Window
  <2>1. j \in 1..n /\ t[j] \in Nat /\ t[i] \in Nat BY <1>1, <1>2
  <2>2. ASSUME j <= r PROVE t[j] - t[i] < Window
    <3>1. CASE j = i BY <1>3, <2>1, <3>1
    <3>2. CASE j # i
      <4>1. j \in (i + 1)..r BY <1>2, <1>7, <2>2, <3>2
      <4> QED BY <1>7, <4>1
    <3> QED BY <3>1, <3>2
  <2>3. ASSUME t[j] - t[i] < Window PROVE j <= r
    <3>1. ASSUME NEW k \in (i + 1)..j PROVE t[k] - t[i] < Window
      <4>1. k \in 1..n /\ (k < j \/ k = j) BY <1>2
      <4>2. t[k] <= t[j] BY <1>1, <2>1, <4>1 DEF Ascending
      <4>3. t[k] \in Nat BY <1>1, <4>1
      <4> QED BY <1>3, <2>1, <2>3, <4>2, <4>3, SMTT(30)
    <3>2. j \in S BY <3>1
    <3> QED BY <1>5, <3>2
  <2> QED BY <2>2, <2>3
<1> QED BY <1>6, <1>7, <1>8

(* The events whose window floods. *)
Anchors(t) == {i \in 1..Len(t) : Reach(t, i, Len(t)) - i + 1 >= MinConcurrent}

(* Pieces of the list of events, from A[a] to B[a]: each begins with a     *)
(* flood and ends with one, has no seam, and every flood lies within one.  *)
Pieces(t, A, B, m) ==
  /\ \A a \in 1..m :
       /\ A[a] \in Anchors(t) /\ A[a] <= B[a] /\ B[a] \in 1..Len(t)
       /\ \E i \in Anchors(t) : A[a] <= i /\ Reach(t, i, Len(t)) = B[a]
       /\ \A p \in Nat : A[a] <= p /\ p < B[a]
            => \E i \in Anchors(t) : i <= p /\ p + 1 <= Reach(t, i, Len(t))
  /\ \A a, b \in 1..m : a < b => B[a] < A[b]
  /\ \A i \in Anchors(t) : \E a \in 1..m : A[a] <= i /\ Reach(t, i, Len(t)) <= B[a]

LEMMA EpisodesArePieces ==
  ASSUME NEW t \in Seq(Nat), Ascending(t)
  PROVE  /\ Episodes(t) \in Seq(Nat \X Nat)
         /\ Pieces(t, Begins(Episodes(t)), Ends(Episodes(t)), Len(Episodes(t)))
<1> PICK n \in Nat : n = Len(t) OBVIOUS
<1> DEFINE r(i) == Reach(t, i, n)
           F == Anchors(t)
           all == [i \in 1..n |-> <<i, r(i)>>]
           w == Floods(t)
           e == Episodes(t)
<1>1. \A i \in 1..n : r(i) \in i..n /\ r(i) \in 1..n /\ r(i) \in Nat
  <2> TAKE i \in 1..n
  <2>1. n \in 1..n BY LastNumber
  <2>2. r(i) \in i..n BY <2>1, ReachIs
  <2>3. \A x \in i..n : x \in 1..n /\ x \in Nat OBVIOUS
  <2> HIDE DEF r
  <2> QED BY <2>2, <2>3
<1>2. \A i, j \in 1..n : i < j => r(i) <= r(j)
  <2> SUFFICES ASSUME NEW i \in 1..n, NEW j \in 1..n, i < j PROVE r(i) <= r(j) OBVIOUS
  <2>0. n \in 1..n BY LastNumber
  <2>1. CASE r(i) < j
    <3>1. r(j) \in j..n /\ r(i) \in Nat BY <1>1
    <3> HIDE DEF r
    <3> QED BY <2>1, <3>1
  <2>2. CASE ~ (r(i) < j)
    <3> PICK x \in 1..n : x = r(i) BY <1>1
    <3>1. x \in j..n /\ x \in i..n BY <2>2
    <3>2. t[x] - t[i] < Window
      <4>1. \A q \in i..n : q <= r(i) <=> t[q] - t[i] < Window BY <2>0, ReachIs
      <4>2. x <= r(i) OBVIOUS
      <4> QED BY <3>1, <4>1, <4>2
    <3>3. t[i] <= t[j] BY DEF Ascending
    <3>4. t[i] \in Nat /\ t[j] \in Nat /\ t[x] \in Nat /\ Window \in Nat
      BY StormAssumption
    <3>5. t[x] - t[j] < Window BY <3>2, <3>3, <3>4, SMTT(30)
    <3> QED BY <2>0, <3>1, <3>5, ReachIs
  <2> QED BY <2>1, <2>2
<1>3. F = {i \in 1..n : r(i) - i + 1 >= MinConcurrent} BY DEF Anchors
<1>4. all \in Seq(Nat \X Nat) /\ DOMAIN all = 1..n
  <2>1. \A i \in 1..n : i \in Nat /\ r(i) \in Nat BY <1>1
  <2> HIDE DEF r
  <2>2. all \in [1..n -> Nat \X Nat] BY <2>1
  <2> HIDE DEF all
  <2> QED BY <2>2
<1>5. w = Picked(all, F) BY <1>3 DEF Floods
<1>6. F \in SUBSET (1..n) /\ F \in SUBSET Nat /\ IsFiniteSet(F) BY <1>3, IntervalSize, FS_Subset
<1>7. e = Merging(w)[Len(w)] BY DEF Episodes
<1> PICK l \in Nat : l = Cardinality(F) BY <1>6, Selecting
<1> HIDE DEF r, F, e
<1>8. /\ \A k \in 1..l : Kth(F, k) \in F
      /\ \A j, k \in 1..l : j < k => Kth(F, j) < Kth(F, k)
      /\ \A i \in F : \E k \in 1..l : Kth(F, k) = i
  BY <1>6, Selecting
<1>9. /\ w \in Seq(Nat \X Nat) /\ Len(w) = l
      /\ \A k \in 1..l : w[k] = all[Kth(F, k)]
  <2>1. F \in SUBSET (DOMAIN all) BY <1>4, <1>6
  <2> HIDE DEF all
  <2> QED BY <1>4, <1>5, <2>1, PickedIsList, SMTT(30)
<1>10. \A k \in 1..l : w[k] = <<Kth(F, k), r(Kth(F, k))>>
  <2>1. \A k \in 1..l : Kth(F, k) \in 1..n BY <1>6, <1>8
  <2>2. \A i \in 1..n : all[i] = <<i, r(i)>> OBVIOUS
  <2> HIDE DEF all, w
  <2> QED BY <1>9, <2>1, <2>2
<1> HIDE DEF all, w
<1> PICK L \in [1..l -> Nat] : L = Begins(w) BY <1>9, BeginsAndEnds
<1> PICK U \in [1..l -> Nat] : U = Ends(w) BY <1>9, BeginsAndEnds
<1>11. \A k \in 1..l : L[k] = Kth(F, k) /\ U[k] = r(L[k]) /\ L[k] \in F /\ L[k] \in 1..n
  <2>1. \A k \in 1..l : L[k] = w[k][1] /\ U[k] = w[k][2] BY <1>9, BeginsAndEnds
  <2> QED BY <1>6, <1>8, <1>10, <2>1
<1>12. \A i \in F : \E k \in 1..l : L[k] = i BY <1>8, <1>11
<1>13. InTurn(L, U, l)
  <2>1. \A k \in 1..l : L[k] <= U[k]
    <3> TAKE k \in 1..l
    <3>1. L[k] \in 1..n /\ U[k] = r(L[k]) BY <1>11
    <3>2. U[k] \in L[k]..n BY <1>1, <3>1
    <3> QED BY <3>1, <3>2
  <2>2. ASSUME NEW j \in 1..l, NEW k \in 1..l, j < k PROVE L[j] < L[k] /\ U[j] <= U[k]
    <3>1. L[j] < L[k] BY <1>8, <1>11, <2>2
    <3> QED BY <1>2, <1>11, <3>1
  <2> QED BY <2>1, <2>2 DEF InTurn
<1>14. e \in Seq(Nat \X Nat) /\ Groups(Begins(e), Ends(e), Len(e), L, U, l)
  <2>1. InTurn(Begins(w), Ends(w), Len(w)) BY <1>9, <1>13
  <2>2. LET x == Merging(w)[Len(w)]
        IN  /\ x \in Seq(Nat \X Nat)
            /\ Groups(Begins(x), Ends(x), Len(x), Begins(w), Ends(w), Len(w))
    BY <1>9, <2>1, EpisodesGroup
  <2> QED BY <1>7, <1>9, <2>2
<1> PICK m \in Nat : m = Len(e) BY <1>14
<1> PICK A \in [1..m -> Nat] : A = Begins(e) BY <1>14, BeginsAndEnds
<1> PICK B \in [1..m -> Nat] : B = Ends(e) BY <1>14, BeginsAndEnds
<1>15. /\ \A a \in 1..m :
            /\ \E i \in 1..l : L[i] = A[a]
            /\ \E i \in 1..l : A[a] <= L[i] /\ U[i] = B[a]
            /\ \A p \in Nat : A[a] <= p /\ p < B[a]
                 => \E i \in 1..l : L[i] <= p /\ p + 1 <= U[i]
       /\ \A a, b \in 1..m : a < b => B[a] < A[b]
       /\ \A i \in 1..l : \E a \in 1..m : A[a] <= L[i] /\ U[i] <= B[a]
  BY <1>14 DEF Groups
<1>16. ASSUME NEW a \in 1..m
       PROVE  /\ A[a] \in F /\ A[a] <= B[a] /\ B[a] \in 1..n
              /\ \E i \in F : A[a] <= i /\ r(i) = B[a]
              /\ \A p \in Nat : A[a] <= p /\ p < B[a]
                   => \E i \in F : i <= p /\ p + 1 <= r(i)
  <2>1. A[a] \in F BY <1>11, <1>15
  <2>2. PICK i \in 1..l : A[a] <= L[i] /\ U[i] = B[a] BY <1>15
  <2>3. L[i] \in F /\ r(L[i]) = B[a] BY <1>11, <2>2
  <2>4. A[a] <= B[a]
    <3>1. L[i] <= U[i] BY <1>13 DEF InTurn
    <3> PICK x \in Nat, y \in Nat, z \in Nat : x = A[a] /\ y = L[i] /\ z = U[i] OBVIOUS
    <3>2. x <= z BY <2>2, <3>1
    <3> QED BY <2>2, <3>2
  <2>5. B[a] \in 1..n BY <1>1, <1>11, <2>3
  <2>6. ASSUME NEW p \in Nat, A[a] <= p, p < B[a]
        PROVE  \E j \in F : j <= p /\ p + 1 <= r(j)
    <3>1. PICK j \in 1..l : L[j] <= p /\ p + 1 <= U[j] BY <1>15, <2>6
    <3> QED BY <1>11, <3>1
  <2> QED BY <2>1, <2>2, <2>3, <2>4, <2>5, <2>6
<1>17. ASSUME NEW i \in F PROVE \E a \in 1..m : A[a] <= i /\ r(i) <= B[a]
  <2>1. PICK k \in 1..l : L[k] = i BY <1>12
  <2> QED BY <1>11, <1>15, <2>1
<1>18. Pieces(t, A, B, m) BY <1>15, <1>16, <1>17 DEF Pieces, r, F
<1> QED BY <1>14, <1>18 DEF e

(* The storms are a list, one for each episode. *)
LEMMA StormsAreListed ==
  ASSUME NEW L, NEW rows \in Seq(Session(0..MaxTime, L))
  PROVE  \E S : Storms(rows) \in Seq(S)
<1> DEFINE found == Episodes(TimesOf(rows))
           span(e) == [start |-> TimesOf(rows)[found[e][1]], end |-> TimesOf(rows)[found[e][2]],
                       count |-> found[e][2] - found[e][1] + 1,
                       peak |-> PeakConcurrent(TimesOf(rows), found[e][1], found[e][2])]
<1>1. found \in Seq(Nat \X Nat) BY TimesAreSorted, EpisodesArePieces
<1>2. Storms(rows) = [e \in DOMAIN found |-> span(e)] BY DEF Storms, TimesOf
<1>3. PICK m \in Nat : DOMAIN found = 1..m BY <1>1
<1> HIDE DEF found, span
<1> DEFINE spans == {span(e) : e \in 1..m}
<1>4. Storms(rows) \in [1..m -> spans] BY <1>2, <1>3
<1> HIDE DEF spans
<1> PICK f : f = Storms(rows) OBVIOUS
<1>5. m \in Nat /\ f \in [1..m -> spans] BY <1>4
<1>6. f \in Seq(spans) BY <1>5
<1> QED BY <1>6

(***************************************************************************)
(* login_storm's capped lists say exactly when they leave something out,   *)
(* and no login the ranking leaves out is slower than one it shows.        *)
(***************************************************************************)
THEOREM RankingIsComplete == Spec => []RankingIsHonest
<1>1. ASSUME Inputs PROVE RankingIsHonest
  <2> DEFINE rows == Analysed(sessions)
             slow == SlowestByLogin(rows)
             storms == Storms(rows)
             report == LoginStormReport(sessions)
             shown == report.slowest.items
             reported == {i \in DOMAIN rows : rows[i].login # None}
  <2>0. rows \in Seq(Session(0..MaxTime, Logins)) BY <1>1, AnalysedIsList DEF Inputs
  <2>1. /\ report.slowest = Envelope(slow, StormLimit)
        /\ report.storms = Envelope(storms, StormLimit)
        /\ report.stormCount = Len(storms)
    BY DEF LoginStormReport
  <2>2. PICK S : storms \in Seq(S)
    <3> HIDE DEF rows
    <3> QED BY <2>0, StormsAreListed
  <2>3. /\ slow \in Seq(Session(0..MaxTime, Logins)) /\ Len(slow) = Cardinality(reported)
        /\ \A k \in 1..Len(slow) :
             Cardinality({i \in reported : rows[i].login > slow[k].login}) < k
    <3> HIDE DEF rows
    <3> QED BY <2>0, SlowestFirst
  <2>4. StormLimit \in Nat BY StormAssumption
  <2> HIDE DEF rows, slow, storms, report
  <2>5. report.storms.truncated <=> Len(report.storms.items) < report.stormCount
    BY <2>1, <2>2, <2>4, EnvelopeIsHonest
  <2> DEFINE cut == Envelope(slow, StormLimit)
  <2>6. /\ Len(cut.items) \in 0..Len(slow) /\ DOMAIN cut.items = 1..Len(cut.items)
        /\ \A k \in DOMAIN cut.items : cut.items[k] = slow[k]
        /\ cut.truncated <=> Len(cut.items) < Len(slow)
    BY <2>3, <2>4, EnvelopeIsHonest
  <2>7. report.slowest = cut BY <2>1
  <2> HIDE DEF cut
  <2>8. report.slowest.truncated <=> Len(shown) < Cardinality(reported)
    BY <2>3, <2>6, <2>7
  <2>9. ASSUME NEW k \in DOMAIN shown
        PROVE  Cardinality({i \in reported : rows[i].login > shown[k].login}) < k
    <3>1. PICK s \in 0..Len(slow) : s = Len(cut.items) BY <2>6
    <3>2. k \in 1..s /\ shown[k] = slow[k] BY <2>6, <2>7, <3>1
    <3>3. k \in 1..Len(slow) BY <2>3, <3>2
    <3> QED BY <2>3, <3>2, <3>3
  <2> QED BY <2>5, <2>8, <2>9 DEF RankingIsHonest, rows, report
<1> QED BY <1>1, InputsAreLists, PTL

-----------------------------------------------------------------------------
(* Episodes: from positions to times. *)

(* The window anchored at an event, when nothing cuts it off. *)
LEMMA Windows ==
  ASSUME NEW t \in Seq(Nat), Ascending(t), NEW i \in 1..Len(t)
  PROVE  /\ Reach(t, i, Len(t)) \in i..Len(t) /\ Reach(t, i, Len(t)) \in 1..Len(t)
         /\ \A j \in i..Len(t) : j <= Reach(t, i, Len(t)) <=> t[j] - t[i] < Window
<1> PICK n \in Nat : n = Len(t) OBVIOUS
<1>1. n \in 1..n /\ i \in 1..n /\ i..n \subseteq 1..n OBVIOUS
<1>2. /\ Reach(t, i, n) \in i..n
      /\ \A j \in i..n : j <= Reach(t, i, n) <=> t[j] - t[i] < Window
  BY <1>1, ReachIs
<1> QED BY <1>1, <1>2

(* An event and an anchor before it, within the anchor's window, share a   *)
(* piece.                                                                  *)
LEMMA AnchorInPiece ==
  ASSUME NEW t \in Seq(Nat), Ascending(t), NEW m \in Nat,
         NEW A \in [1..m -> Nat], NEW B \in [1..m -> Nat], Pieces(t, A, B, m),
         NEW a \in 1..m, NEW i \in Anchors(t), NEW j \in Nat,
         i <= j, j <= Reach(t, i, Len(t)), A[a] <= j, j <= B[a]
  PROVE  A[a] <= i /\ Reach(t, i, Len(t)) <= B[a]
<1> PICK b \in 1..m : A[b] <= i /\ Reach(t, i, Len(t)) <= B[b] BY DEF Pieces
<1>1. i \in 1..Len(t) BY DEF Anchors
<1> PICK n \in Nat : n = Len(t) OBVIOUS
<1> PICK r \in Nat : r = Reach(t, i, Len(t))
  <2>1. Reach(t, i, n) \in 1..n BY <1>1, Windows
  <2>2. \A x \in 1..n : x \in Nat OBVIOUS
  <2> QED BY <2>1, <2>2
<1>2. /\ a < b => B[a] < A[b]
      /\ b < a => B[b] < A[a]
  BY DEF Pieces
<1> PICK p \in Nat, q \in Nat, x \in Nat, y \in Nat :
      p = A[a] /\ q = B[a] /\ x = A[b] /\ y = B[b]
  OBVIOUS
<1>3. i \in Nat BY <1>1
<1>4. CASE a < b BY <1>2, <1>3, <1>4
<1>5. CASE b < a BY <1>2, <1>3, <1>5
<1>6. CASE a = b BY <1>6
<1> QED BY <1>4, <1>5, <1>6

(* A piece holds all events at the time of its first and of its last.      *)
LEMMA PieceBounds ==
  ASSUME NEW t \in Seq(Nat), Ascending(t), NEW m \in Nat,
         NEW A \in [1..m -> Nat], NEW B \in [1..m -> Nat], Pieces(t, A, B, m),
         NEW a \in 1..m, NEW j \in 1..Len(t)
  PROVE  /\ t[A[a]] <= t[j] <=> A[a] <= j
         /\ t[j] <= t[B[a]] <=> j <= B[a]
<1> PICK n \in Nat : n = Len(t) OBVIOUS
<1> PICK p \in Nat, q \in Nat : p = A[a] /\ q = B[a] OBVIOUS
<1>1. p \in Anchors(t) /\ p \in 1..n /\ q \in 1..n /\ p <= q
  BY DEF Pieces, Anchors
<1>2. \A x, y \in 1..n : x <= y => t[x] <= t[y]
  <2> SUFFICES ASSUME NEW x \in 1..n, NEW y \in 1..n, x <= y PROVE t[x] <= t[y] OBVIOUS
  <2>1. x < y \/ x = y OBVIOUS
  <2>2. t[x] \in Nat /\ t[y] \in Nat OBVIOUS
  <2> QED BY <2>1, <2>2 DEF Ascending
<1>3. ASSUME j < p, t[p] <= t[j] PROVE FALSE
  <2>1. t[j] = t[p]
    <3>1. t[j] <= t[p] /\ t[j] \in Nat /\ t[p] \in Nat BY <1>1, <1>2, <1>3
    <3> QED BY <1>3, <3>1
  <2>2. p \in j..n BY <1>1, <1>3
  <2> PICK r \in 1..n : r = Reach(t, p, n) BY <1>1, Windows
  <2> PICK s \in 1..n : s = Reach(t, j, n) BY Windows
  <2>3. r \in p..n /\ r \in j..n
    <3>1. r \in p..n BY <1>1, Windows
    <3> QED BY <2>2, <3>1
  <2>4. t[r] - t[p] < Window
    <3>1. \A k \in p..n : k <= r <=> t[k] - t[p] < Window BY <1>1, Windows
    <3>2. r <= r OBVIOUS
    <3> QED BY <2>3, <3>1, <3>2
  <2>5. r <= s
    <3>1. \A k \in j..n : k <= s <=> t[k] - t[j] < Window BY Windows
    <3> QED BY <2>1, <2>3, <2>4, <3>1
  <2>6. j \in Anchors(t)
    <3>1. r - p + 1 >= MinConcurrent BY <1>1 DEF Anchors
    <3>2. MinConcurrent \in Nat BY StormAssumption
    <3>3. \A x, y \in 1..n : j < x /\ y - x + 1 >= MinConcurrent /\ y <= s
                          => s - j + 1 >= MinConcurrent
      BY <3>2, SMTT(30)
    <3>4. s - j + 1 >= MinConcurrent BY <1>1, <1>3, <2>5, <3>1, <3>3
    <3> QED BY <3>4 DEF Anchors
  <2>7. p <= s BY <2>3, <2>5
  <2>8. j <= p /\ p <= p BY <1>3
  <2>9. A[a] <= j BY <1>1, <2>6, <2>7, <2>8, AnchorInPiece
  <2> QED BY <1>3, <2>9
<1>4. ASSUME q < j, t[j] <= t[q] PROVE FALSE
  <2>1. PICK i \in Anchors(t) : A[a] <= i /\ Reach(t, i, n) = q BY DEF Pieces
  <2>2. i \in 1..n BY <2>1 DEF Anchors
  <2>3. q \in i..n BY <2>1, <2>2, Windows
  <2>4. j \in i..n
    <3>1. j \in 1..n OBVIOUS
    <3>2. \A x, y \in 1..n : q < y /\ x <= q => y \in x..n OBVIOUS
    <3>3. i <= q BY <2>2, <2>3
    <3> QED BY <1>4, <2>2, <3>1, <3>2, <3>3
  <2>5. \A k \in i..n : k <= q <=> t[k] - t[i] < Window BY <2>1, <2>2, Windows
  <2>6. q <= q OBVIOUS
  <2>7. t[q] - t[i] < Window BY <2>3, <2>5, <2>6
  <2>8. t[j] \in Nat /\ t[q] \in Nat /\ t[i] \in Nat /\ Window \in Nat
    BY <1>1, <2>2, StormAssumption
  <2>9. t[j] - t[i] < Window BY <1>4, <2>7, <2>8
  <2>10. j <= q BY <2>4, <2>5, <2>9
  <2> QED BY <1>4, <2>10
<1>5. t[p] <= t[j] <=> p <= j
  <2>1. p <= j => t[p] <= t[j] BY <1>1, <1>2
  <2>2. p <= j \/ j < p BY <1>1
  <2> QED BY <1>3, <2>1, <2>2
<1>6. t[j] <= t[q] <=> j <= q
  <2>1. j <= q => t[j] <= t[q] BY <1>1, <1>2
  <2>2. j <= q \/ q < j BY <1>1
  <2> QED BY <1>4, <2>1, <2>2
<1> QED BY <1>5, <1>6

-----------------------------------------------------------------------------
(* Episodes: the maximal spans held together by floods. *)

(* Two successive members of a set of times; a flood that goes across them. *)
Gap(T, u, v) == u \in T /\ v \in T /\ u < v /\ ~ \E x \in T : u < x /\ x < v

Across(F, u, v) == \E f \in F : f[1] <= u /\ v <= f[2]

(* From x to y all gaps are gone across, and just before and after them none. *)
HeldTogether(T, F, x, y) ==
  /\ \E f \in F : f[1] = x
  /\ \E f \in F : f[2] = y
  /\ x <= y
  /\ \A u, v \in T : Gap(T, u, v) =>
       (Across(F, u, v) <=> \/ x <= u /\ v <= y
                            \/ Across(F, u, v) /\ (v < x \/ y < u))

(* The same pieces as spans of time. *)
TimePieces(T, F, Lo, Hi, m) ==
  /\ \A a \in 1..m :
       /\ Lo[a] \in T /\ Hi[a] \in T /\ Lo[a] <= Hi[a]
       /\ \E f \in F : f[1] = Lo[a]
       /\ \E f \in F : f[2] = Hi[a]
       /\ \A u, v \in T : Gap(T, u, v) /\ Lo[a] <= u /\ v <= Hi[a] => Across(F, u, v)
  /\ \A a, b \in 1..m : a < b => Hi[a] < Lo[b]
  /\ \A f \in F : \E a \in 1..m : Lo[a] <= f[1] /\ f[2] <= Hi[a]

PiecesOf(T, F, Lo, Hi, m) ==
  /\ T \in SUBSET Nat /\ F \in SUBSET (T \X T) /\ \A f \in F : f[1] <= f[2]
  /\ m \in Nat /\ Lo \in [1..m -> Nat] /\ Hi \in [1..m -> Nat]
  /\ TimePieces(T, F, Lo, Hi, m)

LEMMA GapBelow ==
  ASSUME NEW T \in SUBSET Nat, NEW x \in T, NEW v \in T, x < v
  PROVE  \E u \in T : x <= u /\ Gap(T, u, v)
<1> DEFINE below == {u \in T : u < v}
<1>1. v \in Nat /\ x \in below /\ below \in SUBSET Nat OBVIOUS
<1>2. IsFiniteSet(below)
  <2>1. below \subseteq 0..(v - 1) BY <1>1
  <2>2. IsFiniteSet(0..(v - 1)) BY <1>1, IntervalSize
  <2> HIDE DEF below
  <2> QED BY <2>1, <2>2, FS_Subset
<1>3. PICK u \in below : \A w \in below : w <= u
  <2> HIDE DEF below
  <2> QED BY <1>1, <1>2, GreatestNumber
<1>4. \A w \in T : w \in Nat OBVIOUS
<1>5. ASSUME NEW w \in T, u < w, w < v PROVE FALSE BY <1>3, <1>4, <1>5
<1> QED BY <1>1, <1>3, <1>5 DEF Gap

LEMMA GapAbove ==
  ASSUME NEW T \in SUBSET Nat, NEW x \in T, NEW u \in T, u < x
  PROVE  \E v \in T : v <= x /\ Gap(T, u, v)
<1> DEFINE above == {v \in T : u < v}
<1>1. u \in Nat /\ x \in above /\ above \in SUBSET Nat OBVIOUS
<1>2. PICK v \in above : \A w \in above : v <= w
  <2> HIDE DEF above
  <2> QED BY <1>1, LeastNumber
<1>3. \A w \in T : w \in Nat OBVIOUS
<1>4. ASSUME NEW w \in T, u < w, w < v PROVE FALSE BY <1>2, <1>3, <1>4
<1> QED BY <1>1, <1>2, <1>4 DEF Gap

LEMMA PiecesAreHeld ==
  ASSUME NEW T \in SUBSET Nat, NEW F \in SUBSET (T \X T), NEW m \in Nat,
         NEW Lo \in [1..m -> Nat], NEW Hi \in [1..m -> Nat], TimePieces(T, F, Lo, Hi, m),
         NEW a \in 1..m
  PROVE  HeldTogether(T, F, Lo[a], Hi[a])
<1> PICK x \in T, y \in T : x = Lo[a] /\ y = Hi[a] BY DEF TimePieces
<1>1. /\ \E f \in F : f[1] = x
      /\ \E f \in F : f[2] = y
      /\ x <= y
      /\ \A u, v \in T : Gap(T, u, v) /\ x <= u /\ v <= y => Across(F, u, v)
  BY DEF TimePieces
<1>2. \A u \in T : u \in Nat OBVIOUS
<1>3. ASSUME NEW u \in T, NEW v \in T, Across(F, u, v)
      PROVE  (x <= u /\ v <= y) \/ v < x \/ y < u
  <2>1. PICK f \in F : f[1] <= u /\ v <= f[2] BY <1>3 DEF Across
  <2>2. PICK b \in 1..m : Lo[b] <= f[1] /\ f[2] <= Hi[b] BY DEF TimePieces
  <2>3. f[1] \in Nat /\ f[2] \in Nat OBVIOUS
  <2> PICK x1 \in Nat, y1 \in Nat : x1 = Lo[b] /\ y1 = Hi[b] OBVIOUS
  <2>4. x1 <= u /\ v <= y1 BY <1>2, <2>1, <2>2, <2>3, SMTT(30)
  <2>5. (a < b => y < x1) /\ (b < a => y1 < x) BY DEF TimePieces
  <2>6. a < b \/ b < a \/ a = b OBVIOUS
  <2>7. a = b => x1 = x /\ y1 = y OBVIOUS
  <2>8. u \in Nat /\ v \in Nat /\ x \in Nat /\ y \in Nat BY <1>2
  <2> QED BY <2>4, <2>5, <2>6, <2>7, <2>8, SMTT(30)
<1> QED BY <1>1, <1>3 DEF HeldTogether

LEMMA HeldArePieces ==
  ASSUME NEW T, NEW F, NEW m, NEW Lo, NEW Hi, PiecesOf(T, F, Lo, Hi, m),
         NEW x \in T, NEW y \in T, HeldTogether(T, F, x, y)
  PROVE  \E a \in 1..m : x = Lo[a] /\ y = Hi[a]
<1> USE DEF PiecesOf
<1>1. \A u \in T : u \in Nat OBVIOUS
<1>2. x <= y /\ \A u, v \in T : Gap(T, u, v) =>
        (Across(F, u, v) <=> \/ x <= u /\ v <= y
                             \/ Across(F, u, v) /\ (v < x \/ y < u))
  BY DEF HeldTogether
<1>3. PICK f \in F : f[1] = x BY DEF HeldTogether
<1>4. PICK g \in F : g[2] = y BY DEF HeldTogether
<1>5. PICK a \in 1..m : Lo[a] <= f[1] /\ f[2] <= Hi[a] BY DEF TimePieces
<1>6. PICK b \in 1..m : Lo[b] <= g[1] /\ g[2] <= Hi[b] BY DEF TimePieces
<1>7. f[1] <= f[2] /\ g[1] <= g[2] /\ f[1] \in Nat /\ f[2] \in Nat /\ g[1] \in Nat /\ g[2] \in Nat
  OBVIOUS
<1> PICK xa \in T, ya \in T : xa = Lo[a] /\ ya = Hi[a] BY DEF TimePieces
<1> PICK xb \in T, yb \in T : xb = Lo[b] /\ yb = Hi[b] BY DEF TimePieces
<1>8. /\ xa <= x /\ x <= ya /\ xb <= y /\ y <= yb
  BY <1>1, <1>3, <1>4, <1>5, <1>6, <1>7
<1>9. x = xa
  <2> SUFFICES ASSUME xa < x PROVE FALSE BY <1>1, <1>8
  <2>1. PICK u \in T : xa <= u /\ Gap(T, u, x) BY GapBelow
  <2>2. Across(F, u, x) BY <1>8, <2>1 DEF TimePieces
  <2>3. u < x BY <2>1 DEF Gap
  <2>4. x <= u \/ x < x \/ y < u BY <1>2, <2>1, <2>2
  <2>5. u \in Nat /\ x \in Nat /\ y \in Nat BY <1>1
  <2> QED BY <1>2, <2>3, <2>4, <2>5
<1>10. y = yb
  <2> SUFFICES ASSUME y < yb PROVE FALSE BY <1>1, <1>8
  <2>1. PICK v \in T : v <= yb /\ Gap(T, y, v) BY GapAbove
  <2>2. Across(F, y, v) BY <1>8, <2>1 DEF TimePieces
  <2>3. y < v BY <2>1 DEF Gap
  <2>4. v <= y \/ v < x \/ y < y BY <1>2, <2>1, <2>2
  <2>5. v \in Nat /\ x \in Nat /\ y \in Nat BY <1>1
  <2> QED BY <1>2, <2>3, <2>4, <2>5
<1>11. ~ (b < a)
  <2> SUFFICES ASSUME b < a PROVE FALSE OBVIOUS
  <2>1. yb < xa BY DEF TimePieces
  <2>2. yb \in Nat /\ xa \in Nat /\ x \in Nat /\ y \in Nat BY <1>1
  <2> QED BY <1>2, <1>9, <1>10, <2>1, <2>2
<1>12. ~ (a < b)
  <2> SUFFICES ASSUME a < b PROVE FALSE OBVIOUS
  <2>1. ya < xb BY DEF TimePieces
  <2>2. PICK v \in T : v <= xb /\ Gap(T, ya, v) BY <2>1, GapAbove
  <2>3. xa <= ya /\ xb <= yb BY DEF TimePieces
  <2>4. xa \in Nat /\ ya \in Nat /\ xb \in Nat /\ yb \in Nat /\ v \in Nat BY <1>1
  <2>5. x <= ya /\ v <= y BY <1>9, <1>10, <2>2, <2>3, <2>4
  <2>6. Across(F, ya, v) BY <1>2, <2>2, <2>5
  <2>7. PICK h \in F : h[1] <= ya /\ v <= h[2] BY <2>6 DEF Across
  <2>8. PICK c \in 1..m : Lo[c] <= h[1] /\ h[2] <= Hi[c] BY DEF TimePieces
  <2>9. h[1] \in Nat /\ h[2] \in Nat OBVIOUS
  <2> PICK xc \in Nat, yc \in Nat : xc = Lo[c] /\ yc = Hi[c] OBVIOUS
  <2>10. (a < c => ya < xc) /\ (c < a => yc < xa) /\ (a = c => yc = ya)
    BY DEF TimePieces
  <2>11. ya < v BY <2>2 DEF Gap
  <2>12. xc <= ya /\ v <= yc
    <3> PICK h1 \in Nat, h2 \in Nat : h1 = h[1] /\ h2 = h[2] BY <2>9
    <3>1. xc <= h1 /\ h1 <= ya /\ v <= h2 /\ h2 <= yc BY <2>7, <2>8
    <3>2. \A p, q, z \in Nat : p <= q /\ q <= z => p <= z OBVIOUS
    <3>3. xc \in Nat /\ yc \in Nat /\ h1 \in Nat /\ h2 \in Nat OBVIOUS
    <3> QED BY <2>4, <3>1, <3>2, <3>3
  <2>13. a < c \/ c < a \/ a = c OBVIOUS
  <2>14. ~ (ya < xc) /\ ~ (yc < xa) /\ yc # ya
    <3>1. \A p, q \in Nat : p <= q => ~ (q < p) OBVIOUS
    <3>2. xa <= yc BY <2>3, <2>4, <2>11, <2>12
    <3>3. \A p, q, z \in Nat : p < q /\ q <= z => z # p OBVIOUS
    <3> QED BY <2>4, <2>11, <2>12, <3>1, <3>2, <3>3
  <2> QED BY <2>10, <2>13, <2>14
<1>13. a = b BY <1>11, <1>12
<1> QED BY <1>9, <1>10, <1>13

-----------------------------------------------------------------------------
(* Episodes: floods and anchors. *)

Moments(t) == {t[j] : j \in 1..Len(t)}

FloodsOf(t) ==
  {s \in Moments(t) \X Moments(t) :
     s[1] <= s[2] /\ s[2] - s[1] < Window /\ Cardinality(Within(t, s[1], s[2])) >= MinConcurrent}

LEMMA SpanSize ==
  ASSUME NEW n \in Nat, NEW i \in 1..n, NEW k \in 1..n
  PROVE  /\ IsFiniteSet(i..k) /\ Cardinality(i..k) \in Nat
         /\ i <= k => Cardinality(i..k) = k - i + 1
<1>1. i \in Int /\ k \in Int OBVIOUS
<1>2. IsFiniteSet(i..k) /\ Cardinality(i..k) = IF i > k THEN 0 ELSE k - i + 1
  BY <1>1, FS_Interval
<1> QED BY <1>1, <1>2

(* The first event not before a time, the last one not after it. *)
FirstFrom(t, x, i) == i \in 1..Len(t) /\ \A j \in 1..Len(t) : x <= t[j] <=> i <= j
LastUpTo(t, y, k) == k \in 1..Len(t) /\ \A j \in 1..Len(t) : t[j] <= y <=> j <= k

LEMMA FirstAt ==
  ASSUME NEW t \in Seq(Nat), Ascending(t), NEW x \in Moments(t)
  PROVE  \E i \in 1..Len(t) : t[i] = x /\ FirstFrom(t, x, i)
<1> PICK n \in Nat : n = Len(t) OBVIOUS
<1> DEFINE S == {j \in 1..n : t[j] = x}
<1>1. S # {} /\ S \in SUBSET Nat BY DEF Moments
<1>2. PICK i \in S : \A j \in S : i <= j
  <2> HIDE DEF S
  <2> QED BY <1>1, LeastNumber
<1>3. ASSUME NEW j \in 1..n PROVE x <= t[j] <=> i <= j
  <2>1. t[j] \in Nat /\ t[i] = x /\ x \in Nat OBVIOUS
  <2>2. i < j => x <= t[j] BY <2>1 DEF Ascending
  <2>3. j < i => t[j] <= x BY <2>1 DEF Ascending
  <2>4. t[j] = x => i <= j BY <1>2
  <2>5. i < j \/ j < i \/ i = j OBVIOUS
  <2>6. i \in Nat /\ j \in Nat OBVIOUS
  <2> HIDE DEF S
  <2> QED BY <2>1, <2>2, <2>3, <2>4, <2>5, <2>6
<1> QED BY <1>3 DEF FirstFrom

LEMMA LastAt ==
  ASSUME NEW t \in Seq(Nat), Ascending(t), NEW x \in Moments(t)
  PROVE  \E k \in 1..Len(t) : t[k] = x /\ LastUpTo(t, x, k)
<1> PICK n \in Nat : n = Len(t) OBVIOUS
<1> DEFINE S == {j \in 1..n : t[j] = x}
<1>1. S # {} /\ S \in SUBSET Nat BY DEF Moments
<1>2. PICK k \in S : \A j \in S : j <= k
  <2>1. IsFiniteSet(S) BY IntervalSize, FS_Subset
  <2> HIDE DEF S
  <2> QED BY <1>1, <2>1, GreatestNumber
<1>3. ASSUME NEW j \in 1..n PROVE t[j] <= x <=> j <= k
  <2>1. t[j] \in Nat /\ t[k] = x /\ x \in Nat OBVIOUS
  <2>2. k < j => x <= t[j] BY <2>1 DEF Ascending
  <2>3. j < k => t[j] <= x BY <2>1 DEF Ascending
  <2>4. t[j] = x => j <= k BY <1>2
  <2>5. k < j \/ j < k \/ k = j OBVIOUS
  <2>6. k \in Nat /\ j \in Nat OBVIOUS
  <2> HIDE DEF S
  <2> QED BY <2>1, <2>2, <2>3, <2>4, <2>5, <2>6
<1> QED BY <1>3 DEF LastUpTo

(* Events counted by where they stand in the list. *)
LEMMA WithinIs ==
  ASSUME NEW t \in Seq(Nat), NEW x, NEW y, NEW i, NEW k,
         FirstFrom(t, x, i), LastUpTo(t, y, k)
  PROVE  /\ Within(t, x, y) = i..k
         /\ i <= k => Cardinality(Within(t, x, y)) = k - i + 1
<1> PICK n \in Nat : n = Len(t) OBVIOUS
<1>1. /\ i \in 1..n /\ \A j \in 1..n : x <= t[j] <=> i <= j
      /\ k \in 1..n /\ \A j \in 1..n : t[j] <= y <=> j <= k
  BY DEF FirstFrom, LastUpTo
<1>2. i..k = {j \in 1..n : i <= j /\ j <= k} BY <1>1
<1>3. Within(t, x, y) = {j \in 1..n : x <= t[j] /\ t[j] <= y} BY DEF Within
<1>4. Within(t, x, y) = i..k BY <1>1, <1>2, <1>3
<1> QED BY <1>1, <1>4, SpanSize

LEMMA AnchorFloods ==
  ASSUME NEW t \in Seq(Nat), Ascending(t), NEW i \in Anchors(t)
  PROVE  \E f \in FloodsOf(t) : f[1] = t[i] /\ f[2] = t[Reach(t, i, Len(t))]
<1> PICK n \in Nat : n = Len(t) OBVIOUS
<1>1. i \in 1..n BY DEF Anchors
<1> PICK r \in 1..n : r = Reach(t, i, n) BY <1>1, Windows
<1>2. r \in i..n BY <1>1, Windows
<1>3. \A j \in i..n : j <= r <=> t[j] - t[i] < Window BY <1>1, Windows
<1>4. t[r] - t[i] < Window BY <1>2, <1>3
<1>5. t[i] <= t[r]
  <2>1. i < r \/ i = r
    <3>1. \A p \in 1..n : \A q \in p..n : p < q \/ p = q OBVIOUS
    <3> QED BY <1>1, <1>2, <3>1
  <2>2. t[i] \in Nat BY <1>1
  <2> QED BY <1>1, <2>1, <2>2 DEF Ascending
<1>6. t[i] \in Moments(t) /\ t[r] \in Moments(t) BY <1>1 DEF Moments
<1> DEFINE in == Within(t, t[i], t[r])
<1>7. IsFiniteSet(in) BY IntervalSize, FS_Subset DEF Within
<1>8. i..r \subseteq in
  <2>1. ASSUME NEW j \in i..r PROVE j \in in
    <3>1. j \in 1..n BY <1>1, <2>1
    <3>2. (i < j \/ i = j) /\ (j < r \/ j = r) BY <1>1, <2>1
    <3>3. t[i] \in Nat /\ t[j] \in Nat /\ t[r] \in Nat BY <1>1, <3>1
    <3>4. t[i] <= t[j] /\ t[j] <= t[r] BY <1>1, <3>1, <3>2, <3>3 DEF Ascending
    <3> QED BY <3>1, <3>4 DEF Within
  <2> QED BY <2>1
<1> HIDE DEF in
<1>9. Cardinality(in) >= MinConcurrent
  <2>1. Cardinality(i..r) <= Cardinality(in) /\ Cardinality(in) \in Nat
    BY <1>7, <1>8, FS_Subset, FS_CardinalityType
  <2>2. Cardinality(i..r) = r - i + 1
    <3>1. i <= r /\ n \in Nat BY <1>1, <1>2
    <3> QED BY <1>1, <3>1, SpanSize
  <2>3. r - i + 1 >= MinConcurrent BY DEF Anchors
  <2>4. MinConcurrent \in Nat /\ r - i + 1 \in Int BY <1>1, StormAssumption
  <2> QED BY <2>1, <2>2, <2>3, <2>4
<1>10. <<t[i], t[r]>> \in FloodsOf(t)
  BY <1>4, <1>5, <1>6, <1>9 DEF FloodsOf, in
<1> QED BY <1>10

(* The first login of a flood anchors it, and its window holds the flood. *)
LEMMA FloodAnchors ==
  ASSUME NEW t \in Seq(Nat), Ascending(t), NEW f \in FloodsOf(t)
  PROVE  \E i \in Anchors(t), k \in 1..Len(t) :
           t[i] = f[1] /\ t[k] = f[2] /\ i <= k /\ k <= Reach(t, i, Len(t))
<1> PICK n \in Nat : n = Len(t) OBVIOUS
<1> PICK x \in Moments(t), y \in Moments(t) : x = f[1] /\ y = f[2] BY DEF FloodsOf
<1>1. x <= y /\ y - x < Window /\ Cardinality(Within(t, x, y)) >= MinConcurrent
  BY DEF FloodsOf
<1>2. \E i \in 1..Len(t) : t[i] = x /\ FirstFrom(t, x, i) BY FirstAt
<1>3. \E k \in 1..Len(t) : t[k] = y /\ LastUpTo(t, y, k) BY LastAt
<1> PICK i \in 1..n : t[i] = x /\ FirstFrom(t, x, i) BY <1>2
<1> PICK k \in 1..n : t[k] = y /\ LastUpTo(t, y, k) BY <1>3
<1>4. i <= k BY <1>1 DEF FirstFrom
<1>5. Cardinality(Within(t, x, y)) = k - i + 1 BY <1>4, WithinIs
<1> PICK r \in 1..n : r = Reach(t, i, n) BY Windows
<1>6. k <= r
  <2>1. k \in i..n BY <1>4
  <2>2. \A j \in i..n : j <= r <=> t[j] - t[i] < Window BY Windows
  <2> QED BY <1>1, <2>1, <2>2
<1>7. i \in Anchors(t)
  <2>1. MinConcurrent \in Nat BY StormAssumption
  <2>2. r - i + 1 >= MinConcurrent BY <1>1, <1>5, <1>6, <2>1
  <2> QED BY <2>2 DEF Anchors
<1> QED BY <1>4, <1>6, <1>7

(* A piece's events are those from the time of its first to that of its last. *)
LEMMA PieceSize ==
  ASSUME NEW t \in Seq(Nat), Ascending(t), NEW m \in Nat,
         NEW A \in [1..m -> Nat], NEW B \in [1..m -> Nat], Pieces(t, A, B, m),
         NEW a \in 1..m
  PROVE  /\ A[a] \in 1..Len(t) /\ B[a] \in 1..Len(t) /\ A[a] <= B[a]
         /\ FirstFrom(t, t[A[a]], A[a]) /\ LastUpTo(t, t[B[a]], B[a])
         /\ Cardinality(Within(t, t[A[a]], t[B[a]])) = B[a] - A[a] + 1
<1>1. A[a] \in 1..Len(t) /\ B[a] \in 1..Len(t) /\ A[a] <= B[a] BY DEF Pieces, Anchors
<1>2. FirstFrom(t, t[A[a]], A[a]) BY <1>1, PieceBounds DEF FirstFrom
<1>3. LastUpTo(t, t[B[a]], B[a]) BY <1>1, PieceBounds DEF LastUpTo
<1>4. Cardinality(Within(t, t[A[a]], t[B[a]])) = B[a] - A[a] + 1
  BY <1>1, <1>2, <1>3, WithinIs
<1> QED BY <1>1, <1>2, <1>3, <1>4

LEMMA PiecesInTime ==
  ASSUME NEW t \in Seq(Nat), Ascending(t), NEW m \in Nat,
         NEW A \in [1..m -> Nat], NEW B \in [1..m -> Nat], Pieces(t, A, B, m),
         NEW Lo \in [1..m -> Nat], NEW Hi \in [1..m -> Nat],
         \A a \in 1..m : Lo[a] = t[A[a]] /\ Hi[a] = t[B[a]]
  PROVE  TimePieces(Moments(t), FloodsOf(t), Lo, Hi, m)
<1> PICK n \in Nat : n = Len(t) OBVIOUS
<1> DEFINE T == Moments(t)
           F == FloodsOf(t)
<1>0. \A j \in 1..n : t[j] \in Nat /\ t[j] \in T BY DEF Moments
<1>1. ASSUME NEW a \in 1..m
      PROVE  /\ Lo[a] \in T /\ Hi[a] \in T /\ Lo[a] <= Hi[a]
             /\ \E f \in F : f[1] = Lo[a]
             /\ \E f \in F : f[2] = Hi[a]
             /\ \A u, v \in T : Gap(T, u, v) /\ Lo[a] <= u /\ v <= Hi[a] => Across(F, u, v)
  <2> PICK p \in 1..n, q \in 1..n : p = A[a] /\ q = B[a] BY PieceSize
  <2>1. Lo[a] = t[p] /\ Hi[a] = t[q] OBVIOUS
  <2>2. p <= q /\ FirstFrom(t, t[p], p) /\ LastUpTo(t, t[q], q) BY PieceSize
  <2>3. Lo[a] \in T /\ Hi[a] \in T /\ Lo[a] <= Hi[a]
    <3>1. t[p] <= t[q] BY <2>2 DEF FirstFrom
    <3> QED BY <1>0, <2>1, <3>1
  <2>4. \E f \in F : f[1] = Lo[a]
    <3>1. p \in Anchors(t) BY DEF Pieces
    <3> QED BY <2>1, <3>1, AnchorFloods
  <2>5. \E f \in F : f[2] = Hi[a]
    <3>1. PICK i \in Anchors(t) : Reach(t, i, n) = q BY DEF Pieces
    <3> QED BY <2>1, <3>1, AnchorFloods
  <2>6. ASSUME NEW u \in T, NEW v \in T, Gap(T, u, v), Lo[a] <= u, v <= Hi[a]
        PROVE  Across(F, u, v)
    <3>1. \E k \in 1..Len(t) : t[k] = u /\ LastUpTo(t, u, k) BY LastAt
    <3> PICK k \in 1..n : t[k] = u /\ LastUpTo(t, u, k) BY <3>1
    <3>2. u < v /\ u \in Nat /\ v \in Nat BY <1>0, <2>6 DEF Gap, Moments
    <3>3. p <= k
      <4>1. t[p] <= t[k] BY <2>1, <2>6
      <4> QED BY <2>2, <4>1 DEF FirstFrom
    <3>4. k < q
      <4>1. t[q] \in Nat /\ v <= t[q] BY <1>0, <2>1, <2>6
      <4>2. ~ (t[q] <= u) BY <3>2, <4>1
      <4>3. ~ (q <= k) BY <4>2 DEF LastUpTo
      <4> QED BY <4>3
    <3>5. PICK i \in Anchors(t) : i <= k /\ k + 1 <= Reach(t, i, n)
      <4>1. k \in Nat OBVIOUS
      <4> QED BY <3>3, <3>4, <4>1 DEF Pieces
    <3>6. i \in 1..n BY DEF Anchors
    <3> PICK r \in 1..n : r = Reach(t, i, n) BY <3>6, Windows
    <3>7. k + 1 \in 1..n BY <3>4
    <3>8. PICK f \in F : f[1] = t[i] /\ f[2] = t[r] BY AnchorFloods
    <3>9. t[i] <= u BY <3>5, <3>6 DEF LastUpTo
    <3>10. v <= t[k + 1]
      <4>1. ~ (k + 1 <= k) BY <3>7
      <4>2. ~ (t[k + 1] <= u) BY <3>7, <4>1 DEF LastUpTo
      <4>3. t[k + 1] \in T /\ t[k + 1] \in Nat BY <1>0, <3>7
      <4>4. u < t[k + 1] BY <3>2, <4>2, <4>3, SMTT(30)
      <4>5. ~ (t[k + 1] < v) BY <2>6, <4>3, <4>4 DEF Gap
      <4> QED BY <3>2, <4>3, <4>5, SMTT(30)
    <3>11. t[k + 1] <= t[r]
      <4>1. k + 1 < r \/ k + 1 = r BY <3>5, <3>7
      <4>2. t[k + 1] \in Nat BY <1>0, <3>7
      <4>3. t[k + 1] <= t[k + 1] BY <4>2
      <4> PICK j \in 1..n : j = k + 1 BY <3>7
      <4>4. j < r => t[j] <= t[r] BY DEF Ascending
      <4> QED BY <4>1, <4>3, <4>4
    <3>12. v <= t[r]
      <4>1. t[k + 1] \in Nat /\ t[r] \in Nat BY <1>0, <3>7
      <4>2. \A x, y, z \in Nat : x <= y /\ y <= z => x <= z OBVIOUS
      <4> QED BY <3>2, <3>10, <3>11, <4>1, <4>2
    <3> QED BY <3>8, <3>9, <3>12 DEF Across
  <2> HIDE DEF T, F
  <2> QED BY <2>3, <2>4, <2>5, <2>6
<1>2. ASSUME NEW a \in 1..m, NEW b \in 1..m, a < b PROVE Hi[a] < Lo[b]
  <2> PICK q \in 1..n : q = B[a] BY PieceSize
  <2> PICK p \in 1..n : p = A[b] BY PieceSize
  <2>1. q < p BY <1>2 DEF Pieces
  <2>2. LastUpTo(t, t[q], q) BY PieceSize
  <2>3. ~ (t[p] <= t[q])
    <3>1. ~ (p <= q) BY <2>1
    <3> QED BY <2>2, <3>1 DEF LastUpTo
  <2>4. t[p] \in Nat /\ t[q] \in Nat BY <1>0
  <2>5. t[q] < t[p] BY <2>3, <2>4
  <2> QED BY <2>5
<1>3. ASSUME NEW f \in F PROVE \E a \in 1..m : Lo[a] <= f[1] /\ f[2] <= Hi[a]
  <2>1. PICK i \in Anchors(t), k \in 1..n :
          t[i] = f[1] /\ t[k] = f[2] /\ i <= k /\ k <= Reach(t, i, n)
    BY FloodAnchors
  <2>2. PICK a \in 1..m : A[a] <= i /\ Reach(t, i, n) <= B[a] BY DEF Pieces
  <2>3. i \in 1..n BY DEF Anchors
  <2> PICK r \in 1..n : r = Reach(t, i, n) BY <2>3, Windows
  <2> PICK p \in 1..n, q \in 1..n : p = A[a] /\ q = B[a] BY PieceSize
  <2>4. t[p] <= t[i] BY <2>2, <2>3, PieceSize DEF FirstFrom
  <2>5. k <= q BY <2>1, <2>2
  <2>6. t[k] <= t[q] BY <2>5, PieceSize DEF LastUpTo
  <2> QED BY <2>1, <2>4, <2>6
<1> HIDE DEF T, F
<1> QED BY <1>1, <1>2, <1>3 DEF TimePieces, T, F

(* What the report promises, in these words. *)
LEMMA FloodSpansAre ==
  ASSUME NEW L, NEW rows \in Seq(Session(0..MaxTime, L))
  PROVE  /\ TimesIn(rows) = Moments(TimesOf(rows))
         /\ FloodSpans(rows) = FloodsOf(TimesOf(rows))
<1> PICK t \in Seq(Nat) : t = TimesOf(rows) BY TimesAreSorted
<1>1. TimesIn(rows) = Moments(t) BY TimesAreSorted DEF Moments
<1>2. \A from, to \in Nat : CountIn(rows, from, to) = Cardinality(Within(t, from, to))
  BY TimesAreSorted
<1>3. Moments(t) \in SUBSET Nat BY DEF Moments
<1>4. \A s \in Moments(t) \X Moments(t) :
        CountIn(rows, s[1], s[2]) = Cardinality(Within(t, s[1], s[2]))
  BY <1>2, <1>3
<1>5. FloodSpans(rows) =
        {s \in Moments(t) \X Moments(t) :
           s[1] <= s[2] /\ s[2] - s[1] < Window /\ CountIn(rows, s[1], s[2]) >= MinConcurrent}
  BY <1>1 DEF FloodSpans
<1>6. FloodSpans(rows) = FloodsOf(t) BY <1>4, <1>5 DEF FloodsOf
<1> QED BY <1>1, <1>6

LEMMA StormSpansAreHeld ==
  ASSUME NEW rows, NEW T, T = TimesIn(rows), NEW F, F = FloodSpans(rows),
         F \in SUBSET (T \X T), NEW x, NEW y
  PROVE  <<x, y>> \in StormSpans(rows) <=> HeldTogether(T, F, x, y)
<1> DEFINE gaps == {p \in T \X T : p[1] < p[2] /\ ~ \E z \in T : p[1] < z /\ z < p[2]}
           spanned == {p \in gaps : \E f \in F : f[1] <= p[1] /\ p[2] <= f[2]}
           apart(p) == p[2] < x \/ y < p[1]
<1>1. <<x, y>> \in StormSpans(rows) <=>
        /\ x \in {f[1] : f \in F} /\ y \in {f[2] : f \in F}
        /\ x <= y
        /\ \A p \in gaps : p \in spanned <=> \/ x <= p[1] /\ p[2] <= y
                                             \/ p \in spanned /\ apart(p)
  BY DEF StormSpans
<1>2. \A u, v \in T : <<u, v>> \in gaps <=> Gap(T, u, v) BY DEF Gap
<1>3. \A u, v \in T : Gap(T, u, v) => (<<u, v>> \in spanned <=> Across(F, u, v))
  BY <1>2 DEF Across
<1>4. \A p \in gaps : p = <<p[1], p[2]>> /\ p[1] \in T /\ p[2] \in T OBVIOUS
<1> HIDE DEF gaps, spanned
<1>5. (\A p \in gaps : p \in spanned <=> \/ x <= p[1] /\ p[2] <= y
                                         \/ p \in spanned /\ apart(p))
      <=> \A u, v \in T : Gap(T, u, v) =>
            (Across(F, u, v) <=> \/ x <= u /\ v <= y
                                 \/ Across(F, u, v) /\ (v < x \/ y < u))
  <2>1. ASSUME NEW u \in T, NEW v \in T, Gap(T, u, v)
        PROVE  (<<u, v>> \in spanned <=> \/ x <= <<u, v>>[1] /\ <<u, v>>[2] <= y
                                         \/ <<u, v>> \in spanned /\ apart(<<u, v>>))
               <=> (Across(F, u, v) <=> \/ x <= u /\ v <= y
                                        \/ Across(F, u, v) /\ (v < x \/ y < u))
    <3>1. <<u, v>> \in spanned <=> Across(F, u, v) BY <1>3, <2>1
    <3>2. <<u, v>>[1] = u /\ <<u, v>>[2] = v OBVIOUS
    <3> QED BY <3>1, <3>2
  <2> DEFINE ok(p) == p \in spanned <=> \/ x <= p[1] /\ p[2] <= y
                                        \/ p \in spanned /\ apart(p)
             fine(u, v) == Across(F, u, v) <=> \/ x <= u /\ v <= y
                                               \/ Across(F, u, v) /\ (v < x \/ y < u)
  <2>2. \A u, v \in T : Gap(T, u, v) => (ok(<<u, v>>) <=> fine(u, v)) BY <2>1
  <2> HIDE DEF ok, fine
  <2>3. (\A p \in gaps : ok(p)) => \A u, v \in T : Gap(T, u, v) => fine(u, v)
    BY <1>2, <2>2
  <2>4. (\A u, v \in T : Gap(T, u, v) => fine(u, v)) => \A p \in gaps : ok(p)
    <3> SUFFICES ASSUME \A u, v \in T : Gap(T, u, v) => fine(u, v), NEW p \in gaps
                 PROVE  ok(p)
      OBVIOUS
    <3> PICK u \in T, v \in T : p = <<u, v>> BY <1>4
    <3> QED BY <1>2, <2>2
  <2> QED BY <2>3, <2>4 DEF ok, fine
<1>6. /\ x \in {f[1] : f \in F} <=> \E f \in F : f[1] = x
      /\ y \in {f[2] : f \in F} <=> \E f \in F : f[2] = y
  OBVIOUS
<1> QED BY <1>1, <1>5, <1>6 DEF HeldTogether

LEMMA PiecesAreStorms ==
  ASSUME NEW rows, NEW T, T = TimesIn(rows), NEW F, F = FloodSpans(rows),
         NEW Lo, NEW Hi, NEW m, PiecesOf(T, F, Lo, Hi, m)
  PROVE  StormSpans(rows) = {<<Lo[a], Hi[a]>> : a \in 1..m}
<1>0. F \in SUBSET (T \X T) BY DEF PiecesOf
<1>1. ASSUME NEW a \in 1..m PROVE <<Lo[a], Hi[a]>> \in StormSpans(rows)
  <2>1. HeldTogether(T, F, Lo[a], Hi[a]) BY PiecesAreHeld DEF PiecesOf
  <2> QED BY <1>0, <2>1, StormSpansAreHeld
<1>2. ASSUME NEW s \in StormSpans(rows) PROVE \E a \in 1..m : s = <<Lo[a], Hi[a]>>
  <2>1. StormSpans(rows) \subseteq {f[1] : f \in F} \X {f[2] : f \in F} BY DEF StormSpans
  <2>2. PICK f \in F, g \in F : s = <<f[1], g[2]>> BY <2>1
  <2> PICK x \in T, y \in T : x = f[1] /\ y = g[2] BY <1>0
  <2>3. s = <<x, y>> BY <2>2
  <2>4. HeldTogether(T, F, x, y) BY <1>0, <2>3, StormSpansAreHeld
  <2>5. \E a \in 1..m : x = Lo[a] /\ y = Hi[a] BY <2>4, HeldArePieces
  <2> QED BY <2>3, <2>5
<1> QED BY <1>1, <1>2

(* What a storm says of its episode. *)
LEMMA StormFields ==
  ASSUME NEW L, NEW rows \in Seq(Session(0..MaxTime, L))
  PROVE  \E m \in Nat : \E A, B \in [1..m -> Nat] :
           /\ DOMAIN Storms(rows) = 1..m
           /\ Pieces(TimesOf(rows), A, B, m)
           /\ \A a \in 1..m :
                /\ Storms(rows)[a].start = TimesOf(rows)[A[a]]
                /\ Storms(rows)[a].end = TimesOf(rows)[B[a]]
                /\ Storms(rows)[a].count = B[a] - A[a] + 1
                /\ Storms(rows)[a].peak = PeakConcurrent(TimesOf(rows), A[a], B[a])
<1> DEFINE found == Episodes(TimesOf(rows))
<1>1. found \in Seq(Nat \X Nat) /\ Pieces(TimesOf(rows), Begins(found), Ends(found), Len(found))
  BY TimesAreSorted, EpisodesArePieces
<1>2. Storms(rows) =
        [e \in DOMAIN found |->
           [start |-> TimesOf(rows)[found[e][1]], end |-> TimesOf(rows)[found[e][2]],
            count |-> found[e][2] - found[e][1] + 1,
            peak |-> PeakConcurrent(TimesOf(rows), found[e][1], found[e][2])]]
  BY DEF Storms, TimesOf
<1> HIDE DEF found
<1> PICK m \in Nat : m = Len(found) BY <1>1
<1>3. DOMAIN found = 1..m BY <1>1
<1>4. PICK A \in [1..m -> Nat] : A = Begins(found) BY <1>1, BeginsAndEnds
<1>5. PICK B \in [1..m -> Nat] : B = Ends(found) BY <1>1, BeginsAndEnds
<1>6. \A a \in 1..m : A[a] = found[a][1] /\ B[a] = found[a][2]
  BY <1>1, <1>4, <1>5, BeginsAndEnds
<1>7. DOMAIN Storms(rows) = 1..m BY <1>2, <1>3
<1>8. ASSUME NEW a \in 1..m
      PROVE  /\ Storms(rows)[a].start = TimesOf(rows)[A[a]]
             /\ Storms(rows)[a].end = TimesOf(rows)[B[a]]
             /\ Storms(rows)[a].count = B[a] - A[a] + 1
             /\ Storms(rows)[a].peak = PeakConcurrent(TimesOf(rows), A[a], B[a])
  <2>1. Storms(rows)[a] =
          [start |-> TimesOf(rows)[A[a]], end |-> TimesOf(rows)[B[a]],
           count |-> B[a] - A[a] + 1, peak |-> PeakConcurrent(TimesOf(rows), A[a], B[a])]
    BY <1>2, <1>3, <1>6
  <2> QED BY <2>1
<1>9. Pieces(TimesOf(rows), A, B, m) BY <1>1, <1>4, <1>5
<1> QED BY <1>7, <1>8, <1>9

(***************************************************************************)
(* The storms login_storm reports, found by merging anchored windows in    *)
(* one pass over the sorted times, are exactly the maximal spans of logins *)
(* held together by floods, strictly apart in time, and each counts its    *)
(* logins: for any sessions, window and threshold.                         *)
(***************************************************************************)
THEOREM StormsAreMaximal == Spec => []StormsAreExact
<1>1. ASSUME Inputs PROVE StormsAreExact
  <2> PICK rows \in Seq(Session(0..MaxTime, Logins)) : rows = Analysed(sessions)
    BY <1>1, AnalysedIsList DEF Inputs
  <2> PICK t \in Seq(Nat) : t = TimesOf(rows) BY TimesAreSorted
  <2> PICK st : st = Storms(rows) OBVIOUS
  <2> DEFINE T == Moments(t)
             F == FloodsOf(t)
             n == Len(t)
  <2>0. \A j \in 1..n : t[j] \in Nat OBVIOUS
  <2>1. Ascending(t) BY TimesAreSorted
  <2>2. \A from, to \in Nat : CountIn(rows, from, to) = Cardinality(Within(t, from, to))
    BY TimesAreSorted
  <2>3. PICK m \in Nat : \E A, B \in [1..m -> Nat] :
           /\ DOMAIN st = 1..m
           /\ Pieces(t, A, B, m)
           /\ \A a \in 1..m : /\ st[a].start = t[A[a]] /\ st[a].end = t[B[a]]
                              /\ st[a].count = B[a] - A[a] + 1
    BY StormFields, ZenonT(30)
  <2> PICK A \in [1..m -> Nat], B \in [1..m -> Nat] :
           /\ DOMAIN st = 1..m
           /\ Pieces(t, A, B, m)
           /\ \A a \in 1..m : /\ st[a].start = t[A[a]] /\ st[a].end = t[B[a]]
                              /\ st[a].count = B[a] - A[a] + 1
    BY <2>3
  <2>4. \A a \in 1..m : A[a] \in 1..n /\ B[a] \in 1..n BY <2>1, PieceSize
  <2> DEFINE Lo == [a \in 1..m |-> t[A[a]]]
             Hi == [a \in 1..m |-> t[B[a]]]
  <2>5. /\ Lo \in [1..m -> Nat] /\ Hi \in [1..m -> Nat]
        /\ \A a \in 1..m : Lo[a] = t[A[a]] /\ Hi[a] = t[B[a]]
    <3> QED BY <2>0, <2>4
  <2> HIDE DEF Lo, Hi
  <2>6. TimePieces(T, F, Lo, Hi, m) BY <2>1, <2>5, PiecesInTime, ZenonT(30)
  <2>7. \A a \in 1..m : st[a].start = Lo[a] /\ st[a].end = Hi[a] BY <2>5
  <2>8. T \in SUBSET Nat BY DEF Moments
  <2>9. F \in SUBSET (T \X T) /\ \A f \in F : f[1] <= f[2] BY DEF FloodsOf
  <2>10. T = TimesIn(rows) /\ F = FloodSpans(rows) BY FloodSpansAre
  <2> HIDE DEF T, F
  <2>11. {<<st[a].start, st[a].end>> : a \in DOMAIN st} = StormSpans(rows)
    <3>1. PiecesOf(T, F, Lo, Hi, m) BY <2>5, <2>6, <2>8, <2>9 DEF PiecesOf
    <3>2. StormSpans(rows) = {<<Lo[a], Hi[a]>> : a \in 1..m}
      BY <2>10, <3>1, PiecesAreStorms
    <3>3. DOMAIN st = 1..m OBVIOUS
    <3> DEFINE reported(a) == <<st[a].start, st[a].end>>
               held(a) == <<Lo[a], Hi[a]>>
    <3>4. \A a \in 1..m : reported(a) = held(a) BY <2>7
    <3> HIDE DEF reported, held
    <3>5. {reported(a) : a \in 1..m} = {held(a) : a \in 1..m} BY <3>4
    <3> QED BY <3>2, <3>3, <3>5 DEF reported, held
  <2>12. ASSUME NEW a \in DOMAIN st, NEW b \in DOMAIN st, a < b
         PROVE  st[a].end < st[b].start
    <3>1. a \in 1..m /\ b \in 1..m OBVIOUS
    <3>2. Hi[a] < Lo[b] BY <2>6, <2>12, <3>1 DEF TimePieces
    <3> QED BY <2>7, <3>1, <3>2
  <2>13. ASSUME NEW a \in DOMAIN st PROVE st[a].count = CountIn(rows, st[a].start, st[a].end)
    <3>0. a \in 1..m OBVIOUS
    <3>1. Cardinality(Within(t, t[A[a]], t[B[a]])) = B[a] - A[a] + 1
      BY <2>1, <3>0, PieceSize
    <3>2. t[A[a]] \in Nat /\ t[B[a]] \in Nat BY <2>0, <2>4, <3>0
    <3>3. CountIn(rows, t[A[a]], t[B[a]]) = Cardinality(Within(t, t[A[a]], t[B[a]]))
      BY <2>2, <3>2
    <3> QED BY <3>1, <3>3
  <2> QED BY <2>11, <2>12, <2>13 DEF StormsAreExact
<1> QED BY <1>1, InputsAreLists, PTL

(* A window that floods is not cut off by the end of its episode.          *)
LEMMA AnchorUncut ==
  ASSUME NEW t \in Seq(Nat), Ascending(t), NEW m \in Nat,
         NEW A \in [1..m -> Nat], NEW B \in [1..m -> Nat], Pieces(t, A, B, m),
         NEW a \in 1..m, NEW i \in Anchors(t), A[a] <= i, i <= B[a]
  PROVE  Reach(t, i, Len(t)) <= Reach(t, i, B[a])
<1> PICK n \in Nat : n = Len(t) OBVIOUS
<1> PICK q \in 1..n : q = B[a] BY PieceSize
<1>1. i \in 1..n BY DEF Anchors
<1> PICK r \in 1..n : r = Reach(t, i, n) BY <1>1, Windows
<1>2. r \in i..n /\ \A j \in i..n : j <= r <=> t[j] - t[i] < Window BY <1>1, Windows
<1>3. r <= q
  <2>1. i \in Nat /\ i <= i /\ i <= r BY <1>1, <1>2
  <2> QED BY <2>1, AnchorInPiece
<1>4. r \in i..q BY <1>1, <1>2, <1>3
<1>5. t[r] - t[i] < Window
  <2>1. r <= r OBVIOUS
  <2> QED BY <1>2, <2>1
<1>6. i \in 1..q BY <1>1
<1>7. \A j \in i..q : j <= Reach(t, i, q) <=> t[j] - t[i] < Window BY <1>6, ReachIs
<1> QED BY <1>4, <1>5, <1>7

(* Two sets of numbers with members equally large have the same maximum. *)
LEMMA SameMax ==
  ASSUME NEW S \in SUBSET Nat, IsFiniteSet(S), S # {}, NEW U \in SUBSET Nat,
         \A x \in S : \E y \in U : x <= y,
         \A y \in U : \E x \in S : y <= x
  PROVE  Max(U) = Max(S) /\ Max(S) \in S /\ \A x \in S : x <= Max(S)
<1> PICK g \in S : \A x \in S : x <= g BY GreatestNumber
<1>1. g \in Nat /\ \A x \in S : x \in Nat /\ g >= x OBVIOUS
<1>2. Max(S) = g
  <2>1. Max(S) \in S /\ \A x \in S : Max(S) >= x BY <1>1 DEF Max
  <2>2. Max(S) \in Nat /\ Max(S) >= g /\ g >= Max(S) BY <1>1, <2>1
  <2> QED BY <1>1, <2>2
<1>3. \A y \in U : y \in Nat /\ g >= y
  <2> TAKE y \in U
  <2>1. PICK x \in S : y <= x OBVIOUS
  <2> QED BY <1>1, <2>1
<1>4. PICK y \in U : g <= y OBVIOUS
<1>5. y = g BY <1>1, <1>3, <1>4
<1>6. Max(U) = g
  <2>1. Max(U) \in U /\ \A z \in U : Max(U) >= z BY <1>3, <1>5 DEF Max
  <2>2. Max(U) \in Nat /\ Max(U) >= g /\ g >= Max(U) BY <1>3, <1>5, <2>1
  <2> QED BY <1>1, <2>2
<1> QED BY <1>2, <1>6

(* All logins within the window of one at time x, from the first at x. *)
LEMMA WindowCount ==
  ASSUME NEW t \in Seq(Nat), Ascending(t), NEW i \in 1..Len(t), FirstFrom(t, t[i], i)
  PROVE  Cardinality(Within(t, t[i], t[i] + Window - 1)) = Reach(t, i, Len(t)) - i + 1
<1> PICK n \in Nat : n = Len(t) OBVIOUS
<1> PICK r \in 1..n : r = Reach(t, i, n) BY Windows
<1>1. r \in i..n /\ \A j \in i..n : j <= r <=> t[j] - t[i] < Window BY Windows
<1>2. Window \in Nat \ {0} BY StormAssumption
<1>3. ASSUME NEW j \in 1..n PROVE t[j] <= t[i] + Window - 1 <=> j <= r
  <2>1. t[j] \in Nat /\ t[i] \in Nat OBVIOUS
  <2>2. CASE j < i
    <3>1. t[j] <= t[i] BY <2>2 DEF Ascending
    <3>2. j <= r BY <1>1, <2>2
    <3> QED BY <1>2, <2>1, <3>1, <3>2
  <2>3. CASE ~ (j < i)
    <3>1. j \in i..n BY <2>3
    <3>2. j <= r <=> t[j] - t[i] < Window BY <1>1, <3>1
    <3> QED BY <1>2, <2>1, <3>2, SMTT(30)
  <2> QED BY <2>2, <2>3
<1>4. LastUpTo(t, t[i] + Window - 1, r) BY <1>3 DEF LastUpTo
<1>5. i <= r BY <1>1
<1> QED BY <1>4, <1>5, WithinIs

(* The most logins in any window that begins in a span. *)
MostFrom(t, from, to) ==
  Max({Cardinality(Within(t, x, x + Window - 1)) :
         x \in {y \in Moments(t) : from <= y /\ y <= to}})

LEMMA PeakIsMost ==
  ASSUME NEW t \in Seq(Nat), Ascending(t), NEW m \in Nat,
         NEW A \in [1..m -> Nat], NEW B \in [1..m -> Nat], Pieces(t, A, B, m),
         NEW a \in 1..m
  PROVE  /\ PeakConcurrent(t, A[a], B[a]) = MostFrom(t, t[A[a]], t[B[a]])
         /\ PeakConcurrent(t, A[a], B[a]) \in MinConcurrent..(B[a] - A[a] + 1)
<1> PICK n \in Nat : n = Len(t) OBVIOUS
<1> PICK p \in 1..n, q \in 1..n : p = A[a] /\ q = B[a] BY PieceSize
<1> DEFINE cut(i) == Reach(t, i, q) - i + 1
           cnt(x) == Cardinality(Within(t, x, x + Window - 1))
           X == {y \in Moments(t) : t[p] <= y /\ y <= t[q]}
           S == {cut(i) : i \in p..q}
           U == {cnt(x) : x \in X}
<1>1. p <= q /\ FirstFrom(t, t[p], p) /\ LastUpTo(t, t[q], q) BY PieceSize
<1>2. Window \in Nat \ {0} /\ MinConcurrent \in Nat BY StormAssumption
<1>3. \A j \in 1..n : t[j] \in Nat /\ t[j] \in Moments(t) BY DEF Moments
<1>4. ASSUME NEW i \in p..q
      PROVE  /\ Reach(t, i, q) \in i..q /\ i \in 1..n
             /\ \A j \in i..q : j <= Reach(t, i, q) <=> t[j] - t[i] < Window
             /\ cut(i) \in Nat /\ cut(i) <= q - p + 1
  <2>1. i \in 1..n /\ i \in 1..q OBVIOUS
  <2>2. /\ Reach(t, i, q) \in i..q
        /\ \A j \in i..q : j <= Reach(t, i, q) <=> t[j] - t[i] < Window
    BY <2>1, ReachIs
  <2> PICK r \in i..q : r = Reach(t, i, q) BY <2>2
  <2>3. r - i + 1 \in Nat /\ r - i + 1 <= q - p + 1 BY SMTT(30)
  <2> QED BY <2>1, <2>2, <2>3
<1>5. cut(p) >= MinConcurrent /\ p \in p..q
  <2>1. p \in Anchors(t) /\ p <= p BY DEF Pieces
  <2> PICK r \in 1..n : r = Reach(t, p, n) BY Windows
  <2>2. r <= Reach(t, p, q) BY <1>1, <2>1, AnchorUncut
  <2>3. r - p + 1 >= MinConcurrent BY <2>1 DEF Anchors
  <2>4. p \in p..q BY <1>1
  <2>5. Reach(t, p, q) \in p..q BY <1>4, <2>4
  <2> PICK s \in Nat : s = Reach(t, p, q) BY <2>5
  <2>6. s - p + 1 >= MinConcurrent BY <1>2, <2>2, <2>3, SMTT(30)
  <2> QED BY <2>4, <2>6
<1>6. ASSUME NEW x \in X PROVE cnt(x) \in Nat /\ \E i \in p..q : cnt(x) <= cut(i)
  <2>0. x \in Moments(t) /\ t[p] <= x /\ x <= t[q] OBVIOUS
  <2>1. PICK i \in 1..Len(t) : t[i] = x /\ FirstFrom(t, x, i) BY <2>0, FirstAt
  <2>2. i \in p..q
    <3>1. p <= i BY <1>1, <2>0, <2>1 DEF FirstFrom
    <3>2. i <= q BY <1>1, <2>0, <2>1 DEF LastUpTo
    <3> QED BY <2>1, <3>1, <3>2
  <2> PICK r \in 1..n : r = Reach(t, i, n) BY Windows
  <2>3. i <= r BY Windows
  <2>4. cnt(x) = r - i + 1 BY <2>1, WindowCount
  <2>5. cnt(x) \in Nat BY <2>3, <2>4, SMTT(30)
  <2>6. CASE i \in Anchors(t)
    <3>1. r <= Reach(t, i, q)
      <4>1. A[a] <= i /\ i <= B[a] BY <2>2
      <4>2. Reach(t, i, Len(t)) <= Reach(t, i, B[a]) BY <2>6, <4>1, AnchorUncut
      <4> QED BY <4>2
    <3>2. Reach(t, i, q) \in i..q BY <1>4, <2>2
    <3> PICK s \in i..q : s = Reach(t, i, q) BY <3>2
    <3>3. r - i + 1 <= s - i + 1 BY <3>1
    <3> HIDE DEF X
    <3> QED BY <2>2, <2>4, <2>5, <3>3
  <2>7. CASE i \notin Anchors(t)
    <3>1. ~ (r - i + 1 >= MinConcurrent) BY <2>7 DEF Anchors
    <3>2. cut(p) \in Nat BY <1>4, <1>5
    <3> PICK c \in Nat : c = cut(p) BY <3>2
    <3>3. r - i + 1 <= c BY <1>2, <1>5, <3>1
    <3> HIDE DEF X, cut
    <3> QED BY <1>5, <2>4, <2>5, <3>3
  <2> QED BY <2>5, <2>6, <2>7
<1>7. ASSUME NEW i \in p..q PROVE \E x \in X : cut(i) <= cnt(x)
  <2>1. i \in 1..n BY <1>4
  <2> PICK r \in i..q : r = Reach(t, i, q) BY <1>4
  <2>2. t[i] \in X
    <3>1. p <= i /\ i <= q BY <2>1
    <3>2. t[p] <= t[i] /\ t[i] <= t[q] BY <1>1, <2>1, <3>1 DEF FirstFrom, LastUpTo
    <3> QED BY <1>3, <2>1, <3>2
  <2>3. \A j \in i..q : j <= r <=> t[j] - t[i] < Window BY <1>4
  <2> DEFINE in == Within(t, t[i], t[i] + Window - 1)
  <2>4. IsFiniteSet(in) BY IntervalSize, FS_Subset DEF Within
  <2>5. i..r \subseteq in
    <3>1. ASSUME NEW j \in i..r PROVE j \in in
      <4>1. j \in 1..n /\ j \in i..q /\ j <= r BY <2>1
      <4>2. t[j] - t[i] < Window BY <2>3, <4>1
      <4>3. t[i] \in Nat /\ t[j] \in Nat BY <1>3, <2>1, <4>1
      <4>4. t[i] <= t[j]
        <5>1. i < j \/ i = j BY <2>1, <4>1
        <5> QED BY <2>1, <4>1, <4>3, <5>1 DEF Ascending
      <4>5. t[j] <= t[i] + Window - 1
        <5>1. \A x, y, z \in Nat : y - x < z => y <= x + z - 1 OBVIOUS
        <5> QED BY <1>2, <4>2, <4>3, <5>1
      <4> QED BY <4>1, <4>4, <4>5 DEF Within
    <3> QED BY <3>1
  <2>6. r \in 1..n /\ i <= r BY <2>1
  <2>7. Cardinality(i..r) = r - i + 1 BY <2>1, <2>6, SpanSize
  <2>8. Cardinality(i..r) <= Cardinality(in) BY <2>4, <2>5, FS_Subset
  <2>9. cut(i) <= cnt(t[i]) BY <2>7, <2>8
  <2> HIDE DEF X, cut, cnt
  <2> QED BY <2>2, <2>9
<1>8. PeakConcurrent(t, p, q) = Max(S) BY DEF PeakConcurrent
<1>9. S \in SUBSET Nat /\ S # {} BY <1>4, <1>5, SMTT(30)
<1>10. IsFiniteSet(S)
  <2> PICK k \in Nat : k = q - p + 2 BY <1>1
  <2>1. \A x \in S : x \in Nat /\ x <= q - p + 1 BY <1>4
  <2> HIDE DEF S
  <2>2. S \subseteq 0..(k - 1) BY <2>1
  <2>3. IsFiniteSet(0..(k - 1)) BY IntervalSize
  <2> QED BY <2>2, <2>3, FS_Subset
<1>11. U \in SUBSET Nat BY <1>6
<1>12. /\ \A x \in S : \E y \in U : x <= y
       /\ \A y \in U : \E x \in S : y <= x
  <2> HIDE DEF X, cut, cnt
  <2> QED BY <1>6, <1>7
<1> HIDE DEF cut, cnt, X
<1>13. \A x \in S : x <= q - p + 1 BY <1>4
<1>14. cut(p) \in S BY <1>5
<1> HIDE DEF S, U
<1>15. Max(U) = Max(S) /\ Max(S) \in S /\ \A x \in S : x <= Max(S)
  BY <1>9, <1>10, <1>11, <1>12, SameMax
<1>16. Max(S) \in MinConcurrent..(q - p + 1)
  <2>1. Max(S) \in Nat /\ cut(p) \in Nat BY <1>9, <1>14, <1>15
  <2>2. cut(p) <= Max(S) /\ Max(S) <= q - p + 1 BY <1>13, <1>14, <1>15
  <2> QED BY <1>2, <1>5, <2>1, <2>2
<1>17. Max(U) = MostFrom(t, t[p], t[q]) BY DEF MostFrom, U, X, cnt
<1> QED BY <1>8, <1>15, <1>16, <1>17

(***************************************************************************)
(* The peak login_storm reports for a storm, measured on windows cut off   *)
(* at its end, is the most logins in any window that begins in it: at      *)
(* least the threshold, at most the storm's logins.                        *)
(***************************************************************************)
THEOREM PeaksAreTrue == Spec => []PeakIsTrue
<1>1. ASSUME Inputs PROVE PeakIsTrue
  <2> PICK rows \in Seq(Session(0..MaxTime, Logins)) : rows = Analysed(sessions)
    BY <1>1, AnalysedIsList DEF Inputs
  <2> PICK t \in Seq(Nat) : t = TimesOf(rows) BY TimesAreSorted
  <2> PICK st : st = Storms(rows) OBVIOUS
  <2>1. Ascending(t) BY TimesAreSorted
  <2>2. \A from, to \in Nat : CountIn(rows, from, to) = Cardinality(Within(t, from, to))
    BY TimesAreSorted
  <2>3. TimesIn(rows) = Moments(t) BY FloodSpansAre
  <2>4. PICK m \in Nat : \E A, B \in [1..m -> Nat] :
           /\ DOMAIN st = 1..m
           /\ Pieces(t, A, B, m)
           /\ \A a \in 1..m :
                /\ st[a].start = t[A[a]] /\ st[a].end = t[B[a]]
                /\ st[a].count = B[a] - A[a] + 1
                /\ st[a].peak = PeakConcurrent(t, A[a], B[a])
    BY StormFields, ZenonT(30)
  <2>5. SUFFICES ASSUME NEW a \in DOMAIN st
                 PROVE  /\ st[a].peak = TruePeak(rows, <<st[a].start, st[a].end>>)
                        /\ st[a].peak \in MinConcurrent..st[a].count
    BY DEF PeakIsTrue
  <2>6. PICK A \in [1..m -> Nat], B \in [1..m -> Nat] :
           /\ a \in 1..m
           /\ Pieces(t, A, B, m)
           /\ st[a].start = t[A[a]] /\ st[a].end = t[B[a]]
           /\ st[a].count = B[a] - A[a] + 1
           /\ st[a].peak = PeakConcurrent(t, A[a], B[a])
    BY <2>4
  <2> DEFINE X == {y \in Moments(t) : t[A[a]] <= y /\ y <= t[B[a]]}
             cnt(x) == Cardinality(Within(t, x, x + Window - 1))
             count(x) == CountIn(rows, x, x + Window - 1)
  <2>7. /\ st[a].peak = Max({cnt(x) : x \in X})
        /\ st[a].peak \in MinConcurrent..st[a].count
    <3>1. a \in 1..m /\ Pieces(t, A, B, m) BY <2>6
    <3>2. /\ PeakConcurrent(t, A[a], B[a]) = MostFrom(t, t[A[a]], t[B[a]])
          /\ PeakConcurrent(t, A[a], B[a]) \in MinConcurrent..(B[a] - A[a] + 1)
      BY <2>1, <3>1, PeakIsMost
    <3> HIDE DEF X, cnt
    <3>3. st[a].peak = PeakConcurrent(t, A[a], B[a]) /\ st[a].count = B[a] - A[a] + 1
      BY <2>6
    <3> QED BY <3>2, <3>3 DEF X, cnt, MostFrom
  <2>8. \A x \in X : cnt(x) = count(x)
    <3>1. \A x \in X : x \in Nat BY DEF Moments
    <3>2. Window \in Nat \ {0} BY StormAssumption
    <3>3. \A x \in X : x + Window - 1 \in Nat BY <3>1, <3>2
    <3> QED BY <2>2, <3>1, <3>3
  <2>9. TruePeak(rows, <<st[a].start, st[a].end>>) = Max({count(x) : x \in X})
    BY <2>3, <2>6 DEF TruePeak
  <2> HIDE DEF X, cnt, count
  <2>10. {cnt(x) : x \in X} = {count(x) : x \in X} BY <2>8
  <2> QED BY <2>7, <2>9, <2>10
<1> QED BY <1>1, InputsAreLists, PTL

================================================================================
