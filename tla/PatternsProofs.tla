---------------------------- MODULE PatternsProofs ----------------------------
(***************************************************************************)
(* Proofs about Patterns, for any threads, limits and bounds: the types,   *)
(* the rate caps, the circuit breaker, and what is left of the hot reload. *)
(***************************************************************************)
EXTENDS Patterns, TLAPS, Integers, FiniteSetTheorems

Label == {"idle", "load", "read", "patterns", "mtimes", "match", "lock", "running"}

Report == [ok : BOOLEAN, time : Nat, threshold : Nat, pause : Nat]

(* The parts of the type invariant these arguments use: all but the stamps. *)
Types ==
  /\ clock \in Nat /\ mtime \in Nat /\ tracked \in Nat
  /\ file \in Content /\ loaded \in Loaded
  /\ pc \in [Thread -> Label]
  /\ stat \in [Thread -> Nat] /\ content \in [Thread -> Loaded]
  /\ failures \in Nat /\ disabledUntil \in Nat
  /\ arms \in Seq([time : Nat, reports : Nat])
  /\ reports \in Seq(Report)
  /\ raced \in BOOLEAN

-----------------------------------------------------------------------------
(* The rate caps. *)

(* The stamps are the times of the last arms, in order; the arms without one are a day old. *)
StampInv ==
  /\ stamps \in Seq(Nat) /\ Len(stamps) <= Len(arms)
  /\ \A k \in 1..Len(stamps) : stamps[k] = arms[Len(arms) - Len(stamps) + k].time
  /\ \A i \in 1..(Len(arms) - Len(stamps)) : arms[i].time + Day <= clock
  /\ \A i \in 1..Len(arms) : arms[i].time <= clock
  /\ \A i, j \in 1..Len(arms) : i <= j => arms[i].time <= arms[j].time

(* The hot reload. *)

(* Without a race one thread reloads, behind the file's mtime, and knows what it read. *)
ReloadInv ==
  ~raced =>
    /\ \A s, t \in Reloading : s = t
    /\ tracked <= mtime
    /\ \A t \in Reloading :
         /\ tracked < mtime
         /\ stat[t] <= mtime
         /\ pc[t] = "patterns" /\ stat[t] = mtime => content[t] \in {file, "unread"}
         /\ pc[t] = "mtimes" /\ stat[t] = mtime => loaded \in {file, "unread"}
    /\ \A t \in Thread : pc[t] \notin {"read", "patterns", "mtimes"} => stat[t] = 0
    /\ LoadedIsCurrent

(* The breaker. *)

(* failures counts the failures reported since the last success, exactly. *)
CountInv ==
  /\ failures <= Len(reports)
  /\ \A j \in 1..Len(reports) : j > Len(reports) - failures => ~reports[j].ok
  /\ \A k \in 1..Len(reports) :
       (\A j \in k..Len(reports) : ~reports[j].ok) => failures > Len(reports) - k

(* A report that tripped the breaker still holds it, or a shorter pause came after it. *)
Held(i) ==
  \/ disabledUntil >= reports[i].time + reports[i].pause
  \/ \E j \in 1..Len(reports) :
       j > i /\ InARow(j) /\ reports[j].pause < reports[i].pause

BreakerInv ==
  /\ \A i \in 1..Len(reports) : reports[i].time <= clock /\ reports[i].threshold > 0
  /\ \A i \in 1..Len(reports) : InARow(i) => Held(i)
  /\ \A a \in 1..Len(arms) : arms[a].reports <= Len(reports)
  /\ BreakerHolds

IndInv == Types /\ StampInv /\ RateCapsHold /\ ReloadInv /\ CountInv /\ BreakerInv

-----------------------------------------------------------------------------
(* What the sequences hold. *)
LEMMA SeqElement ==
  ASSUME NEW S, NEW s \in Seq(S), NEW i \in 1..Len(s)
  PROVE  s[i] \in S
OBVIOUS

LEMMA Elements ==
  ASSUME Types
  PROVE  /\ \A i \in 1..Len(reports) : /\ reports[i] \in Report
                                       /\ reports[i].time \in Nat
                                       /\ reports[i].threshold \in Nat
                                       /\ reports[i].pause \in Nat
         /\ \A a \in 1..Len(arms) : arms[a].reports \in Nat /\ arms[a].time \in Nat
<1>1. ASSUME NEW i \in 1..Len(reports) PROVE reports[i] \in Report
  BY SeqElement DEF Types
<1>2. ASSUME NEW a \in 1..Len(arms) PROVE arms[a] \in [time : Nat, reports : Nat]
  BY SeqElement DEF Types
<1> QED BY <1>1, <1>2 DEF Report

LEMMA InitInv == Init => IndInv
<1> SUFFICES ASSUME Init PROVE IndInv OBVIOUS
<1>1. Types
  <2>1. arms \in Seq([time : Nat, reports : Nat]) BY DEF Init
  <2>2. reports \in Seq(Report) BY DEF Init
  <2>3. /\ mtime \in Nat /\ tracked \in Nat
        /\ file \in Content /\ loaded \in Loaded /\ "absent" \in Loaded
    BY DEF Init, Loaded, Content
  <2>4. pc \in [Thread -> Label] /\ content \in [Thread -> Loaded]
    BY <2>3 DEF Init, Label
  <2> QED BY <2>1, <2>2, <2>3, <2>4 DEF Init, Types
<1>2. ReloadInv BY DEF Init, ReloadInv, Reloading, LoadedIsCurrent
<1>3. CountInv BY DEF Init, CountInv
<1>4. BreakerInv BY DEF Init, BreakerInv, BreakerHolds
<1>5. StampInv BY DEF Init, StampInv
<1>6. RateCapsHold BY DEF Init, RateCapsHold
<1> QED BY <1>1, <1>2, <1>3, <1>4, <1>5, <1>6 DEF IndInv

LEMMA NextTypes == Types /\ [Next]_vars => Types'
<1> SUFFICES ASSUME Types, [Next]_vars PROVE Types' OBVIOUS
<1> USE LimitAssumption DEF Types, Goto, disk, engine, reload, counters, history, Label
<1>1. CASE Tick BY <1>1 DEF Tick
<1>2. CASE Edit BY <1>2 DEF Edit
<1>3. ASSUME NEW t \in Thread, CheckMtime(t) PROVE Types' BY <1>3 DEF CheckMtime
<1>4. ASSUME NEW t \in Thread, StatFile(t) \/ CheckFails(t) \/ Choose(t) \/ PassBroken(t)
      PROVE  Types'
  BY <1>4 DEF StatFile, CheckFails, Choose, PassBroken
<1>5. ASSUME NEW t \in Thread, ReadFile(t) \/ SkipFile(t) PROVE Types'
  BY <1>5 DEF ReadFile, SkipFile, Loaded
<1>6. ASSUME NEW t \in Thread, AssignPatterns(t) PROVE Types' BY <1>6 DEF AssignPatterns
<1>7. ASSUME NEW t \in Thread, AssignMtimes(t) PROVE Types'
  BY <1>7 DEF AssignMtimes, Loaded, Content
<1>8. ASSUME NEW t \in Thread, PassUnarmed(t) PROVE Types' BY <1>8 DEF PassUnarmed
<1>9. ASSUME NEW t \in Thread, PassCapped(t) PROVE Types' BY <1>9 DEF PassCapped
<1>10. ASSUME NEW t \in Thread, Arm(t) PROVE Types' BY <1>10 DEF Arm
<1>11. Limit \in Nat /\ Pause \in Nat BY DEF Limit, Pause
<1>12. ASSUME NEW t \in Thread, ReportSuccess(t) PROVE Types'
  BY <1>11, <1>12 DEF ReportSuccess, Reported, Report
<1>13. ASSUME NEW t \in Thread, ReportFailure(t) PROVE Types'
  BY <1>11, <1>13 DEF ReportFailure, Reported, Report
<1>14. CASE UNCHANGED vars BY <1>14 DEF vars
<1> QED
  BY <1>1, <1>2, <1>3, <1>4, <1>5, <1>6, <1>7, <1>8, <1>9, <1>10, <1>12, <1>13, <1>14 DEF Next

-----------------------------------------------------------------------------
(* The rate caps: what a window holds of the stamps, it holds of the arms. *)

(* Sets of numbers have a least one: the only induction needed here. *)
LEMMA LeastNumber ==
  ASSUME NEW S \in SUBSET Nat, S # {}
  PROVE  \E x \in S : \A y \in S : x <= y
<1>1. IsWellFoundedOn(OpToRel(<, Nat), Nat) BY NatLessThanWellFounded
<1>2. PICK x \in S : \A y \in S : ~ (<<y, x>> \in OpToRel(<, Nat)) BY <1>1, WFMin
<1>3. \A y \in S : ~ (y < x) BY <1>2 DEF OpToRel
<1> QED BY <1>3

(* The stamps ascend, so the fresh ones are the last ones. *)
LEMMA FreshAreLast ==
  ASSUME Types, StampInv, NEW span \in Nat
  PROVE  \E m \in 0..Len(stamps) :
           /\ Fresh(span) = (m + 1)..Len(stamps)
           /\ \A k \in 1..m : stamps[k] + span <= clock
<1>0. PICK n \in Nat : n = Len(stamps) BY DEF StampInv
<1>1. PICK a \in Nat : a = Len(arms) BY DEF Types
<1>2. \A k \in 1..n : stamps[k] \in Nat BY <1>0, SeqElement DEF StampInv
<1>3. DOMAIN stamps = 1..n /\ clock \in Nat BY <1>0 DEF StampInv, Types
<1>4. ASSUME NEW j \in 1..n, NEW k \in 1..n, j <= k PROVE stamps[j] <= stamps[k]
  <2>0. n <= a BY <1>0, <1>1 DEF StampInv
  <2>1. PICK d \in Nat : d = a - n BY <2>0
  <2>2. d + j \in 1..a /\ d + k \in 1..a /\ d + j <= d + k BY <1>4, <2>1
  <2>3. stamps[j] = arms[d + j].time /\ stamps[k] = arms[d + k].time
    BY <1>0, <1>1, <2>1 DEF StampInv
  <2> QED BY <1>1, <2>2, <2>3 DEF StampInv
<1>5. ASSUME NEW m \in 0..n, \A k \in 1..n : k \in Fresh(span) <=> k > m
      PROVE  Fresh(span) = (m + 1)..n /\ \A k \in 1..m : stamps[k] + span <= clock
  <2>1. Fresh(span) \subseteq 1..n BY <1>3 DEF Fresh
  <2>2. Fresh(span) = (m + 1)..n
    <3>1. Fresh(span) \subseteq (m + 1)..n BY <1>5, <2>1
    <3>2. (m + 1)..n \subseteq Fresh(span) BY <1>5
    <3> QED BY <3>1, <3>2
  <2>3. ASSUME NEW k \in 1..m PROVE stamps[k] + span <= clock
    <3>1. k \in 1..n /\ k \notin Fresh(span) BY <1>5
    <3>2. ~ (stamps[k] + span > clock) BY <1>3, <3>1 DEF Fresh
    <3> QED BY <1>2, <1>3, <3>1, <3>2
  <2> QED BY <2>2, <2>3
<1>6. CASE Fresh(span) = {}
  <2>1. \A k \in 1..n : k \in Fresh(span) <=> k > n BY <1>6
  <2>2. n \in 0..n OBVIOUS
  <2> QED BY <1>0, <1>5, <2>1, <2>2
<1>7. CASE Fresh(span) # {}
  <2>1. Fresh(span) \in SUBSET Nat BY <1>3 DEF Fresh
  <2>2. PICK i \in Fresh(span) : \A j \in Fresh(span) : i <= j BY <1>7, <2>1, LeastNumber
  <2>3. i \in 1..n /\ stamps[i] + span > clock BY <1>3, <2>2 DEF Fresh
  <2>4. \A k \in i..n : k \in Fresh(span)
    <3> SUFFICES ASSUME NEW k \in i..n PROVE k \in Fresh(span) OBVIOUS
    <3>1. k \in 1..n /\ i <= k BY <2>3
    <3>2. stamps[i] <= stamps[k] BY <1>4, <2>3, <3>1
    <3>3. stamps[k] + span > clock BY <1>2, <1>3, <2>3, <3>1, <3>2
    <3> QED BY <1>3, <3>1, <3>3 DEF Fresh
  <2>5. \A k \in 1..n : k \in Fresh(span) <=> k > i - 1 BY <2>2, <2>3, <2>4
  <2>6. i - 1 \in 0..n BY <2>3
  <2> QED BY <1>0, <1>5, <2>5, <2>6
<1> QED BY <1>6, <1>7

(* Picking the last positions of a sequence is dropping the first. *)
LEMMA PickedSuffix ==
  ASSUME NEW s, NEW n \in Nat, NEW m \in 0..n
  PROVE  /\ Cardinality((m + 1)..n) = n - m
         /\ Picked(s, (m + 1)..n) = [k \in 1..(n - m) |-> s[m + k]]
<1> DEFINE P == (m + 1)..n
<1>0. \A i \in m..n : Cardinality((m + 1)..i) = i - m
  <2> SUFFICES ASSUME NEW i \in m..n PROVE Cardinality((m + 1)..i) = i - m OBVIOUS
  <2>1. i \in Int /\ m + 1 \in Int OBVIOUS
  <2>2. Cardinality((m + 1)..i) = IF m + 1 > i THEN 0 ELSE i - (m + 1) + 1
    BY <2>1, FS_Interval
  <2> QED BY <2>2
<1>1. Cardinality(P) = n - m BY <1>0
<1>2. ASSUME NEW k \in 1..(n - m) PROVE Kth(P, k) = m + k
  <2>1. ASSUME NEW i \in P PROVE Cardinality({j \in P : j <= i}) = i - m
    <3>1. {j \in P : j <= i} = (m + 1)..i OBVIOUS
    <3>2. i \in m..n OBVIOUS
    <3> QED BY <1>0, <3>1, <3>2
  <2>2. m + k \in P OBVIOUS
  <2>3. \A i \in P : i \in Int OBVIOUS
  <2> HIDE DEF P
  <2>4. \A i \in P : Cardinality({j \in P : j <= i}) = k <=> i = m + k
    BY <2>1, <2>3
  <2> QED BY <2>2, <2>4 DEF Kth
<1>3. Picked(s, P) = [k \in 1..(n - m) |-> s[m + k]]
  <2> HIDE DEF P
  <2> QED BY <1>1, <1>2 DEF Picked
<1> QED BY <1>1, <1>3

(* match() leaves the stamps of the last day, and counts those of a shorter span. *)
LEMMA PrunedStamps ==
  ASSUME Types, StampInv
  PROVE  \E m \in 0..Len(stamps) :
           /\ Since(Day) = [k \in 1..(Len(stamps) - m) |-> stamps[m + k]]
           /\ \A k \in 1..m : stamps[k] + Day <= clock
<1>1. PICK m \in 0..Len(stamps) :
        Fresh(Day) = (m + 1)..Len(stamps) /\ \A k \in 1..m : stamps[k] + Day <= clock
  BY LimitAssumption, FreshAreLast
<1>2. PICK n \in Nat : n = Len(stamps) BY DEF StampInv
<1>3. Picked(stamps, (m + 1)..n) = [k \in 1..(n - m) |-> stamps[m + k]]
  BY <1>2, PickedSuffix
<1>4. Since(Day) = [k \in 1..(Len(stamps) - m) |-> stamps[m + k]]
  BY <1>1, <1>2, <1>3 DEF Since
<1> QED BY <1>1, <1>4

(* Dropping stamps that are a day old, and perhaps stamping an arm now, keeps the invariant. *)
LEMMA PruningKeepsStamps ==
  ASSUME Types, StampInv, stamps' = Since(Day), UNCHANGED <<clock, arms>>
  PROVE  StampInv'
<1>1. PICK n \in Nat : n = Len(stamps) BY DEF StampInv
<1>2. PICK a \in Nat : a = Len(arms) BY DEF Types
<1>3. PICK m \in 0..n :
        /\ stamps' = [k \in 1..(n - m) |-> stamps[m + k]]
        /\ \A k \in 1..m : stamps[k] + Day <= clock
  BY <1>1, PrunedStamps
<1>4. /\ n <= a
      /\ \A k \in 1..n : stamps[k] \in Nat /\ stamps[k] = arms[a - n + k].time
      /\ \A i \in 1..(a - n) : arms[i].time + Day <= clock
  BY <1>1, <1>2, SeqElement DEF StampInv
<1>5. n - m \in Nat /\ \A k \in 1..(n - m) : m + k \in 1..n OBVIOUS
<1>6. stamps' \in Seq(Nat) /\ Len(stamps') = n - m
  <2>1. PICK l \in Nat : l = n - m BY <1>5
  <2>2. \A k \in 1..l : stamps[m + k] \in Nat BY <1>4, <1>5, <2>1
  <2>3. stamps' = [k \in 1..l |-> stamps[m + k]] BY <1>3, <2>1
  <2> QED BY <2>1, <2>2, <2>3
<1>7. ASSUME NEW k \in 1..(n - m) PROVE stamps'[k] = arms[a - (n - m) + k].time
  <2>1. stamps'[k] = stamps[m + k] BY <1>3
  <2>2. stamps[m + k] = arms[a - n + (m + k)].time BY <1>4, <1>5
  <2>3. a - n + (m + k) = a - (n - m) + k OBVIOUS
  <2> QED BY <2>1, <2>2, <2>3
<1>8. ASSUME NEW i \in 1..(a - (n - m)) PROVE arms[i].time + Day <= clock
  <2>1. CASE i <= a - n BY <1>4, <2>1
  <2>2. CASE i > a - n
    <3>1. PICK k \in 1..m : i = a - n + k BY <1>4, <2>2
    <3>2. k \in 1..n BY <3>1
    <3> QED BY <1>3, <1>4, <3>1, <3>2
  <2> QED BY <1>4, <2>1, <2>2
<1>9. Len(stamps') \in Nat /\ Len(stamps') <= a BY <1>4, <1>6
<1>10. \A k \in 1..Len(stamps') : stamps'[k] = arms[a - Len(stamps') + k].time BY <1>6, <1>7
<1>11. \A i \in 1..(a - Len(stamps')) : arms[i].time + Day <= clock BY <1>6, <1>8
<1>12. /\ \A i \in 1..a : arms[i].time <= clock
       /\ \A i, j \in 1..a : i <= j => arms[i].time <= arms[j].time
  BY <1>2 DEF StampInv
<1>13. clock' = clock /\ arms' = arms OBVIOUS
<1> QED BY <1>2, <1>6, <1>9, <1>10, <1>11, <1>12, <1>13, Zenon DEF StampInv

LEMMA ArmKeepsStamps ==
  ASSUME Types, StampInv, NEW t \in Thread, Arm(t)
  PROVE  StampInv'
<1>1. PICK n \in Nat : n = Len(stamps) BY DEF StampInv
<1>2. PICK a \in Nat : a = Len(arms) BY DEF Types
<1>3. PICK m \in 0..n :
        /\ Since(Day) = [k \in 1..(n - m) |-> stamps[m + k]]
        /\ \A k \in 1..m : stamps[k] + Day <= clock
  BY <1>1, PrunedStamps
<1>4. /\ n <= a /\ clock \in Nat
      /\ \A k \in 1..n : stamps[k] \in Nat /\ stamps[k] = arms[a - n + k].time
      /\ \A i \in 1..(a - n) : arms[i].time + Day <= clock
      /\ \A i \in 1..a : arms[i].time <= clock
      /\ \A i, j \in 1..a : i <= j => arms[i].time <= arms[j].time
  BY <1>1, <1>2, SeqElement DEF StampInv, Types
<1>5. n - m \in Nat /\ \A k \in 1..(n - m) : m + k \in 1..n OBVIOUS
<1>6. Since(Day) \in Seq(Nat) /\ Len(Since(Day)) = n - m
  <2>1. PICK l \in Nat : l = n - m BY <1>5
  <2>2. \A k \in 1..l : stamps[m + k] \in Nat BY <1>4, <1>5, <2>1
  <2>3. Since(Day) = [k \in 1..l |-> stamps[m + k]] BY <1>3, <2>1
  <2> QED BY <2>1, <2>2, <2>3
<1>7. /\ stamps' = Append(Since(Day), clock) /\ clock' = clock
      /\ arms' = Append(arms, [time |-> clock, reports |-> Len(reports)])
  BY DEF Arm
<1>8. /\ stamps' \in Seq(Nat) /\ Len(stamps') = n - m + 1
      /\ \A k \in 1..(n - m) : stamps'[k] = stamps[m + k]
      /\ stamps'[n - m + 1] = clock
  BY <1>3, <1>4, <1>6, <1>7
<1>9. /\ Len(arms') = a + 1
      /\ \A i \in 1..a : arms'[i] = arms[i]
      /\ arms'[a + 1].time = clock
  BY <1>2, <1>7 DEF Types
<1>10. ASSUME NEW k \in 1..(n - m + 1)
       PROVE  stamps'[k] = arms'[a + 1 - (n - m + 1) + k].time
  <2>1. CASE k \in 1..(n - m)
    <3>1. a - n + (m + k) \in 1..a /\ a - n + (m + k) = a + 1 - (n - m + 1) + k
      BY <1>4, <2>1
    <3>2. stamps[m + k] = arms[a - n + (m + k)].time BY <1>4, <1>5, <2>1
    <3> QED BY <1>8, <1>9, <2>1, <3>1, <3>2
  <2>2. CASE k = n - m + 1
    <3>1. a + 1 - (n - m + 1) + k = a + 1 BY <2>2
    <3> QED BY <1>8, <1>9, <2>2, <3>1
  <2> QED BY <2>1, <2>2
<1>11. ASSUME NEW i \in 1..(a + 1 - (n - m + 1)) PROVE arms'[i].time + Day <= clock
  <2>0. i \in 1..a BY <1>4
  <2>1. CASE i <= a - n BY <1>4, <1>9, <2>0, <2>1
  <2>2. CASE i > a - n
    <3>0. i - (a - n) \in 1..m BY <1>4, <2>0, <2>2
    <3>1. PICK k \in 1..m : i = a - n + k BY <1>4, <2>0, <3>0
    <3>2. k \in 1..n BY <3>1
    <3> QED BY <1>3, <1>4, <1>9, <2>0, <3>1, <3>2
  <2> QED BY <1>4, <2>1, <2>2
<1>12. ASSUME NEW i \in 1..(a + 1) PROVE arms'[i].time <= clock
  <2>1. CASE i \in 1..a BY <1>4, <1>9, <2>1
  <2>2. CASE i = a + 1 BY <1>4, <1>9, <2>2
  <2> QED BY <2>1, <2>2
<1>13. ASSUME NEW i \in 1..(a + 1), NEW j \in 1..(a + 1), i <= j
       PROVE  arms'[i].time <= arms'[j].time
  <2>1. CASE j \in 1..a BY <1>4, <1>9, <1>13, <2>1
  <2>2. CASE j = a + 1 BY <1>9, <1>12, <2>2
  <2> QED BY <2>1, <2>2
<1>14. n - m + 1 <= a + 1 BY <1>4
<1>15. clock' = clock BY <1>7
<1>16. \A i, j \in 1..(a + 1) : i <= j => arms'[i].time <= arms'[j].time BY <1>13
<1>17. \A i \in 1..(a + 1 - (n - m + 1)) : arms'[i].time + Day <= clock BY <1>11
<1>18. \A k \in 1..(n - m + 1) : stamps'[k] = arms'[a + 1 - (n - m + 1) + k].time BY <1>10
<1>19. \A i \in 1..(a + 1) : arms'[i].time <= clock BY <1>12
<1> QED BY <1>8, <1>9, <1>14, <1>15, <1>16, <1>17, <1>18, <1>19 DEF StampInv

(* The window that ends with a new arm holds that arm and those with a fresh stamp. *)
LEMMA WindowCount ==
  ASSUME Types, StampInv, NEW span \in Nat, span <= Day,
         NEW t \in Thread, Arm(t)
  PROVE  Cardinality(ArmedWithin(Len(arms), span)') <= Cardinality(Fresh(span)) + 1
<1>1. PICK n \in Nat : n = Len(stamps) BY DEF StampInv
<1>2. PICK a \in Nat : a = Len(arms) BY DEF Types
<1>3. PICK m \in 0..n :
        Fresh(span) = (m + 1)..n /\ \A k \in 1..m : stamps[k] + span <= clock
  BY <1>1, FreshAreLast
<1>4. /\ n <= a /\ clock \in Nat /\ Day \in Nat
      /\ \A k \in 1..n : stamps[k] = arms[a - n + k].time
      /\ \A i \in 1..(a - n) : arms[i].time + Day <= clock
  BY <1>1, <1>2, LimitAssumption DEF StampInv, Types
<1>5. \A i \in 1..a : arms'[i] = arms[i] /\ arms[i].time \in Nat
  BY <1>2, Elements DEF Types, Arm
<1>6. arms'[a + 1].time = clock BY <1>2 DEF Arm, Types
<1>7. PICK d \in Nat : d = a - n BY <1>4
<1>8. ArmedWithin(a + 1, span)' \subseteq (d + m + 1)..(a + 1)
  <2> SUFFICES ASSUME NEW i \in 1..(d + m) PROVE ~ (arms'[i].time + span > clock)
    BY <1>6, <1>7 DEF ArmedWithin
  <2>0. i \in 1..a BY <1>7
  <2>1. CASE i <= d
    <3>1. arms[i].time + Day <= clock BY <1>4, <1>7, <2>1
    <3> QED BY <1>4, <1>5, <2>0, <3>1
  <2>2. CASE i > d
    <3>1. PICK k \in 1..m : i = d + k BY <2>2
    <3>2. k \in 1..n BY <3>1
    <3>3. stamps[k] = arms[i].time BY <1>4, <1>7, <3>1, <3>2
    <3>4. stamps[k] + span <= clock BY <1>3, <3>1
    <3> QED BY <1>4, <1>5, <2>0, <3>3, <3>4
  <2> QED BY <2>1, <2>2
<1>9. Cardinality(Fresh(span)) = n - m BY <1>3, PickedSuffix
<1>10. /\ IsFiniteSet((d + m + 1)..(a + 1))
       /\ Cardinality((d + m + 1)..(a + 1)) = n - m + 1
  <2>1. d + m + 1 \in Int /\ a + 1 \in Int OBVIOUS
  <2>2. Cardinality((d + m + 1)..(a + 1))
          = IF d + m + 1 > a + 1 THEN 0 ELSE (a + 1) - (d + m + 1) + 1
    BY <2>1, FS_Interval
  <2> QED BY <1>4, <1>7, <2>1, <2>2, FS_Interval
<1>11. Cardinality(ArmedWithin(a + 1, span)') <= n - m + 1
  BY <1>8, <1>10, FS_Subset
<1>12. Len(arms') = a + 1 BY <1>2 DEF Arm, Types
<1>13. ArmedWithin(Len(arms), span)' = ArmedWithin(a + 1, span)' BY <1>12 DEF ArmedWithin
<1> QED BY <1>9, <1>11, <1>13

LEMMA ArmKeepsCaps ==
  ASSUME Types, StampInv, RateCapsHold, NEW t \in Thread, Arm(t)
  PROVE  RateCapsHold'
<1>1. PICK a \in Nat : a = Len(arms) BY DEF Types
<1>2. DOMAIN arms' = 1..(a + 1) /\ \A i \in 1..a : arms'[i] = arms[i]
  BY <1>1 DEF Arm, Types
<1>3. ASSUME NEW i \in DOMAIN arms', i # a + 1
      PROVE  /\ HourCap > 0 => Cardinality(ArmedWithin(i, Hour)') <= HourCap
             /\ DayCap > 0 => Cardinality(ArmedWithin(i, Day)') <= DayCap
  <2>1. i \in 1..a BY <1>2, <1>3
  <2>2. ASSUME NEW span PROVE ArmedWithin(i, span)' = ArmedWithin(i, span)
    BY <1>2, <2>1 DEF ArmedWithin
  <2>3. i \in DOMAIN arms BY <1>1, <2>1 DEF Types
  <2> QED BY <2>2, <2>3 DEF RateCapsHold
<1>4. /\ HourCap > 0 => Cardinality(ArmedWithin(a + 1, Hour)') <= HourCap
      /\ DayCap > 0 => Cardinality(ArmedWithin(a + 1, Day)') <= DayCap
  <2>1. \A span \in {Hour, Day} : Cardinality(Fresh(span)) \in Nat
    <3> SUFFICES ASSUME NEW span \in {Hour, Day} PROVE Cardinality(Fresh(span)) \in Nat
      OBVIOUS
    <3>1. PICK n \in Nat : n = Len(stamps) BY DEF StampInv
    <3>2. span \in Nat BY LimitAssumption
    <3>3. PICK m \in 0..n : Fresh(span) = (m + 1)..n BY <3>1, <3>2, FreshAreLast
    <3>4. Cardinality(Fresh(span)) = n - m BY <3>3, PickedSuffix
    <3> QED BY <3>4
  <2>2. \A span \in {Hour, Day} :
          Cardinality(ArmedWithin(a + 1, span)') <= Cardinality(Fresh(span)) + 1
    <3> SUFFICES ASSUME NEW span \in {Hour, Day}
                 PROVE  Cardinality(ArmedWithin(a + 1, span)') <= Cardinality(Fresh(span)) + 1
      OBVIOUS
    <3>1. span \in Nat /\ span <= Day BY LimitAssumption
    <3>2. Cardinality(ArmedWithin(Len(arms), span)') <= Cardinality(Fresh(span)) + 1
      BY <3>1, WindowCount
    <3>3. Len(arms') = a + 1 BY <1>1 DEF Arm, Types
    <3>4. ArmedWithin(Len(arms), span)' = ArmedWithin(a + 1, span)' BY <3>3 DEF ArmedWithin
    <3> QED BY <3>2, <3>4
  <2>3. /\ HourCap > 0 => Cardinality(Fresh(Hour)) < HourCap
        /\ DayCap > 0 => Cardinality(Fresh(Day)) < DayCap
    BY <2>1, LimitAssumption DEF Arm, Capped
  <2>4. \A span \in {Hour, Day} : Cardinality(ArmedWithin(a + 1, span)') \in Nat
    <3>1. ASSUME NEW span PROVE ArmedWithin(a + 1, span)' \subseteq 1..(a + 1)
      BY DEF ArmedWithin
    <3>2. IsFiniteSet(1..(a + 1)) BY FS_Interval
    <3> QED BY <3>1, <3>2, FS_Subset, FS_CardinalityType
  <2> QED BY <2>1, <2>2, <2>3, <2>4, LimitAssumption
<1> QED BY <1>3, <1>4 DEF RateCapsHold

LEMMA NextStamps ==
  Types /\ StampInv /\ RateCapsHold /\ [Next]_vars => StampInv' /\ RateCapsHold'
<1> SUFFICES ASSUME Types, StampInv, RateCapsHold, [Next]_vars
             PROVE  StampInv' /\ RateCapsHold'
  OBVIOUS
<1>1. ASSUME UNCHANGED arms PROVE RateCapsHold'
  BY <1>1 DEF RateCapsHold, ArmedWithin
<1>2. ASSUME UNCHANGED <<stamps, arms>>, clock' \in Nat, clock' >= clock
      PROVE  StampInv' /\ RateCapsHold'
  <2>1. \A i \in 1..Len(arms) : arms[i].time \in Nat BY Elements
  <2>2. Len(stamps) \in Nat /\ Len(arms) \in Nat /\ clock \in Nat /\ Day \in Nat
    BY LimitAssumption DEF StampInv, Types
  <2>3. \A i \in 1..Len(arms) : arms[i].time <= clock'
    BY <1>2, <2>1, <2>2 DEF StampInv
  <2>4. \A i \in 1..(Len(arms) - Len(stamps)) : arms[i].time + Day <= clock'
    <3> SUFFICES ASSUME NEW i \in 1..(Len(arms) - Len(stamps))
                 PROVE  arms[i].time + Day <= clock'
      OBVIOUS
    <3>1. i \in 1..Len(arms) BY <2>2
    <3>2. arms[i].time + Day <= clock BY DEF StampInv
    <3> QED BY <1>2, <2>1, <2>2, <3>1, <3>2
  <2> QED BY <1>1, <1>2, <2>3, <2>4 DEF StampInv
<1>3. ASSUME NEW t \in Thread, Arm(t) PROVE StampInv' /\ RateCapsHold'
  BY <1>3, ArmKeepsStamps, ArmKeepsCaps
<1>4. ASSUME NEW t \in Thread, PassCapped(t) PROVE StampInv' /\ RateCapsHold'
  <2>1. stamps' = Since(Day) /\ UNCHANGED <<clock, arms>>
    BY <1>4 DEF PassCapped, history
  <2> QED BY <1>1, <2>1, PruningKeepsStamps
<1>5. CASE Tick BY <1>2, <1>5 DEF Tick, counters, history, Types
<1>6. CASE Edit BY <1>2, <1>6 DEF Edit, counters, history, Types
<1>7. ASSUME NEW t \in Thread,
             \/ CheckMtime(t) \/ CheckFails(t) \/ StatFile(t) \/ ReadFile(t) \/ SkipFile(t)
             \/ AssignPatterns(t) \/ AssignMtimes(t) \/ PassUnarmed(t) \/ Choose(t)
             \/ PassBroken(t) \/ ReportSuccess(t) \/ ReportFailure(t)
      PROVE  StampInv' /\ RateCapsHold'
  <2>1. UNCHANGED <<clock, arms, stamps>>
    BY <1>7 DEF CheckMtime, CheckFails, StatFile, ReadFile, SkipFile, AssignPatterns,
                AssignMtimes, PassUnarmed, Choose, PassBroken, ReportSuccess, ReportFailure, Reported, counters, history
  <2> QED BY <1>2, <2>1 DEF Types
<1>8. CASE UNCHANGED vars BY <1>2, <1>8 DEF vars, counters, history, Types
<1> QED BY <1>3, <1>4, <1>5, <1>6, <1>7, <1>8 DEF Next

-----------------------------------------------------------------------------
(* The reload: a step of a reload moves it on; an edit leaves its stat behind. *)
LEMMA ReloadKept ==
  ASSUME Types, ReloadInv, UNCHANGED <<disk, engine, stat, content, raced>>,
         NEW t \in Thread, NEW label \in {"idle", "match", "lock", "running"},
         pc[t] \in {"idle", "match", "lock", "running"}, pc' = [pc EXCEPT ![t] = label]
  PROVE  ReloadInv'
<1>1. Reloading' = Reloading BY DEF Reloading, Types
<1>2. \A s \in Reloading : pc'[s] = pc[s] BY DEF Reloading, Types
<1> QED BY <1>1, <1>2 DEF ReloadInv, LoadedIsCurrent, disk, engine

LEMMA NextReload == Types /\ ReloadInv /\ [Next]_vars => ReloadInv'
<1> SUFFICES ASSUME Types, ReloadInv, [Next]_vars PROVE ReloadInv' OBVIOUS
<1> USE DEF Goto, disk, engine, reload
<1>1. CASE Tick BY <1>1 DEF Tick, ReloadInv, Reloading, LoadedIsCurrent
<1>2. CASE Edit BY <1>2 DEF Edit, ReloadInv, Reloading, LoadedIsCurrent, Types
<1>3. ASSUME NEW t \in Thread, CheckMtime(t) PROVE ReloadInv'
  <2>1. CASE tracked = mtime
    BY <1>3, <2>1, ReloadKept DEF CheckMtime, Types
  <2>2. CASE tracked # mtime
    <3> SUFFICES ASSUME ~raced' PROVE ReloadInv' BY DEF ReloadInv
    <3>0. ~raced /\ Reloading = {}
      BY <1>3, <2>2, Zenon DEF CheckMtime
    <3>1. /\ ~raced /\ Reloading = {} /\ tracked < mtime
          /\ pc' = [pc EXCEPT ![t] = "load"] /\ UNCHANGED <<mtime, file, tracked, loaded>>
      BY <1>3, <2>2, <3>0 DEF CheckMtime, ReloadInv, Types
    <3>2. Reloading' = {t} /\ pc'[t] = "load" BY <3>1 DEF Reloading, Types
    <3>3. stat' = stat /\ \A s \in Thread : stat[s] = 0
      BY <1>3, <3>1 DEF CheckMtime, ReloadInv, Reloading
    <3> QED BY <3>1, <3>2, <3>3 DEF ReloadInv, LoadedIsCurrent, Types
  <2> QED BY <2>1, <2>2
<1>4. ASSUME NEW t \in Thread, StatFile(t) PROVE ReloadInv'
  BY <1>4 DEF StatFile, ReloadInv, Reloading, LoadedIsCurrent, Types
<1>5. ASSUME NEW t \in Thread, ReadFile(t) \/ SkipFile(t) PROVE ReloadInv'
  <2>1. /\ pc[t] \in {"load", "read"} /\ pc' = [pc EXCEPT ![t] = "patterns"]
        /\ \E c \in {file, "unread"} : content' = [content EXCEPT ![t] = c]
        /\ UNCHANGED <<mtime, file, tracked, loaded, stat, raced>>
    BY <1>5 DEF ReadFile, SkipFile
  <2>2. Reloading' = Reloading /\ t \in Reloading BY <2>1 DEF Reloading, Types
  <2> QED BY <2>1, <2>2 DEF ReloadInv, LoadedIsCurrent, Types
<1>6. ASSUME NEW t \in Thread, AssignPatterns(t) PROVE ReloadInv'
  BY <1>6 DEF AssignPatterns, ReloadInv, Reloading, LoadedIsCurrent, Types
<1>7. ASSUME NEW t \in Thread, AssignMtimes(t) PROVE ReloadInv'
  BY <1>7 DEF AssignMtimes, ReloadInv, Reloading, LoadedIsCurrent, Types
<1>8. ASSUME NEW t \in Thread, PassUnarmed(t) \/ CheckFails(t) \/ Choose(t) \/ PassBroken(t)
      PROVE  ReloadInv'
  BY <1>8, ReloadKept DEF PassUnarmed, CheckFails, Choose, PassBroken
<1>9. ASSUME NEW t \in Thread, PassCapped(t) PROVE ReloadInv'
  BY <1>9, ReloadKept DEF PassCapped
<1>10. ASSUME NEW t \in Thread, Arm(t) PROVE ReloadInv'
  BY <1>10, ReloadKept DEF Arm
<1>11. ASSUME NEW t \in Thread, ReportSuccess(t) PROVE ReloadInv'
  BY <1>11, ReloadKept DEF ReportSuccess, Reported
<1>12. ASSUME NEW t \in Thread, ReportFailure(t) PROVE ReloadInv'
  BY <1>12, ReloadKept DEF ReportFailure, Reported
<1>13. CASE UNCHANGED vars BY <1>13 DEF vars, ReloadInv, Reloading, LoadedIsCurrent
<1> QED
  BY <1>1, <1>2, <1>3, <1>4, <1>5, <1>6, <1>7, <1>8, <1>9, <1>10, <1>11, <1>12, <1>13 DEF Next

-----------------------------------------------------------------------------
(* The breaker: only reports and arms matter, and the clock only advances. *)

(* A report in a row stays one: later reports are appended. *)
LEMMA RowsStay ==
  ASSUME Types, NEW r \in Report, reports' = Append(reports, r),
         \A i \in 1..Len(reports) : reports[i].threshold > 0
  PROVE  /\ Len(reports') = Len(reports) + 1
         /\ \A i \in 1..Len(reports) : reports'[i] = reports[i]
         /\ reports'[Len(reports) + 1] = r
         /\ \A i \in 1..Len(reports) : InARow(i)' <=> InARow(i)
<1>1. /\ Len(reports') = Len(reports) + 1
      /\ \A i \in 1..Len(reports) : reports'[i] = reports[i]
      /\ reports'[Len(reports) + 1] = r
  BY DEF Types
<1>2. ASSUME NEW i \in 1..Len(reports) PROVE InARow(i)' <=> InARow(i)
  <2>1. reports[i].threshold \in Nat /\ reports[i].threshold > 0 /\ Len(reports) \in Nat
    BY Elements DEF Types
  <2>2. ASSUME i >= reports[i].threshold
        PROVE  (i - reports[i].threshold + 1)..i \subseteq 1..Len(reports)
    BY <2>1, <2>2
  <2> QED BY <1>1, <2>1, <2>2 DEF InARow
<1> QED BY <1>1, <1>2

LEMMA CountStays ==
  ASSUME Types, CountInv, BreakerInv, NEW r \in Report, reports' = Append(reports, r),
         failures' = IF r.ok THEN 0 ELSE failures + 1
  PROVE  CountInv'
<1> DEFINE n == Len(reports)
<1>1. /\ n \in Nat /\ Len(reports') = n + 1
      /\ \A i \in 1..n : reports'[i] = reports[i]
      /\ reports'[n + 1] = r
  BY RowsStay DEF Types, BreakerInv
<1>2. failures \in Nat /\ failures <= n BY DEF Types, CountInv
<1>3. CASE r.ok
  BY <1>1, <1>3 DEF CountInv
<1>4. CASE ~r.ok
  <2>1. failures' = failures + 1 BY <1>4
  <2>2. ASSUME NEW j \in 1..(n + 1), j > n + 1 - failures' PROVE ~reports'[j].ok
    <3>1. CASE j = n + 1 BY <1>1, <1>4, <3>1
    <3>2. CASE j \in 1..n BY <1>1, <1>2, <2>1, <2>2, <3>2 DEF CountInv
    <3> QED BY <3>1, <3>2, <1>1
  <2>3. ASSUME NEW k \in 1..(n + 1), \A j \in k..(n + 1) : ~reports'[j].ok
        PROVE  failures' > n + 1 - k
    <3>1. CASE k = n + 1 BY <1>1, <1>2, <2>1, <3>1
    <3>2. CASE k \in 1..n
      <4>1. \A j \in k..n : ~reports[j].ok BY <1>1, <2>3, <3>2
      <4>2. failures > n - k BY <3>2, <4>1 DEF CountInv
      <4> QED BY <1>1, <1>2, <2>1, <3>2, <4>2
    <3> QED BY <3>1, <3>2, <1>1
  <2> QED BY <1>1, <1>2, <2>1, <2>2, <2>3 DEF CountInv
<1> QED BY <1>3, <1>4

(* A report keeps the breaker: a success does not touch it, a failure may start it anew. *)
LEMMA ReportKeepsBreaker ==
  ASSUME Types, Types', CountInv, CountInv', BreakerInv, NEW r \in Report,
         reports' = Append(reports, r), r.time = clock, r.threshold > 0,
         \/ r.ok /\ UNCHANGED disabledUntil
         \/ /\ ~r.ok /\ failures' = failures + 1
            /\ disabledUntil' = IF failures' >= r.threshold THEN clock + r.pause
                                                            ELSE disabledUntil,
         UNCHANGED <<clock, arms>>
  PROVE  BreakerInv'
<1>0. PICK n \in Nat : n = Len(reports) BY DEF Types
<1>1. /\ n \in Nat /\ Len(reports') = n + 1
      /\ \A i \in 1..n : reports'[i] = reports[i]
      /\ reports'[n + 1] = r
      /\ \A i \in 1..n : InARow(i)' <=> InARow(i)
  BY <1>0, RowsStay DEF BreakerInv
<1>2. /\ clock \in Nat /\ disabledUntil \in Nat /\ failures \in Nat
      /\ r.time \in Nat /\ r.threshold \in Nat /\ r.pause \in Nat
      /\ \A i \in 1..n : reports[i].time \in Nat /\ reports[i].pause \in Nat
      /\ \A a \in 1..Len(arms) : arms[a].reports \in Nat
  BY <1>0, Elements DEF Types, Report
<1>3. \A i \in 1..(n + 1) : reports'[i].time <= clock' /\ reports'[i].threshold > 0
  <2> SUFFICES ASSUME NEW i \in 1..(n + 1)
               PROVE  reports'[i].time <= clock' /\ reports'[i].threshold > 0
    OBVIOUS
  <2>1. CASE i = n + 1 BY <1>1, <1>2, <2>1
  <2>2. CASE i \in 1..n BY <1>0, <1>1, <2>2 DEF BreakerInv
  <2> QED BY <1>1, <2>1, <2>2
<1>m. PICK m \in Nat : m = Len(reports') /\ m = n + 1 BY <1>1
<1>a. InARow(m)' <=>
        /\ m >= r.threshold
        /\ \A j \in (m - r.threshold + 1)..m : ~reports'[j].ok
  <2>1. InARow(m)' <=>
          /\ m >= reports'[m].threshold
          /\ \A j \in (m - reports'[m].threshold + 1)..m : ~reports'[j].ok
    BY DEF InARow
  <2>2. reports'[m].threshold = r.threshold BY <1>1, <1>m
  <2> QED BY <2>1, <2>2, Zenon
<1>b. \A j \in 1..m : j > m - failures' => ~reports'[j].ok
  BY <1>m, Zenon DEF CountInv
(* The new report trips exactly when the breaker's pause is set by it. *)
<1>4. InARow(m)' <=> ~r.ok /\ failures' >= r.threshold
  <2>0. failures' \in Nat /\ failures' <= m BY <1>m DEF CountInv, Types
  <2>1. ASSUME InARow(m)' PROVE ~r.ok /\ failures' >= r.threshold
    <3>1. /\ m >= r.threshold
          /\ \A j \in (m - r.threshold + 1)..m : ~reports'[j].ok
      BY <1>a, <2>1, Zenon
    <3>2. m - r.threshold + 1 \in 1..m BY <1>2, <3>1
    <3>3. \A k \in 1..m : (\A j \in k..m : ~reports'[j].ok) => failures' > m - k
      BY <1>m, Zenon DEF CountInv
    <3>4. failures' > m - (m - r.threshold + 1) BY <3>1, <3>2, <3>3
    <3>5. m \in (m - r.threshold + 1)..m BY <1>2, <3>1
    <3>6. ~reports'[m].ok BY <3>1, <3>5, Zenon
    <3> QED BY <1>1, <1>2, <1>m, <2>0, <3>4, <3>6
  <2>2. ASSUME ~r.ok, failures' >= r.threshold PROVE InARow(m)'
    <3>1. m >= r.threshold BY <1>2, <2>0, <2>2
    <3>2. ASSUME NEW j \in (m - r.threshold + 1)..m PROVE ~reports'[j].ok
      <4>1. r.threshold \in Nat /\ failures' \in Nat BY <1>2, <2>0
      <4>2. j \in Int /\ j >= m - r.threshold + 1 /\ j <= m BY <4>1
      <4>3. PICK t \in Nat : t = r.threshold BY <4>1
      <4>4. PICK f \in Nat : f = failures' BY <4>1
      <4>5. f >= t /\ m >= t /\ j >= m - t + 1 BY <2>2, <3>1, <4>2, <4>3, <4>4
      <4>6. j \in 1..m /\ j > m - f BY <4>2, <4>5
      <4>7. j \in 1..m /\ j > m - failures' BY <4>4, <4>6
      <4> QED BY <1>b, <4>7
    <3> QED BY <1>a, <3>1, <3>2, Zenon
  <2> QED BY <2>1, <2>2
<1>5. ASSUME NEW i \in 1..(n + 1), InARow(i)' PROVE Held(i)'
  <2>1. CASE i = n + 1
    <3>1. disabledUntil' = clock + r.pause BY <1>4, <1>5, <1>m, <2>1
    <3> QED BY <1>1, <1>2, <2>1, <3>1 DEF Held
  <2>2. CASE i \in 1..n
    <3>1. InARow(i) /\ Held(i) BY <1>0, <1>1, <1>5, <2>2 DEF BreakerInv
    <3>2. CASE \E j \in 1..n : j > i /\ InARow(j) /\ reports[j].pause < reports[i].pause
      <4>1. PICK j \in 1..n : j > i /\ InARow(j) /\ reports[j].pause < reports[i].pause
        BY <3>2
      <4>2. /\ j \in 1..Len(reports') /\ j > i /\ InARow(j)'
            /\ reports'[j].pause < reports'[i].pause
        BY <1>1, <2>2, <4>1
      <4> QED BY <4>2 DEF Held
    <3>3. CASE disabledUntil >= reports[i].time + reports[i].pause
      <4>1. CASE UNCHANGED disabledUntil
        BY <1>1, <2>2, <3>3, <4>1 DEF Held
      <4>2. CASE disabledUntil' = clock + r.pause /\ InARow(m)'
        <5>1. reports[i].time <= clock BY <1>0, <2>2 DEF BreakerInv
        <5>2. CASE r.pause >= reports[i].pause
          <6>1. disabledUntil' >= reports[i].time + reports[i].pause
            BY <1>2, <2>2, <4>2, <5>1, <5>2
          <6> QED BY <1>1, <2>2, <6>1 DEF Held
        <5>3. CASE r.pause < reports[i].pause
          <6>1. /\ n + 1 \in 1..Len(reports') /\ n + 1 > i
                /\ reports'[n + 1].pause < reports'[i].pause
            BY <1>1, <2>2, <5>3
          <6> QED BY <1>m, <4>2, <6>1 DEF Held
        <5> QED BY <1>2, <2>2, <5>2, <5>3
      <4> QED BY <1>4, <4>1, <4>2
    <3> QED BY <1>0, <3>1, <3>2, <3>3 DEF Held
  <2> QED BY <1>1, <2>1, <2>2
<1>6. BreakerHolds'
  <2> SUFFICES ASSUME NEW a \in DOMAIN arms, NEW i \in Trips(a)'
               PROVE  \/ arms[a].time >= reports'[i].time + reports'[i].pause
                      \/ \E j \in Trips(a)' : j > i /\ reports'[j].pause < reports'[i].pause
    BY DEF BreakerHolds
  <2>1. a \in 1..Len(arms) BY SMTT(20) DEF Types
  <2>2. arms[a].reports <= n /\ arms[a].reports \in Nat
    BY <1>0, <1>2, <2>1 DEF BreakerInv
  <2>3. Trips(a)' = Trips(a)
    BY <1>1, <2>2 DEF Trips
  <2>4. \A j \in Trips(a) : j \in 1..n BY <1>1, <2>2 DEF Trips
  <2>5. \/ arms[a].time >= reports[i].time + reports[i].pause
        \/ \E j \in Trips(a) : j > i /\ reports[j].pause < reports[i].pause
    BY <2>3 DEF BreakerInv, BreakerHolds
  <2> QED BY <1>1, <2>3, <2>4, <2>5
<1>7. \A a \in 1..Len(arms') : arms'[a].reports <= Len(reports')
  BY <1>0, <1>1, <1>2 DEF BreakerInv
<1> QED BY <1>0, <1>1, <1>3, <1>5, <1>6, <1>7 DEF BreakerInv

(* An arm is not made while the breaker is on: what tripped it is over by then. *)
LEMMA ArmKeepsBreaker ==
  ASSUME Types, BreakerInv, NEW t \in Thread, Arm(t)
  PROVE  BreakerInv'
<1>0. PICK n \in Nat : n = Len(reports) BY DEF Types
<1> DEFINE arm == [time |-> clock, reports |-> n]
<1>1. /\ UNCHANGED <<clock, reports, disabledUntil>>
      /\ arms' = Append(arms, arm)
      /\ ~(clock < disabledUntil)
  BY <1>0 DEF Arm, history, Broken
<1>2. /\ n \in Nat /\ clock \in Nat /\ disabledUntil \in Nat
      /\ Len(arms) \in Nat /\ Len(arms') = Len(arms) + 1
      /\ \A a \in 1..Len(arms) : arms'[a] = arms[a]
      /\ arms'[Len(arms) + 1] = arm
      /\ DOMAIN arms' = 1..(Len(arms) + 1)
      /\ \A i \in 1..n : reports[i].time \in Nat /\ reports[i].pause \in Nat
      /\ \A a \in 1..Len(arms) : arms[a].reports \in Nat
  BY <1>0, <1>1, Elements DEF Types
<1>3. \A i \in 1..n : InARow(i)' <=> InARow(i) BY <1>1 DEF InARow
<1>4. \A i \in 1..n : Held(i)' <=> Held(i) BY <1>0, <1>1, <1>3 DEF Held
<1>5. ASSUME NEW a \in DOMAIN arms', NEW i \in Trips(a)'
      PROVE  \/ arms'[a].time >= reports[i].time + reports[i].pause
             \/ \E j \in Trips(a)' : j > i /\ reports[j].pause < reports[i].pause
  <2>1. CASE a \in 1..Len(arms)
    <3>1. Trips(a)' = Trips(a) BY <1>1, <1>2, <2>1 DEF Trips, InARow
    <3>2. a \in DOMAIN arms BY <2>1 DEF Types
    <3> QED BY <1>1, <1>2, <2>1, <3>1, <3>2 DEF BreakerInv, BreakerHolds
  <2>2. CASE a = Len(arms) + 1
    <3>1. Trips(a)' = {k \in 1..n : InARow(k)}
      BY <1>1, <1>2, <2>2 DEF Trips, InARow
    <3>2. i \in 1..n /\ InARow(i) /\ Held(i) BY <1>0, <3>1 DEF BreakerInv
    <3>3. arms'[a].time = clock BY <1>2, <2>2
    <3> QED BY <1>0, <1>1, <1>2, <3>1, <3>2, <3>3, SMTT(20) DEF Held
  <2> QED BY <1>2, <2>1, <2>2
<1>6. BreakerHolds' BY <1>1, <1>5 DEF BreakerHolds
<1>7. \A a \in 1..Len(arms') : arms'[a].reports <= Len(reports')
  <2> SUFFICES ASSUME NEW a \in 1..Len(arms') PROVE arms'[a].reports <= n
    BY <1>0, <1>1
  <2>1. CASE a = Len(arms) + 1 BY <1>2, <2>1
  <2>2. CASE a \in 1..Len(arms) BY <1>0, <1>2, <2>2 DEF BreakerInv
  <2> QED BY <1>2, <2>1, <2>2
<1> QED BY <1>0, <1>1, <1>3, <1>4, <1>6, <1>7 DEF BreakerInv

LEMMA NextBreaker == IndInv /\ [Next]_vars => CountInv' /\ BreakerInv'
<1> SUFFICES ASSUME IndInv, [Next]_vars PROVE CountInv' /\ BreakerInv' OBVIOUS
<1> USE DEF IndInv
<1>1. Types' BY NextTypes
<1>2. ASSUME UNCHANGED <<arms, reports, failures, disabledUntil>>,
             clock' \in Nat, clock' >= clock
      PROVE  CountInv' /\ BreakerInv'
  <2>1. CountInv' BY <1>2 DEF CountInv
  <2>2. \A i \in 1..Len(reports) : reports[i].time \in Nat BY Elements
  <2>3. \A i \in 1..Len(reports) : reports[i].time <= clock'
    BY <1>2, <2>2 DEF BreakerInv, Types
  <2>4. BreakerInv'
    BY <1>2, <2>3 DEF BreakerInv, BreakerHolds, Trips, InARow, Held
  <2> QED BY <2>1, <2>4
<1>3. Limit \in Nat \ {0} /\ Pause \in Nat
  BY LimitAssumption DEF Limit, Pause
<1>4. ASSUME NEW t \in Thread, ReportSuccess(t) PROVE CountInv' /\ BreakerInv'
  <2> DEFINE r == [ok |-> TRUE, time |-> clock, threshold |-> Limit, pause |-> Pause]
  <2>1. /\ r \in Report /\ reports' = Append(reports, r) /\ failures' = 0
        /\ UNCHANGED <<clock, arms, disabledUntil>>
    BY <1>3, <1>4 DEF ReportSuccess, Reported, Report, Types
  <2>2. r.ok /\ r.time = clock /\ r.threshold > 0 BY <1>3
  <2> HIDE DEF r
  <2>3. CountInv' BY <2>1, <2>2, CountStays
  <2>4. BreakerInv' BY <1>1, <2>1, <2>2, <2>3, ReportKeepsBreaker
  <2> QED BY <2>3, <2>4
<1>5. ASSUME NEW t \in Thread, ReportFailure(t) PROVE CountInv' /\ BreakerInv'
  <2> DEFINE r == [ok |-> FALSE, time |-> clock, threshold |-> Limit, pause |-> Pause]
  <2>1. /\ r \in Report /\ reports' = Append(reports, r) /\ failures' = failures + 1
        /\ disabledUntil' = IF failures' >= Limit THEN clock + Pause ELSE disabledUntil
        /\ UNCHANGED <<clock, arms>>
    BY <1>3, <1>5 DEF ReportFailure, Reported, Report, Types
  <2>2. /\ ~r.ok /\ r.time = clock /\ r.threshold > 0
        /\ r.threshold = Limit /\ r.pause = Pause
    BY <1>3
  <2> HIDE DEF r
  <2>3. CountInv' BY <2>1, <2>2, CountStays
  <2>4. BreakerInv' BY <1>1, <2>1, <2>2, <2>3, ReportKeepsBreaker
  <2> QED BY <2>3, <2>4
<1>6. ASSUME NEW t \in Thread, Arm(t) PROVE CountInv' /\ BreakerInv'
  <2>1. CountInv' BY <1>6 DEF Arm, CountInv
  <2> QED BY <1>6, <2>1, ArmKeepsBreaker
<1>7. CASE Tick BY <1>2, <1>7 DEF Tick, counters, history, Types
<1>8. CASE Edit BY <1>2, <1>8 DEF Edit, counters, history, Types
<1>9. ASSUME NEW t \in Thread,
             \/ CheckMtime(t) \/ CheckFails(t) \/ StatFile(t) \/ ReadFile(t) \/ SkipFile(t)
             \/ AssignPatterns(t) \/ AssignMtimes(t) \/ PassUnarmed(t) \/ Choose(t)
             \/ PassBroken(t) \/ PassCapped(t)
      PROVE  CountInv' /\ BreakerInv'
  <2>1. UNCHANGED <<clock, arms, reports, failures, disabledUntil>>
    BY <1>9 DEF CheckMtime, CheckFails, StatFile, ReadFile, SkipFile, AssignPatterns,
                AssignMtimes, PassUnarmed, Choose, PassBroken, PassCapped, counters, history
  <2> QED BY <1>2, <2>1 DEF Types
<1>10. CASE UNCHANGED vars BY <1>2, <1>10 DEF vars, counters, history, Types
<1> QED BY <1>4, <1>5, <1>6, <1>7, <1>8, <1>9, <1>10 DEF Next

LEMMA Inductive == Spec => []IndInv
<1>1. IndInv /\ [Next]_vars => IndInv'
  BY NextTypes, NextStamps, NextReload, NextBreaker DEF IndInv
<1> QED BY InitInv, <1>1, PTL DEF Spec

-----------------------------------------------------------------------------
(* The theorems. *)

(* The type invariant; that the stamps are times comes from what pruning leaves of them. *)
THEOREM TypeCorrect == Spec => []TypeOK
<1>1. IndInv => TypeOK BY DEF IndInv, Types, StampInv, TypeOK, Label, Report
<1> QED BY Inductive, <1>1, PTL

(* However calls interleave, no hour and no day holds more arms than its cap. *)
THEOREM RateCapsAreKept == Spec => []RateCapsHold
<1>1. IndInv => RateCapsHold BY DEF IndInv
<1> QED BY Inductive, <1>1, PTL

(* A tripped breaker keeps the pattern from being armed for its whole pause. *)
THEOREM BreakerIsHeld == Spec => []BreakerHolds
<1>1. IndInv => BreakerHolds BY DEF IndInv, BreakerInv
<1> QED BY Inductive, <1>1, PTL

(***************************************************************************)
(* Reloads that race aside, a pattern believed current is the file's, or   *)
(* missing because a load could not read that very file: no edit made      *)
(* while a load ran goes unnoticed.                                        *)
(***************************************************************************)
THEOREM LoadedIsTheFile == Spec => []CurrentUnlessRaced
<1>1. IndInv => CurrentUnlessRaced BY DEF IndInv, ReloadInv, CurrentUnlessRaced
<1> QED BY Inductive, <1>1, PTL

===============================================================================
