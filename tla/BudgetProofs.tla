----------------------------- MODULE BudgetProofs -----------------------------
(***************************************************************************)
(* Theorems about Budget for every number of threads and fingerprints and  *)
(* every setting of the limits.                                            *)
(*                                                                         *)
(* The argument: a window is what is left of its fingerprint's accepted    *)
(* calls once the oldest are dropped, it never outgrows RunawayMax, and a  *)
(* dropped reading is more than Window older than a time the clock has     *)
(* shown, which no later step can take back.                               *)
(***************************************************************************)
EXTENDS Budget, TLAPS, FiniteSetTheorems, Integers

(* Every reading was shown by the clock. *)
ClockInv ==
  /\ clock <= high
  /\ \A t \in Thread : now[t] <= high

(* The window of a fingerprint is the rest of its accepted calls. *)
WindowInv(f) ==
  /\ dropped[f] + Len(windows[f]) = Len(accepted[f])
  /\ \A j \in 1..Len(windows[f]) : accepted[f][dropped[f] + j].reading = windows[f][j]
  /\ Len(windows[f]) <= RunawayMax
  /\ \A i \in 1..dropped[f] : accepted[f][i].reading + Window < high

RunawayBoundFor(f) ==
  \A n \in DOMAIN accepted[f] :
    n > RunawayMax => accepted[f][n - RunawayMax].reading + Window < accepted[f][n].high

GuardInv == GuardEnabled => \A f \in Fp : WindowInv(f) /\ RunawayBoundFor(f)

Inv == TypeOK /\ ClockInv /\ GuardInv

-----------------------------------------------------------------------------
LEMMA InitInv == Init => Inv
<1> SUFFICES ASSUME Init PROVE Inv
  OBVIOUS
<1>1. TypeOK
  BY DEF Init, TypeOK
<1>2. ClockInv
  BY DEF Init, ClockInv
<1>3. GuardInv
  BY LimitAssumption DEF Init, GuardInv, WindowInv, RunawayBoundFor
<1>4. QED
  BY <1>1, <1>2, <1>3 DEF Inv

LEMMA NextType == TypeOK /\ [Next]_vars => TypeOK'
<1> SUFFICES ASSUME TypeOK, [Next]_vars PROVE TypeOK'
  OBVIOUS
<1> USE DEF TypeOK, Goto, Checked, Leave, counters, call, history
<1>1. CASE Tick
  BY <1>1 DEF Tick
<1>2. CASE SetBack
  BY <1>2 DEF SetBack
<1>3. ASSUME NEW t \in Thread, Begin(t) PROVE TypeOK'
  BY <1>3 DEF Begin
<1>12. ASSUME NEW t \in Thread, NEW f \in Fp, ReadClock(t, f) PROVE TypeOK'
  BY <1>12 DEF ReadClock
<1>4. ASSUME NEW t \in Thread, Refuse(t) PROVE TypeOK'
  BY <1>4 DEF Refuse
<1>5. ASSUME NEW t \in Thread, TakeLock(t) PROVE TypeOK'
  BY <1>5 DEF TakeLock
<1>6. ASSUME NEW t \in Thread, Drop(t) PROVE TypeOK'
  <2>1. fp[t] \in Fp /\ windows[fp[t]] # <<>> /\ windows[fp[t]] \in Seq(Nat)
    BY <1>6 DEF Drop, Expired
  <2>2. Tail(windows[fp[t]]) \in Seq(Nat)
    BY <2>1
  <2>3. windows' \in [Fp -> Seq(Nat)] /\ dropped' \in [Fp -> Nat]
    BY <1>6, <2>1, <2>2 DEF Drop
  <2>4. QED
    BY <1>6, <2>3 DEF Drop
<1>7. ASSUME NEW t \in Thread, Trip(t) PROVE TypeOK'
  BY <1>7 DEF Trip
<1>8. ASSUME NEW t \in Thread, Accept(t) PROVE TypeOK'
  <2>1. fp[t] \in Fp /\ windows[fp[t]] \in Seq(Nat) /\ now[t] \in Nat
    BY <1>8 DEF Accept
  <2>2. Append(windows[fp[t]], now[t]) \in Seq(Nat)
    BY <2>1
  <2>3. Append(accepted[fp[t]], [reading |-> now[t], high |-> high]) \in Seq(Acceptance)
    BY <2>1 DEF Acceptance
  <2>4. windows' \in [Fp -> Seq(Nat)] /\ accepted' \in [Fp -> Seq(Acceptance)]
    BY <1>8, <2>1, <2>2, <2>3 DEF Accept
  <2>5. QED
    BY <1>8, <2>1, <2>4 DEF Accept
<1>9. ASSUME NEW t \in Thread, Finish(t) PROVE TypeOK'
  BY <1>9 DEF Finish
<1>10. CASE UNCHANGED vars
  BY <1>10 DEF vars
<1>11. QED
  BY <1>1, <1>2, <1>3, <1>4, <1>5, <1>6, <1>7, <1>8, <1>9, <1>10, <1>12 DEF Next

LEMMA NextClock == TypeOK /\ ClockInv /\ [Next]_vars => ClockInv' /\ high <= high'
<1> SUFFICES ASSUME TypeOK, ClockInv, [Next]_vars PROVE ClockInv' /\ high <= high'
  OBVIOUS
<1> USE DEF TypeOK, ClockInv, Goto, Checked, Leave, counters, call, history
<1>1. CASE Tick
  BY <1>1 DEF Tick
<1>2. CASE SetBack
  BY <1>2 DEF SetBack
<1>3. ASSUME NEW t \in Thread, NEW f \in Fp, ReadClock(t, f) PROVE ClockInv' /\ high <= high'
  BY <1>3 DEF ReadClock
<1>4. ASSUME NEW t \in Thread, Refuse(t) \/ Trip(t) \/ Accept(t)
      PROVE  ClockInv' /\ high <= high'
  <2>1. clock' = clock /\ high' = high /\ now' = [now EXCEPT ![t] = 0]
    BY <1>4 DEF Refuse, Trip, Accept
  <2>2. QED
    BY <2>1
<1>5. ASSUME NEW t \in Thread, Begin(t) \/ TakeLock(t) \/ Drop(t) \/ Finish(t)
      PROVE  ClockInv' /\ high <= high'
  BY <1>5 DEF Begin, TakeLock, Drop, Finish
<1>6. CASE UNCHANGED vars
  BY <1>6 DEF vars
<1>7. QED
  BY <1>1, <1>2, <1>3, <1>4, <1>5, <1>6 DEF Next

-----------------------------------------------------------------------------
(* A step that touches neither a window nor its history keeps what holds of it. *)
LEMMA WindowKept ==
  ASSUME TypeOK, TypeOK', high <= high', NEW f \in Fp, WindowInv(f), RunawayBoundFor(f),
         windows'[f] = windows[f], accepted'[f] = accepted[f], dropped'[f] = dropped[f]
  PROVE  WindowInv(f)' /\ RunawayBoundFor(f)'
<1>1. \A i \in 1..dropped[f] : accepted[f][i].reading \in Nat
  <2> SUFFICES ASSUME NEW i \in 1..dropped[f] PROVE accepted[f][i].reading \in Nat
    OBVIOUS
  <2>1. accepted[f] \in Seq(Acceptance) /\ windows[f] \in Seq(Nat) /\ dropped[f] \in Nat
    BY DEF TypeOK
  <2>2. i \in 1..Len(accepted[f])
    BY <2>1 DEF WindowInv
  <2>3. accepted[f][i] \in Acceptance
    BY <2>1, <2>2
  <2>4. QED
    BY <2>3 DEF Acceptance
<1>2. \A i \in 1..dropped[f] : accepted[f][i].reading + Window < high'
  <2>1. high \in Nat /\ high' \in Nat /\ Window \in Nat
    BY LimitAssumption DEF TypeOK
  <2>2. \A i \in 1..dropped[f] : accepted[f][i].reading + Window < high
    BY DEF WindowInv
  <2>3. QED
    BY <2>1, <2>2, <1>1
<1>3. QED
  BY <1>2 DEF WindowInv, RunawayBoundFor

(* The oldest reading leaves: the clock has left it behind. *)
LEMMA DropKeepsGuard ==
  ASSUME TypeOK, ClockInv, NEW t \in Thread, Drop(t),
         NEW f \in Fp, f = fp[t], WindowInv(f), RunawayBoundFor(f)
  PROVE  WindowInv(f)' /\ RunawayBoundFor(f)'
<1> DEFINE dq == windows[f]
           acc == accepted[f]
           d == dropped[f]
<1>1. /\ f \in Fp /\ dq \in Seq(Nat) /\ acc \in Seq(Acceptance) /\ d \in Nat
      /\ dq # <<>> /\ Head(dq) + Window < now[t] /\ now[t] \in Nat /\ high \in Nat
      /\ now[t] <= high
  BY DEF Drop, Expired, TypeOK, ClockInv
<1>2. /\ windows'[f] = Tail(dq) /\ dropped'[f] = d + 1 /\ accepted'[f] = acc
      /\ high' = high
  BY <1>1 DEF Drop, TypeOK, call
<1>3. /\ Len(dq) \in Nat \ {0} /\ Head(dq) = dq[1]
      /\ Len(Tail(dq)) = Len(dq) - 1
      /\ \A j \in 1..Len(Tail(dq)) : Tail(dq)[j] = dq[j + 1]
  BY <1>1
<1>4. /\ d + Len(dq) = Len(acc)
      /\ \A j \in 1..Len(dq) : acc[d + j].reading = dq[j]
      /\ Len(dq) <= RunawayMax
      /\ \A i \in 1..d : acc[i].reading + Window < high
  BY DEF WindowInv
<1> HIDE DEF dq, acc, d
<1>5. acc[d + 1].reading + Window < high
  <2>1. acc[d + 1].reading = dq[1] /\ dq[1] \in Nat
    BY <1>1, <1>3, <1>4
  <2>2. QED
    BY <2>1, <1>1, <1>3, LimitAssumption
<1>6. (d + 1) + Len(Tail(dq)) = Len(acc) /\ Len(Tail(dq)) <= RunawayMax
  BY <1>1, <1>3, <1>4, LimitAssumption
<1>7. \A j \in 1..Len(Tail(dq)) : acc[(d + 1) + j].reading = Tail(dq)[j]
  <2> SUFFICES ASSUME NEW j \in 1..Len(Tail(dq))
               PROVE  acc[(d + 1) + j].reading = Tail(dq)[j]
    OBVIOUS
  <2>1. PICK l \in Nat : l = Len(dq) /\ Len(Tail(dq)) = l - 1
    BY <1>3
  <2>2. d \in Nat BY <1>1
  <2>3. j + 1 \in 1..l /\ (d + 1) + j = d + (j + 1)
    BY <2>1, <2>2
  <2>4. acc[d + (j + 1)].reading = dq[j + 1] BY <1>4, <2>1, <2>3
  <2>5. Tail(dq)[j] = dq[j + 1] BY <1>3
  <2>6. QED
    BY <2>3, <2>4, <2>5
<1>8. \A i \in 1..(d + 1) : acc[i].reading + Window < high
  <2>1. d \in Nat BY <1>1
  <2>2. \A i \in 1..(d + 1) : i \in 1..d \/ i = d + 1 BY <2>1
  <2>3. \A i \in 1..d : acc[i].reading + Window < high BY <1>4
  <2>4. QED BY <1>5, <2>2, <2>3, Zenon
<1>9. WindowInv(f)'
  BY <1>2, <1>6, <1>7, <1>8 DEF WindowInv
<1>10. RunawayBoundFor(f)'
  BY <1>2 DEF RunawayBoundFor, acc
<1>11. QED
  BY <1>9, <1>10

(* The call let through is the RunawayMax-th of its window at most. *)
LEMMA AcceptKeepsGuard ==
  ASSUME TypeOK, GuardEnabled, NEW t \in Thread, Accept(t),
         NEW f \in Fp, f = fp[t], WindowInv(f), RunawayBoundFor(f)
  PROVE  WindowInv(f)' /\ RunawayBoundFor(f)'
<1> DEFINE dq == windows[f]
           acc == accepted[f]
           d == dropped[f]
           new == [reading |-> now[t], high |-> high]
<1>1. /\ f \in Fp /\ dq \in Seq(Nat) /\ acc \in Seq(Acceptance) /\ d \in Nat
      /\ now[t] \in Nat /\ high \in Nat /\ new \in Acceptance /\ Len(dq) < RunawayMax
  BY DEF Accept, TypeOK, Acceptance
<1>2. /\ windows'[f] = Append(dq, now[t]) /\ dropped' = dropped
      /\ accepted'[f] = Append(acc, new) /\ high' = high
  BY <1>1 DEF Accept, TypeOK, call
<1>3. /\ d + Len(dq) = Len(acc)
      /\ \A j \in 1..Len(dq) : acc[d + j].reading = dq[j]
      /\ \A i \in 1..d : acc[i].reading + Window < high
  BY DEF WindowInv
<1>4. \A n \in 1..Len(acc) :
        n > RunawayMax => acc[n - RunawayMax].reading + Window < acc[n].high
  BY <1>1 DEF RunawayBoundFor
<1>5. new.reading = now[t] /\ new.high = high
  OBVIOUS
<1> HIDE DEF dq, acc, d, new
<1> DEFINE acc2 == Append(acc, new)
           dq2 == Append(dq, now[t])
<1>6. /\ Len(acc2) = Len(acc) + 1 /\ acc2[Len(acc) + 1] = new /\ Len(acc) \in Nat
      /\ \A i \in 1..Len(acc) : acc2[i] = acc[i]
      /\ Len(dq2) = Len(dq) + 1 /\ dq2[Len(dq) + 1] = now[t] /\ Len(dq) \in Nat
      /\ \A i \in 1..Len(dq) : dq2[i] = dq[i]
      /\ DOMAIN acc2 = 1..Len(acc) + 1
  BY <1>1
<1> HIDE DEF acc2, dq2
<1>7. d + Len(dq2) = Len(acc2) /\ Len(dq2) <= RunawayMax
  BY <1>1, <1>3, <1>6, LimitAssumption
<1>8. \A j \in 1..Len(dq2) : acc2[d + j].reading = dq2[j]
  <2> SUFFICES ASSUME NEW j \in 1..Len(dq2) PROVE acc2[d + j].reading = dq2[j]
    OBVIOUS
  <2>1. CASE j = Len(dq) + 1
    <3>1. d + j = Len(acc) + 1
      BY <2>1, <1>1, <1>3, <1>6
    <3>2. QED
      BY <3>1, <2>1, <1>5, <1>6
  <2>2. CASE j \in 1..Len(dq)
    <3>1. d + j \in 1..Len(acc)
      BY <2>2, <1>1, <1>3, <1>6
    <3>2. QED
      BY <3>1, <2>2, <1>3, <1>6
  <2>3. QED
    BY <2>1, <2>2, <1>6
<1>9. \A i \in 1..d : acc2[i].reading + Window < high
  <2> SUFFICES ASSUME NEW i \in 1..d PROVE acc2[i].reading + Window < high
    OBVIOUS
  <2>1. i \in 1..Len(acc)
    BY <1>1, <1>3, <1>6
  <2>2. QED
    BY <2>1, <1>3, <1>6
<1>10. \A n \in DOMAIN acc2 :
         n > RunawayMax => acc2[n - RunawayMax].reading + Window < acc2[n].high
  <2> SUFFICES ASSUME NEW n \in 1..Len(acc) + 1, n > RunawayMax
               PROVE  acc2[n - RunawayMax].reading + Window < acc2[n].high
    BY <1>6
  <2>1. CASE n \in 1..Len(acc)
    <3>1. n - RunawayMax \in 1..Len(acc)
      BY <2>1, <1>6, LimitAssumption
    <3>2. QED
      BY <3>1, <2>1, <1>4, <1>6
  <2>2. CASE n = Len(acc) + 1
    <3>1. n - RunawayMax \in 1..d
      BY <2>2, <1>1, <1>3, <1>6, LimitAssumption
    <3>2. acc2[n].high = high
      BY <2>2, <1>5, <1>6
    <3>3. QED
      BY <3>1, <3>2, <1>9
  <2>3. QED
    BY <2>1, <2>2, <1>6
<1>11. WindowInv(f)'
  BY <1>2, <1>7, <1>8, <1>9 DEF WindowInv, d, acc2, dq2
<1>12. RunawayBoundFor(f)'
  BY <1>2, <1>10 DEF RunawayBoundFor, acc2
<1>13. QED
  BY <1>11, <1>12

LEMMA NextGuard == Inv /\ [Next]_vars => GuardInv'
<1> SUFFICES ASSUME Inv, [Next]_vars, GuardEnabled, NEW g \in Fp
             PROVE  WindowInv(g)' /\ RunawayBoundFor(g)'
  BY DEF GuardInv, GuardEnabled
<1>1. TypeOK /\ ClockInv /\ WindowInv(g) /\ RunawayBoundFor(g)
  BY DEF Inv, GuardInv
<1>2. TypeOK' /\ high <= high'
  BY <1>1, NextType, NextClock
<1>3. CASE UNCHANGED <<windows, accepted, dropped>>
  BY <1>1, <1>2, <1>3, WindowKept
<1>4. ASSUME NEW t \in Thread, Drop(t) PROVE WindowInv(g)' /\ RunawayBoundFor(g)'
  <2>1. CASE g = fp[t]
    BY <1>1, <1>4, <2>1, DropKeepsGuard
  <2>2. CASE g # fp[t]
    <3>1. windows'[g] = windows[g] /\ dropped'[g] = dropped[g] /\ accepted'[g] = accepted[g]
      BY <1>1, <1>4, <2>2 DEF Drop, TypeOK
    <3>2. QED
      BY <1>1, <1>2, <3>1, WindowKept
  <2>3. QED
    BY <2>1, <2>2
<1>5. ASSUME NEW t \in Thread, Accept(t) PROVE WindowInv(g)' /\ RunawayBoundFor(g)'
  <2>1. CASE g = fp[t]
    BY <1>1, <1>5, <2>1, AcceptKeepsGuard
  <2>2. CASE g # fp[t]
    <3>1. windows'[g] = windows[g] /\ dropped'[g] = dropped[g] /\ accepted'[g] = accepted[g]
      BY <1>1, <1>5, <2>2 DEF Accept, TypeOK
    <3>2. QED
      BY <1>1, <1>2, <3>1, WindowKept
  <2>3. QED
    BY <2>1, <2>2
<1>6. ASSUME NEW t \in Thread, Begin(t) \/ Refuse(t) \/ TakeLock(t) \/ Trip(t) \/ Finish(t)
      PROVE  UNCHANGED <<windows, accepted, dropped>>
  BY <1>6 DEF Begin, Refuse, TakeLock, Trip, Finish, Leave, history
<1>7. ASSUME NEW t \in Thread, NEW f \in Fp, ReadClock(t, f)
      PROVE  UNCHANGED <<windows, accepted, dropped>>
  BY <1>7 DEF ReadClock, history
<1>8. CASE Tick \/ SetBack \/ UNCHANGED vars
  BY <1>3, <1>8 DEF Tick, SetBack, vars, history
<1>9. QED
  BY <1>3, <1>4, <1>5, <1>6, <1>7, <1>8 DEF Next

THEOREM Invariance == Spec => []Inv
<1>1. Init => Inv
  BY InitInv
<1>2. Inv /\ [Next]_vars => Inv'
  BY NextType, NextClock, NextGuard DEF Inv
<1>3. QED
  BY <1>1, <1>2, PTL DEF Spec

(***************************************************************************)
(* The variables keep their types; in particular a clock set back never    *)
(* makes the accumulated time negative.                                    *)
(***************************************************************************)
THEOREM TypeCorrect == Spec => []TypeOK
<1>1. Inv => TypeOK
  BY DEF Inv
<1>2. QED
  BY <1>1, Invariance, PTL

(***************************************************************************)
(* check_and_record's runaway guard bounds the rate of identical calls for *)
(* every limit and window, whatever the threads and the clock do.          *)
(***************************************************************************)
THEOREM RunawayIsBounded == Spec => []RunawayBound
<1>1. Inv => RunawayBound
  BY DEF Inv, GuardInv, RunawayBoundFor, RunawayBound
<1>2. QED
  BY <1>1, Invariance, PTL

-----------------------------------------------------------------------------
(* The calls let through, each by its fingerprint and its place among that one's. *)
Passed == {p \in Fp \X Nat : p[2] \in DOMAIN accepted[p[1]]}

(* They are as many as were counted, and the holder of the lock found a slot. *)
CeilingInv ==
  /\ IsFiniteSet(Passed) /\ Cardinality(Passed) = totalCalls
  /\ MaxCalls # NoLimit => totalCalls <= MaxCalls
  /\ \A t \in Thread : pc[t] = "locked" => lock = t /\ ~OverCalls

LEMMA InitCeiling == Init => CeilingInv
<1> SUFFICES ASSUME Init PROVE CeilingInv
  OBVIOUS
<1>1. Passed = {}
  BY DEF Init, Passed
<1>2. MaxCalls # NoLimit => MaxCalls \in Nat
  BY LimitAssumption
<1> QED
  BY <1>1, <1>2, FS_EmptySet DEF Init, CeilingInv

(* The one step that counts: it fills the slot the check found free. *)
LEMMA AcceptKeepsCeiling ==
  ASSUME TypeOK, CeilingInv, NEW t \in Thread, Accept(t)
  PROVE  CeilingInv'
<1> DEFINE f == fp[t]
           acc == accepted[f]
           new == [reading |-> now[t], high |-> high]
           slot == <<f, Len(acc) + 1>>
<1>1. /\ f \in Fp /\ acc \in Seq(Acceptance) /\ new \in Acceptance
      /\ accepted \in [Fp -> Seq(Acceptance)]
  BY DEF Accept, TypeOK, Acceptance
<1>2. Passed' = Passed \cup {slot} /\ slot \notin Passed
  <2>1. accepted' = [accepted EXCEPT ![f] = Append(acc, new)]
    BY DEF Accept
  <2>2. DOMAIN accepted'[f] = DOMAIN acc \cup {Len(acc) + 1} /\ Len(acc) + 1 \notin DOMAIN acc
    BY <1>1, <2>1
  <2>3. \A g \in Fp \ {f} : accepted'[g] = accepted[g]
    BY <1>1, <2>1
  <2>4. slot \in Fp \X Nat /\ slot[1] = f /\ slot[2] = Len(acc) + 1
    BY <1>1
  <2> HIDE DEF f, acc, new
  <2>5. ASSUME NEW p \in Fp \X Nat
        PROVE  p[2] \in DOMAIN accepted'[p[1]] <=> p[2] \in DOMAIN accepted[p[1]] \/ p = slot
    <3>1. CASE p[1] = f
      <4>1. p = slot <=> p[2] = Len(acc) + 1 BY <2>4, <3>1
      <4> QED BY <2>2, <3>1, <4>1 DEF acc
    <3>2. CASE p[1] # f BY <2>3, <2>4, <3>2
    <3> QED BY <3>1, <3>2
  <2>6. slot \notin Passed BY <2>2, <2>4 DEF Passed, acc
  <2> QED BY <2>4, <2>5, <2>6 DEF Passed
<1>3. IsFiniteSet(Passed') /\ Cardinality(Passed') = totalCalls + 1
  <2>1. IsFiniteSet(Passed) /\ Cardinality(Passed) = totalCalls BY DEF CeilingInv
  <2> QED BY <1>2, <2>1, FS_AddElement
<1>4. totalCalls' = totalCalls + 1 /\ lock' = None
  BY DEF Accept
<1>5. pc[t] = "locked" /\ lock = t /\ ~OverCalls
  BY DEF Accept, CeilingInv
<1>6. MaxCalls # NoLimit => totalCalls + 1 <= MaxCalls
  BY <1>5, LimitAssumption DEF OverCalls, TypeOK
<1>7. \A u \in Thread : pc'[u] # "locked"
  <2>1. pc' = [pc EXCEPT ![t] = "ending"] BY DEF Accept, Checked, Goto
  <2> QED BY <1>5, <2>1, LimitAssumption DEF CeilingInv, TypeOK
<1> QED
  BY <1>3, <1>4, <1>6, <1>7 DEF CeilingInv

LEMMA NextCeiling == TypeOK /\ CeilingInv /\ [Next]_vars => CeilingInv'
<1> SUFFICES ASSUME TypeOK, CeilingInv, [Next]_vars PROVE CeilingInv'
  OBVIOUS
<1>1. ASSUME UNCHANGED <<accepted, totalCalls>>,
             \A t \in Thread : pc'[t] = "locked" => lock' = t /\ ~OverCalls
      PROVE  CeilingInv'
  BY <1>1 DEF CeilingInv, Passed, OverCalls
<1>2. ASSUME NEW t \in Thread, Accept(t) PROVE CeilingInv'
  BY <1>2, AcceptKeepsCeiling
<1>3. ASSUME NEW t \in Thread, TakeLock(t) PROVE CeilingInv'
  <2>1. /\ lock = None /\ lock' = t /\ ~OverCalls
        /\ pc' = [pc EXCEPT ![t] = "locked"]
        /\ UNCHANGED <<accepted, totalCalls>>
    BY <1>3 DEF TakeLock, Goto, history, counters
  <2>2. \A u \in Thread : pc[u] # "locked"
    BY <2>1, LimitAssumption DEF CeilingInv
  <2> QED BY <1>1, <2>1, <2>2 DEF TypeOK
<1>4. ASSUME NEW t \in Thread, Begin(t) \/ Refuse(t) \/ Trip(t) \/ Finish(t)
      PROVE  CeilingInv'
  <2>1. /\ \E l \in {"begun", "idle", "ending"} : pc' = [pc EXCEPT ![t] = l]
        /\ UNCHANGED <<accepted, totalCalls>>
        /\ lock' = lock \/ (pc[t] = "locked" /\ lock' = None)
    BY <1>4 DEF Begin, Refuse, Trip, Finish, Leave, Checked, Goto, history, counters
  <2>2. \A u \in Thread : pc'[u] = "locked" => pc[u] = "locked" /\ u # t
    BY <2>1 DEF TypeOK
  <2> QED BY <1>1, <2>1, <2>2 DEF CeilingInv
<1>5. ASSUME NEW t \in Thread, NEW f \in Fp, ReadClock(t, f) PROVE CeilingInv'
  <2>1. pc' = [pc EXCEPT ![t] = "ready"] /\ UNCHANGED <<accepted, totalCalls, lock>>
    BY <1>5 DEF ReadClock, Goto, history, counters
  <2> QED BY <1>1, <2>1 DEF CeilingInv, TypeOK
<1>6. ASSUME NEW t \in Thread, Drop(t) PROVE CeilingInv'
  BY <1>1, <1>6 DEF Drop, CeilingInv, counters
<1>7. CASE Tick \/ SetBack \/ UNCHANGED vars
  BY <1>1, <1>7 DEF Tick, SetBack, vars, history, counters, CeilingInv
<1> QED
  BY <1>2, <1>3, <1>4, <1>5, <1>6, <1>7 DEF Next

(***************************************************************************)
(* However many threads check at once, no more calls pass than             *)
(* ENDPOINT_MAX_TOOL_CALLS allows: the check and the count are made under  *)
(* one hold of the lock.                                                   *)
(***************************************************************************)
THEOREM CallsStayBelowCeiling == Spec => []CallCeiling
<1>1. TypeOK /\ CeilingInv => CallCeiling
  <2> SUFFICES ASSUME TypeOK, CeilingInv, MaxCalls # NoLimit
               PROVE  Cardinality({p \in Fp \X (1..totalCalls + 1) :
                                     p[2] \in DOMAIN accepted[p[1]]}) <= MaxCalls
    BY DEF CallCeiling
  <2> DEFINE Some == {p \in Fp \X (1..totalCalls + 1) : p[2] \in DOMAIN accepted[p[1]]}
  <2>1. Some \in SUBSET Passed BY DEF Passed, TypeOK
  <2>2. /\ IsFiniteSet(Passed) /\ Cardinality(Passed) = totalCalls /\ totalCalls <= MaxCalls
        /\ totalCalls \in Nat /\ MaxCalls \in Nat
    BY LimitAssumption DEF CeilingInv, TypeOK
  <2>3. IsFiniteSet(Some) /\ Cardinality(Some) <= totalCalls BY <2>1, <2>2, FS_Subset
  <2>4. Cardinality(Some) \in Nat BY <2>3, FS_CardinalityType
  <2> QED BY <2>2, <2>3, <2>4
<1> QED
  BY <1>1, InitCeiling, NextCeiling, TypeCorrect, PTL DEF Spec

(***************************************************************************)
(* Whenever the runaway guard trips on a call that reached it in order     *)
(* after the last RunawayMax calls let through, those calls all lie in the *)
(* window that ends at the call's own reading: the window it counts begins *)
(* with the oldest of them, and the pruning stopped there.                 *)
(***************************************************************************)
THEOREM TripsAreJustified == Spec => TripIsJustified
<1>1. Inv => TripsOnCause
  <2> SUFFICES ASSUME Inv, NEW t \in Thread, Trip(t), InOrder(t)
               PROVE  Cardinality(Recent(t)) >= RunawayMax
    BY DEF TripsOnCause
  <2> DEFINE f == fp[t]
             dq == windows[f]
             acc == accepted[f]
             d == dropped[f]
  <2>1. /\ f \in Fp /\ dq \in Seq(Nat) /\ acc \in Seq(Acceptance) /\ d \in Nat
        /\ now[t] \in Nat /\ Window \in Nat /\ RunawayMax \in Nat \ {0}
        /\ Len(dq) >= RunawayMax /\ ~Expired(t)
    BY LimitAssumption DEF Trip, Inv, TypeOK, GuardEnabled
  <2>2. /\ d + Len(dq) = Len(acc) /\ Len(dq) = RunawayMax
        /\ \A j \in 1..Len(dq) : acc[d + j].reading = dq[j]
    <3>1. WindowInv(f) BY <2>1 DEF Inv, GuardInv, Trip
    <3>2. /\ d + Len(dq) = Len(acc) /\ Len(dq) <= RunawayMax
          /\ \A j \in 1..Len(dq) : acc[d + j].reading = dq[j]
      BY <3>1 DEF WindowInv
    <3>3. Len(dq) \in Nat BY <2>1
    <3> HIDE DEF f, dq, acc, d
    <3> QED BY <2>1, <3>2, <3>3
  <2>3. dq # <<>> /\ Head(dq) = dq[1] /\ dq[1] \in Nat /\ dq[1] + Window >= now[t]
    BY <2>1, SMTT(20) DEF Expired, Trip
  <2>4. Latest(t) = (d + 1)..Len(acc)
    <3> HIDE DEF f, dq, acc, d
    <3>1. /\ Len(acc) \in Nat /\ Len(acc) - RunawayMax = d
      BY <2>1, <2>2
    <3>2. Latest(t) = {i \in 1..Len(acc) : i > Len(acc) - RunawayMax}
      BY DEF Latest, acc, f
    <3> QED BY <2>1, <3>1, <3>2
  <2>5. /\ \A i, j \in Latest(t) : i < j => acc[i].reading <= acc[j].reading
        /\ \A i \in Latest(t) : acc[i].reading <= now[t]
    BY DEF InOrder, Reading
  <2>6. \A i \in 1..Len(acc) : acc[i].reading \in Nat
    <3> HIDE DEF acc
    <3>1. \A i \in 1..Len(acc) : acc[i] \in Acceptance BY <2>1
    <3> QED BY <3>1 DEF Acceptance
  <2>7. Recent(t) = {i \in 1..Len(acc) :
                       acc[i].reading <= now[t] /\ now[t] <= acc[i].reading + Window}
    BY <2>1 DEF Recent, Reading
  <2> HIDE DEF f, dq, acc, d
  <2>8. ASSUME NEW i \in (d + 1)..Len(acc)
        PROVE  i \in 1..Len(acc) /\ acc[i].reading + Window >= now[t]
    <3>1. i \in 1..Len(acc) /\ d + 1 \in (d + 1)..Len(acc) /\ (i = d + 1 \/ d + 1 < i)
      BY <2>1, <2>2, <2>3, SMTT(20)
    <3>2. acc[d + 1].reading = dq[1] BY <2>1, <2>2
    <3>3. acc[d + 1].reading <= acc[i].reading BY <2>3, <2>4, <2>5, <2>6, <3>1, <3>2
    <3> QED BY <2>1, <2>3, <2>6, <3>1, <3>2, <3>3, SMTT(20)
  <2>9. (d + 1)..Len(acc) \in SUBSET Recent(t)
    BY <2>4, <2>5, <2>7, <2>8
  <2>10. IsFiniteSet(Recent(t)) /\ Cardinality(Recent(t)) \in Nat
    <3>1. IsFiniteSet(1..Len(acc)) BY <2>1, FS_Interval
    <3>2. Recent(t) \in SUBSET (1..Len(acc)) BY <2>7
    <3> QED BY <3>1, <3>2, FS_Subset, FS_CardinalityType
  <2>11. Cardinality((d + 1)..Len(acc)) = Len(dq)
    <3>1. d + 1 \in Int /\ Len(acc) \in Int /\ Len(dq) \in Nat BY <2>1
    <3>2. ~(d + 1 > Len(acc)) /\ Len(acc) - (d + 1) + 1 = Len(dq)
      BY <2>1, <2>2, <3>1
    <3>3. Cardinality((d + 1)..Len(acc)) =
            IF d + 1 > Len(acc) THEN 0 ELSE Len(acc) - (d + 1) + 1
      BY <3>1, FS_Interval
    <3> QED BY <3>2, <3>3, Zenon
  <2>12. Cardinality((d + 1)..Len(acc)) <= Cardinality(Recent(t))
    BY <2>9, <2>10, FS_Subset
  <2> QED BY <2>1, <2>2, <2>10, <2>11, <2>12
<1>2. Inv /\ [Next]_vars => [TripsOnCause]_vars
  BY <1>1
<1> QED
  BY <1>2, Invariance, PTL DEF Spec, TripIsJustified

===============================================================================
