---------------------------- MODULE AuditLogProofs ----------------------------
(***************************************************************************)
(* Theorems about AuditLog for every set of calls and processes, every row *)
(* and archive limit and every number of crashes.                          *)
(*                                                                         *)
(* The argument: the guard makes a rotation exclude every insertion, and   *)
(* its check for pending rows excludes, for as long as the guard is held,  *)
(* every row a finish_write could still touch; so what a rename takes away *)
(* is settled and checkpointed, and an open write keeps its own id.        *)
(***************************************************************************)
EXTENDS AuditLog, TLAPS

(* The guard is held by exactly the thread that stands inside it. *)
GuardInv ==
  \A c \in Call : guard = c <=> pc[c] \in Guarded

(* A call that started has a home. *)
HomeInv ==
  \A c \in Call : pc[c] # "new" => home[c] \in Process

(* What a rotation under way knows about audit.db. *)
RotationInv ==
  \A c \in Call :
    /\ pc[c] \in {"checkpoint", "rename"} =>
         \A i \in DOMAIN live : live[i].status # "pending"
    /\ pc[c] = "rename" => main = live
    /\ pc[c] = "init" => live = <<>>

(* What a thread's position says about its verdict. *)
VerdictInv ==
  \A c \in Call :
    /\ pc[c] \in {"new", "waiting", "refused", "unlogged"} \cup Guarded => verdict[c] = "none"
    /\ pc[c] \in InFlight => verdict[c] = "pending"
    /\ c \in sent => verdict[c] # "none"

(* No call has two rows in audit.db. *)
OneRowEach ==
  \A i, j \in DOMAIN live : live[i].call = live[j].call => i = j

(* A row that left audit.db has its verdict. *)
GoneAreSettled == \A r \in Gone : r.status # "pending"

ControlInv == GuardInv /\ HomeInv /\ RotationInv /\ VerdictInv
RowInv == OneRowEach /\ GoneAreSettled /\ OpenWriteStaysLive /\ TrailMatchesVerdict

Inv == TypeOK /\ ControlInv /\ RowInv

-----------------------------------------------------------------------------
(* Sequences. *)

LEMMA RangeOfAppend ==
  ASSUME NEW S, NEW s \in Seq(S), NEW x \in S
  PROVE  Range(Append(s, x)) = Range(s) \cup {x}
<1> DEFINE t == Append(s, x)
<1>1. /\ t \in Seq(S) /\ Len(t) = Len(s) + 1 /\ t[Len(s) + 1] = x
      /\ \A i \in 1..Len(s) : t[i] = s[i]
  OBVIOUS
<1>2. DOMAIN s = 1..Len(s) /\ DOMAIN t = 1..Len(s) \cup {Len(s) + 1}
  BY <1>1
<1> HIDE DEF t
<1>3. Range(t) \subseteq Range(s) \cup {x}
  BY <1>1, <1>2 DEF Range
<1>4. Range(s) \subseteq Range(t)
  BY <1>1, <1>2 DEF Range
<1>5. x \in Range(t)
  BY <1>1, <1>2 DEF Range
<1>6. QED
  BY <1>3, <1>4, <1>5 DEF t

LEMMA RangeType ==
  ASSUME NEW S, NEW s \in Seq(S)
  PROVE  Range(s) \subseteq S
  BY DEF Range

(* Dropping a prefix of a sequence keeps every element on one side or the other. *)
LEMMA RangeSplit ==
  ASSUME NEW S, NEW s \in Seq(S), NEW k \in 0..Len(s)
  PROVE  /\ SubSeq(s, k + 1, Len(s)) \in Seq(S)
         /\ Range(s) = {s[i] : i \in 1..k} \cup Range(SubSeq(s, k + 1, Len(s)))
<1> DEFINE t == SubSeq(s, k + 1, Len(s))
<1>1. /\ t \in Seq(S) /\ Len(t) = Len(s) - k
      /\ \A i \in 1..Len(t) : t[i] = s[k + i]
  BY SMTT(20)
<1>2. DOMAIN s = 1..Len(s) /\ DOMAIN t = 1..Len(t)
  BY <1>1
<1> HIDE DEF t
<1>3. ASSUME NEW x \in Range(s) PROVE x \in {s[i] : i \in 1..k} \cup Range(t)
  <2>1. PICK i \in 1..Len(s) : x = s[i]
    BY <1>2, <1>3 DEF Range
  <2>2. CASE i \in 1..k
    BY <2>1, <2>2
  <2>3. CASE i \notin 1..k
    <3>1. i - k \in 1..Len(t) /\ t[i - k] = s[i]
      BY <1>1, <2>3
    <3>2. QED
      BY <3>1, <2>1, <1>2, Zenon DEF Range
  <2>4. QED
    BY <2>2, <2>3
<1>4. {s[i] : i \in 1..k} \subseteq Range(s)
  BY <1>2 DEF Range
<1>5. ASSUME NEW x \in Range(t) PROVE x \in Range(s)
  <2>1. PICK i \in 1..Len(t) : x = t[i]
    BY <1>2, <1>5 DEF Range
  <2>2. k + i \in 1..Len(s) /\ x = s[k + i]
    BY <1>1, <2>1
  <2>3. QED
    BY <2>2, <1>2, Zenon DEF Range
<1>6. QED
  <2>1. Range(s) = {s[i] : i \in 1..k} \cup Range(t)
    BY <1>3, <1>4, <1>5
  <2>2. QED
    BY <2>1, <1>1 DEF t

(* Overwriting the status of one row changes that row only. *)
LEMMA RowUpdate ==
  ASSUME NEW s \in Seq(Row), NEW i \in DOMAIN s, NEW v \in Status
  PROVE  /\ [s EXCEPT ![i].status = v] \in Seq(Row)
         /\ DOMAIN [s EXCEPT ![i].status = v] = DOMAIN s
         /\ Len([s EXCEPT ![i].status = v]) = Len(s)
         /\ \A j \in DOMAIN s :
              [s EXCEPT ![i].status = v][j] =
                IF j = i THEN [call |-> s[i].call, status |-> v] ELSE s[j]
<1>1. s[i] \in Row
  OBVIOUS
<1>2. [s[i] EXCEPT !.status = v] = [call |-> s[i].call, status |-> v]
  BY <1>1 DEF Row
<1>3. [call |-> s[i].call, status |-> v] \in Row
  BY <1>1 DEF Row
<1>4. QED
  BY <1>2, <1>3

-----------------------------------------------------------------------------
(* Type correctness. *)

LEMMA InitType == Init => TypeOK
<1>1. <<>> \in Seq(Row) /\ <<>> \in Seq(SUBSET Row)
  OBVIOUS
<1>2. ASSUME Init
      PROVE  /\ live \in Seq(Row) /\ main \in Seq(Row) /\ archives \in Seq(SUBSET Row)
             /\ table \in BOOLEAN /\ purged \in SUBSET Row /\ sent \in SUBSET Call
             /\ crashes \in Nat /\ guard \in Call \cup {Nobody}
  BY <1>1, <1>2 DEF Init
<1>3. ASSUME Init
      PROVE  /\ engine \in [Process -> {"down", "ok", "broken"}]
             /\ blocked \in [Process -> BOOLEAN]
             /\ pc \in [Call -> {"new"} \cup Running \cup Ended]
             /\ home \in [Call -> Process \cup {Nobody}]
             /\ rowid \in [Call -> Nat]
             /\ verdict \in [Call -> Status \cup {"none"}]
  BY <1>3 DEF Init
<1>4. QED
  BY <1>2, <1>3 DEF TypeOK

LEMMA TrimType ==
  ASSUME archives \in Seq(SUBSET Row)
  PROVE  /\ Surplus \in 0..Len(archives)
         /\ SubSeq(archives, Surplus + 1, Len(archives)) \in Seq(SUBSET Row)
         /\ UNION {archives[i] : i \in 1..Surplus} \subseteq Row
<1>1. Surplus \in 0..Len(archives)
  BY BoundAssumption DEF Surplus
<1>2. SubSeq(archives, Surplus + 1, Len(archives)) \in Seq(SUBSET Row)
  BY <1>1, RangeSplit
<1>3. \A i \in 1..Surplus : archives[i] \in SUBSET Row
  BY <1>1
<1>4. QED
  BY <1>1, <1>2, <1>3

LEMMA NextType == TypeOK /\ [Next]_vars => TypeOK'
<1> SUFFICES ASSUME TypeOK, [Next]_vars PROVE TypeOK'
  OBVIOUS
<1> USE CallAssumption, BoundAssumption
        DEF TypeOK, Status, Running, Guarded, InFlight, Ended, Goto, store, engines
<1>1. ASSUME NEW p \in Process, StartEngine(p) PROVE TypeOK'
  BY <1>1 DEF StartEngine
<1>2. ASSUME NEW p \in Process, Crash(p) PROVE TypeOK'
  BY <1>2 DEF Crash
<1>3. ASSUME NEW c \in Call, NEW p \in Process, BeginWrite(c, p) PROVE TypeOK'
  BY <1>3 DEF BeginWrite
<1>4. ASSUME NEW c \in Call, NEW p \in Process, RefuseWrite(c, p) PROVE TypeOK'
  BY <1>4 DEF RefuseWrite
<1>5. ASSUME NEW c \in Call, NEW p \in Process, BeginLog(c, p) PROVE TypeOK'
  BY <1>5 DEF BeginLog
<1>6. ASSUME NEW c \in Call, TakeGuard(c) PROVE TypeOK'
  BY <1>6 DEF TakeGuard
<1>7. ASSUME NEW c \in Call, CheckRotation(c) PROVE TypeOK'
  BY <1>7, ZenonT(30) DEF CheckRotation
<1>8. ASSUME NEW c \in Call, Checkpoint(c) PROVE TypeOK'
  BY <1>8, ZenonT(30) DEF Checkpoint
<1>9. ASSUME NEW c \in Call, Rename(c) PROVE TypeOK'
  <2>1. Range(main) \in SUBSET Row
    BY RangeType
  <2>2. Append(archives, Range(main)) \in Seq(SUBSET Row) /\ <<>> \in Seq(Row)
    BY <2>1
  <2>3. live' \in Seq(Row) /\ main' \in Seq(Row) /\ table' \in BOOLEAN
    BY <1>9, <2>2 DEF Rename
  <2>4. archives' \in Seq(SUBSET Row)
    BY <1>9, <2>2 DEF Rename
  <2>5. pc' \in [Call -> {"new"} \cup Running \cup Ended]
    <3>1. pc' = [pc EXCEPT ![c] = "init"] \/ pc' = [pc EXCEPT ![c] = "insert"]
      BY <1>9 DEF Rename
    <3>2. QED
      BY <3>1
  <2>6. QED
    BY <1>9, <2>3, <2>4, <2>5 DEF Rename
<1>10. ASSUME NEW c \in Call, RotationInit(c) PROVE TypeOK'
  BY <1>10, TrimType DEF RotationInit
<1>11. ASSUME NEW c \in Call, Insert(c) PROVE TypeOK'
  <2>1. PICK s \in Status : /\ live' = Append(live, [call |-> c, status |-> s])
                            /\ verdict' = [verdict EXCEPT ![c] = s]
    BY <1>11 DEF Insert
  <2>2. live' \in Seq(Row)
    BY <2>1 DEF Row
  <2>3. QED
    BY <1>11, <2>1, <2>2 DEF Insert
<1>12. ASSUME NEW c \in Call, LogFails(c) PROVE TypeOK'
  BY <1>12 DEF LogFails
<1>13. ASSUME NEW c \in Call, Perform(c) PROVE TypeOK'
  BY <1>13 DEF Perform
<1>14. ASSUME NEW c \in Call, LoseVerdict(c) PROVE TypeOK'
  BY <1>14 DEF LoseVerdict
<1>15. ASSUME NEW c \in Call, NEW v \in Verdict, ResolveIntent(c, v) PROVE TypeOK'
  BY <1>15, RowUpdate DEF ResolveIntent, Resolvable
<1>16. ASSUME NEW i \in DOMAIN live, Reconcile(i) PROVE TypeOK'
  <2>1. live[i] \in Row
    OBVIOUS
  <2>2. live[i].call \in Call
    BY <2>1 DEF Row
  <2>3. live' \in Seq(Row)
    BY <1>16, RowUpdate DEF Reconcile
  <2>4. verdict' \in [Call -> Status \cup {"none"}]
    BY <1>16, <2>2 DEF Reconcile
  <2>5. QED
    BY <1>16, <2>3, <2>4 DEF Reconcile
<1>17. CASE AutoCheckpoint
  BY <1>17 DEF AutoCheckpoint
<1>18. CASE UNCHANGED vars
  BY <1>18 DEF vars
<1>19. QED
  BY <1>1, <1>2, <1>3, <1>4, <1>5, <1>6, <1>7, <1>8, <1>9, <1>10, <1>11, <1>12,
     <1>13, <1>14, <1>15, <1>16, <1>17, <1>18 DEF Next, Advance

(***************************************************************************)
(* Every reachable state is well typed: the model assigns nothing outside  *)
(* the sets the columns and attributes of audit.py range over.             *)
(***************************************************************************)
THEOREM TypeCorrect == Spec => []TypeOK
  BY InitType, NextType, PTL DEF Spec

-----------------------------------------------------------------------------
(* The control invariant: guard, homes, rotations under way, verdicts. *)

LEMMA InitInv == Init => Inv
<1> SUFFICES ASSUME Init PROVE Inv
  OBVIOUS
<1>1. TypeOK
  BY InitType
<1>2. ControlInv
  BY CallAssumption
  DEF Init, ControlInv, GuardInv, HomeInv, RotationInv, VerdictInv, Guarded, InFlight
<1>3. Range(live) = {} /\ Gone = {}
  BY DEF Init, Gone, Archived, Range
<1>4. RowInv
  BY <1>3 DEF Init, RowInv, OneRowEach, GoneAreSettled, OpenWriteStaysLive,
     TrailMatchesVerdict, RowsOf
<1>5. QED
  BY <1>1, <1>2, <1>4 DEF Inv

LEMMA GuardStep == Inv /\ [Next]_vars => GuardInv'
<1> SUFFICES ASSUME Inv, [Next]_vars PROVE GuardInv'
  OBVIOUS
<1> USE CallAssumption
        DEF Inv, ControlInv, TypeOK, GuardInv, Running, Guarded, InFlight, Ended, Goto,
            store, engines
<1>1. ASSUME NEW p \in Process, StartEngine(p) \/ Crash(p) PROVE GuardInv'
  BY <1>1 DEF StartEngine, Crash
<1>2. ASSUME NEW c \in Call, NEW p \in Process,
             BeginWrite(c, p) \/ RefuseWrite(c, p) \/ BeginLog(c, p)
      PROVE  GuardInv'
  BY <1>2 DEF BeginWrite, RefuseWrite, BeginLog
<1>3. ASSUME NEW c \in Call, TakeGuard(c) \/ Insert(c) \/ LogFails(c) PROVE GuardInv'
  BY <1>3 DEF TakeGuard, Insert, LogFails
<1>4. ASSUME NEW c \in Call,
             CheckRotation(c) \/ Checkpoint(c) \/ Rename(c) \/ RotationInit(c)
      PROVE  GuardInv'
  BY <1>4 DEF CheckRotation, Checkpoint, Rename, RotationInit
<1>5. ASSUME NEW c \in Call, Perform(c) \/ LoseVerdict(c) PROVE GuardInv'
  BY <1>5, ZenonT(30) DEF Perform, LoseVerdict
<1>6. ASSUME NEW c \in Call, NEW v \in Verdict, ResolveIntent(c, v) PROVE GuardInv'
  BY <1>6 DEF ResolveIntent
<1>7. ASSUME NEW i \in DOMAIN live, Reconcile(i) PROVE GuardInv'
  BY <1>7 DEF Reconcile
<1>8. CASE AutoCheckpoint \/ UNCHANGED vars
  BY <1>8 DEF AutoCheckpoint, vars
<1>9. QED
  BY <1>1, <1>2, <1>3, <1>4, <1>5, <1>6, <1>7, <1>8 DEF Next, Advance

LEMMA HomeStep == Inv /\ [Next]_vars => HomeInv'
<1> SUFFICES ASSUME Inv, [Next]_vars PROVE HomeInv'
  OBVIOUS
<1> USE DEF Inv, ControlInv, TypeOK, HomeInv, Running, Guarded, InFlight, Goto
<1>1. ASSUME NEW p \in Process, StartEngine(p) \/ Crash(p) PROVE HomeInv'
  BY <1>1 DEF StartEngine, Crash
<1>2. ASSUME NEW c \in Call, NEW p \in Process,
             BeginWrite(c, p) \/ RefuseWrite(c, p) \/ BeginLog(c, p)
      PROVE  HomeInv'
  BY <1>2 DEF BeginWrite, RefuseWrite, BeginLog
<1>3. ASSUME NEW c \in Call, Advance(c) PROVE HomeInv'
  BY <1>3 DEF Advance, TakeGuard, CheckRotation, Checkpoint, Rename, RotationInit,
              Insert, LogFails, Perform, LoseVerdict, ResolveIntent
<1>4. ASSUME NEW i \in DOMAIN live, Reconcile(i) PROVE HomeInv'
  BY <1>4 DEF Reconcile
<1>5. CASE AutoCheckpoint \/ UNCHANGED vars
  BY <1>5 DEF AutoCheckpoint, vars
<1>6. QED
  BY <1>1, <1>2, <1>3, <1>4, <1>5 DEF Next


(* A row update or a checkpoint keeps what a rotation under way relies on. *)
LEMMA RotationStep == Inv /\ [Next]_vars => RotationInv'
<1> SUFFICES ASSUME Inv, [Next]_vars PROVE RotationInv'
  OBVIOUS
<1> USE CallAssumption
        DEF Inv, ControlInv, TypeOK, GuardInv, RotationInv, Running, Guarded, InFlight,
            Goto, store, engines
<1>1. ASSUME NEW p \in Process, StartEngine(p) \/ Crash(p) PROVE RotationInv'
  BY <1>1 DEF StartEngine, Crash
<1>2. ASSUME NEW c \in Call, NEW p \in Process,
             BeginWrite(c, p) \/ RefuseWrite(c, p) \/ BeginLog(c, p)
      PROVE  RotationInv'
  BY <1>2 DEF BeginWrite, RefuseWrite, BeginLog
<1>3. ASSUME NEW c \in Call, TakeGuard(c) \/ LogFails(c) PROVE RotationInv'
  BY <1>3 DEF TakeGuard, LogFails
<1>4. ASSUME NEW c \in Call, Insert(c) PROVE RotationInv'
  <2>1. \A d \in Call : pc'[d] \notin {"checkpoint", "rename", "init"}
    BY <1>4 DEF Insert
  <2>2. QED
    BY <2>1
<1>5. ASSUME NEW c \in Call, CheckRotation(c) PROVE RotationInv'
  BY <1>5 DEF CheckRotation, NeedsRotation
<1>6. ASSUME NEW c \in Call, Checkpoint(c) PROVE RotationInv'
  BY <1>6 DEF Checkpoint
<1>7. ASSUME NEW c \in Call, Rename(c) PROVE RotationInv'
  BY <1>7 DEF Rename
<1>8. ASSUME NEW c \in Call, RotationInit(c) PROVE RotationInv'
  BY <1>8 DEF RotationInit
<1>9. ASSUME NEW c \in Call, Perform(c) \/ LoseVerdict(c) PROVE RotationInv'
  BY <1>9 DEF Perform, LoseVerdict
<1>10. ASSUME NEW i \in DOMAIN live, live[i].status = "pending"
       PROVE  \A d \in Call : pc[d] \notin {"checkpoint", "rename", "init"}
  BY <1>10
<1>11. ASSUME NEW c \in Call, NEW v \in Verdict, ResolveIntent(c, v) PROVE RotationInv'
  <2>1. \A d \in Call : pc'[d] \notin {"checkpoint", "rename", "init"}
    BY <1>10, <1>11 DEF ResolveIntent, Resolvable
  <2>2. QED
    BY <2>1
<1>12. ASSUME NEW i \in DOMAIN live, Reconcile(i) PROVE RotationInv'
  <2>1. \A d \in Call : pc'[d] \notin {"checkpoint", "rename", "init"}
    BY <1>10, <1>12 DEF Reconcile
  <2>2. QED
    BY <2>1
<1>13. CASE AutoCheckpoint \/ UNCHANGED vars
  BY <1>13 DEF AutoCheckpoint, vars
<1>14. QED
  BY <1>1, <1>2, <1>3, <1>4, <1>5, <1>6, <1>7, <1>8, <1>9, <1>11, <1>12, <1>13
  DEF Next, Advance

(* The row that finish_write matches is the row its call inserted. *)
LEMMA ResolvesOwnRow ==
  ASSUME Inv, NEW c \in Call, pc[c] \in InFlight
  PROVE  /\ rowid[c] \in DOMAIN live
         /\ live[rowid[c]] = [call |-> c, status |-> "pending"]
         /\ verdict[c] = "pending"
  BY DEF Inv, ControlInv, VerdictInv, RowInv, OpenWriteStaysLive

(* A pending row is the open entry of the call that inserted it. *)
LEMMA PendingRowIsOpen ==
  ASSUME Inv, NEW i \in DOMAIN live, live[i].status = "pending"
  PROVE  /\ live[i].call \in Call
         /\ verdict[live[i].call] = "pending"
         /\ rowid[live[i].call] = i
<1> DEFINE d == live[i].call
<1>1. live[i] \in Row
  BY DEF Inv, TypeOK
<1>2. d \in Call /\ live[i] = [call |-> d, status |-> "pending"]
  BY <1>1 DEF Row
<1>3. live[i] \in RowsOf(d)
  BY DEF RowsOf, Range
<1>4. verdict[d] = "pending"
  BY <1>2, <1>3 DEF Inv, RowInv, TrailMatchesVerdict
<1>5. rowid[d] \in DOMAIN live /\ live[rowid[d]].call = live[i].call
  BY <1>2, <1>4 DEF Inv, RowInv, OpenWriteStaysLive
<1>6. rowid[d] = i
  BY <1>5 DEF Inv, RowInv, OneRowEach
<1>7. QED
  BY <1>2, <1>4, <1>6

LEMMA VerdictStep == Inv /\ [Next]_vars => VerdictInv'
<1> SUFFICES ASSUME Inv, [Next]_vars PROVE VerdictInv'
  OBVIOUS
<1> USE CallAssumption
        DEF Inv, ControlInv, TypeOK, VerdictInv, Running, Guarded, InFlight,
            Goto, store, engines
<1>1. ASSUME NEW p \in Process, StartEngine(p) \/ Crash(p) PROVE VerdictInv'
  BY <1>1 DEF StartEngine, Crash
<1>2. ASSUME NEW c \in Call, NEW p \in Process,
             BeginWrite(c, p) \/ RefuseWrite(c, p) \/ BeginLog(c, p)
      PROVE  VerdictInv'
  BY <1>2 DEF BeginWrite, RefuseWrite, BeginLog
<1>3. ASSUME NEW c \in Call,
             TakeGuard(c) \/ CheckRotation(c) \/ Checkpoint(c) \/ Rename(c) \/ RotationInit(c)
      PROVE  VerdictInv'
  BY <1>3 DEF TakeGuard, CheckRotation, Checkpoint, Rename, RotationInit
<1>4. ASSUME NEW c \in Call, Insert(c) PROVE VerdictInv'
  BY <1>4 DEF Insert, Status
<1>5. ASSUME NEW c \in Call, LogFails(c) \/ Perform(c) \/ LoseVerdict(c) PROVE VerdictInv'
  BY <1>5 DEF LogFails, Perform, LoseVerdict
<1>6. ASSUME NEW c \in Call, NEW v \in Verdict, ResolveIntent(c, v) PROVE VerdictInv'
  BY <1>6 DEF ResolveIntent
<1>7. ASSUME NEW i \in DOMAIN live, Reconcile(i) PROVE VerdictInv'
  <2> DEFINE d == live[i].call
  <2>1. d \in Call /\ verdict[d] = "pending" /\ pc[d] \notin InFlight
    BY <1>7, PendingRowIsOpen DEF Reconcile
  <2>2. verdict' = [verdict EXCEPT ![d] = "unknown"] /\ pc' = pc /\ sent' = sent
    BY <1>7 DEF Reconcile
  <2>3. QED
    BY <2>1, <2>2
<1>8. CASE AutoCheckpoint \/ UNCHANGED vars
  BY <1>8 DEF AutoCheckpoint, vars
<1>9. QED
  BY <1>1, <1>2, <1>3, <1>4, <1>5, <1>6, <1>7, <1>8 DEF Next, Advance

-----------------------------------------------------------------------------
(* The row invariant. *)

LEMMA UnionOfCup ==
  ASSUME NEW A, NEW B
  PROVE  UNION (A \cup B) = (UNION A) \cup (UNION B)
  OBVIOUS

(* Deleting the oldest archives moves rows from the archives to the purged ones. *)
LEMMA TrimKeepsGone ==
  ASSUME TypeOK, NEW c \in Call, RotationInit(c)
  PROVE  Gone' = Gone
<1>1. CASE archives' = archives /\ purged' = purged
  BY <1>1 DEF Gone, Archived
<1>2. CASE /\ archives' = SubSeq(archives, Surplus + 1, Len(archives))
           /\ purged' = purged \cup UNION {archives[i] : i \in 1..Surplus}
  <2>1. Surplus \in 0..Len(archives)
    BY TrimType DEF TypeOK
  <2>2. Range(archives) = {archives[i] : i \in 1..Surplus} \cup Range(archives')
    BY <1>2, <2>1, RangeSplit DEF TypeOK
  <2> DEFINE dropped == {archives[i] : i \in 1..Surplus}
  <2> HIDE DEF dropped
  <2>3. UNION Range(archives) = (UNION dropped) \cup (UNION Range(archives'))
    BY <2>2, UnionOfCup DEF dropped
  <2>4. purged' = purged \cup (UNION dropped)
    BY <1>2 DEF dropped
  <2>5. QED
    BY <2>3, <2>4, Zenon DEF Gone, Archived
<1>3. QED
  BY <1>1, <1>2 DEF RotationInit

(* A new row of a call that had none. *)
LEMMA InsertKeepsRows ==
  ASSUME Inv, NEW c \in Call, Insert(c)
  PROVE  RowInv'
<1>1. PICK s \in Status : /\ live' = Append(live, [call |-> c, status |-> s])
                          /\ verdict' = [verdict EXCEPT ![c] = s]
  BY DEF Insert, Status
<1> DEFINE row == [call |-> c, status |-> s]
<1>2. row \in Row /\ live \in Seq(Row) /\ verdict \in [Call -> Status \cup {"none"}]
  BY DEF Row, Inv, TypeOK
<1>3. /\ DOMAIN live' = DOMAIN live \cup {Len(live) + 1}
      /\ live'[Len(live) + 1] = row
      /\ \A i \in DOMAIN live : live'[i] = live[i] /\ i # Len(live) + 1
  BY <1>1, <1>2
<1>4. Range(live') = Range(live) \cup {row}
  BY <1>1, <1>2, RangeOfAppend
<1>5. Gone' = Gone /\ rowid' = [rowid EXCEPT ![c] = Len(live) + 1]
  BY DEF Insert, Gone, Archived
<1>6. verdict[c] = "none"
  BY DEF Insert, Inv, ControlInv, VerdictInv, Guarded
<1>7. RowsOf(c) = {}
  BY <1>6 DEF Inv, RowInv, TrailMatchesVerdict
<1>8. \A i \in DOMAIN live : live[i].call # c
  BY <1>7 DEF RowsOf, Range
<1>9. OneRowEach'
  BY <1>3, <1>8 DEF Inv, RowInv, OneRowEach
<1>10. GoneAreSettled'
  BY <1>5 DEF Inv, RowInv, GoneAreSettled
<1>11. OpenWriteStaysLive'
  <2> SUFFICES ASSUME NEW d \in Call, verdict'[d] = "pending"
               PROVE  /\ rowid'[d] \in DOMAIN live'
                      /\ live'[rowid'[d]] = [call |-> d, status |-> "pending"]
    BY DEF OpenWriteStaysLive
  <2>1. CASE d = c
    BY <2>1, <1>1, <1>2, <1>3, <1>5 DEF Inv, TypeOK
  <2>2. CASE d # c
    <3>1. verdict[d] = "pending" /\ rowid'[d] = rowid[d]
      BY <2>2, <1>1, <1>2, <1>5 DEF Inv, TypeOK
    <3>2. rowid[d] \in DOMAIN live /\ live[rowid[d]] = [call |-> d, status |-> "pending"]
      BY <3>1 DEF Inv, RowInv, OpenWriteStaysLive
    <3>3. QED
      BY <3>1, <3>2, <1>3
  <2>3. QED
    BY <2>1, <2>2
<1>12. TrailMatchesVerdict'
  <2> SUFFICES ASSUME NEW d \in Call
               PROVE  RowsOf(d)' = IF verdict'[d] = "none" THEN {}
                                   ELSE {[call |-> d, status |-> verdict'[d]]}
    BY DEF TrailMatchesVerdict
  <2>1. RowsOf(d)' = RowsOf(d) \cup (IF d = c THEN {row} ELSE {})
    BY <1>4, <1>5 DEF RowsOf
  <2>2. CASE d = c
    <3>1. verdict'[d] = s /\ s # "none"
      BY <2>2, <1>1, <1>2, CallAssumption DEF Status
    <3>2. QED
      BY <2>1, <2>2, <3>1, <1>7
  <2>3. CASE d # c
    <3>1. verdict'[d] = verdict[d]
      BY <2>3, <1>1, <1>2
    <3>2. QED
      BY <2>1, <2>3, <3>1 DEF Inv, RowInv, TrailMatchesVerdict
  <2>4. QED
    BY <2>2, <2>3
<1>13. QED
  BY <1>9, <1>10, <1>11, <1>12 DEF RowInv

(* Settling the open row of a call in place. *)
LEMMA SettleKeepsRows ==
  ASSUME Inv, NEW d \in Call, NEW i \in DOMAIN live, NEW v \in Verdict,
         live[i] = [call |-> d, status |-> "pending"],
         verdict[d] = "pending",
         live' = [live EXCEPT ![i].status = v],
         verdict' = [verdict EXCEPT ![d] = v],
         UNCHANGED <<archives, purged, rowid>>
  PROVE  RowInv'
<1> DEFINE row == [call |-> d, status |-> v]
           old == [call |-> d, status |-> "pending"]
<1>1. live \in Seq(Row) /\ verdict \in [Call -> Status \cup {"none"}] /\ v \in Status
  BY DEF Inv, TypeOK, Status
<1>2. /\ DOMAIN live' = DOMAIN live
      /\ \A j \in DOMAIN live : live'[j] = IF j = i THEN row ELSE live[j]
  BY <1>1, RowUpdate
<1>3. Gone' = Gone
  BY DEF Gone, Archived
<1>4. v # "pending" /\ v # "none"
  BY CallAssumption
<1>5. OneRowEach'
  BY <1>2 DEF Inv, RowInv, OneRowEach
<1>6. GoneAreSettled'
  BY <1>3 DEF Inv, RowInv, GoneAreSettled
<1>7. OpenWriteStaysLive'
  <2> SUFFICES ASSUME NEW c \in Call, verdict'[c] = "pending"
               PROVE  /\ rowid'[c] \in DOMAIN live'
                      /\ live'[rowid'[c]] = [call |-> c, status |-> "pending"]
    BY DEF OpenWriteStaysLive
  <2>1. c # d /\ verdict[c] = "pending"
    BY <1>1, <1>4
  <2>2. rowid[c] \in DOMAIN live /\ live[rowid[c]] = [call |-> c, status |-> "pending"]
    BY <2>1 DEF Inv, RowInv, OpenWriteStaysLive
  <2>3. rowid[c] # i
    BY <2>1, <2>2
  <2>4. QED
    BY <2>2, <2>3, <1>2
<1>8. TrailMatchesVerdict'
  <2> SUFFICES ASSUME NEW c \in Call
               PROVE  RowsOf(c)' = IF verdict'[c] = "none" THEN {}
                                   ELSE {[call |-> c, status |-> verdict'[c]]}
    BY DEF TrailMatchesVerdict
  <2>1. \A r : r.call # d => (r \in Range(live') <=> r \in Range(live))
    BY <1>2 DEF Range
  <2>2. \A r \in Range(live') : r.call = d => r = row
    BY <1>2 DEF Range, Inv, RowInv, OneRowEach
  <2>3. row \in Range(live')
    BY <1>2, Zenon DEF Range
  <2>4. CASE c = d
    <3>1. RowsOf(d) = {old}
      BY DEF Inv, RowInv, TrailMatchesVerdict
    <3>2. \A r \in Gone : r.call # d
      BY <3>1 DEF RowsOf, Inv, RowInv, GoneAreSettled
    <3>3. RowsOf(d)' = {row}
      <4>1. row.call = d
        OBVIOUS
      <4>2. RowsOf(d)' = {r \in Range(live') \cup Gone : r.call = d}
        BY <1>3 DEF RowsOf
      <4> HIDE DEF row
      <4>3. QED
        BY <4>1, <4>2, <2>2, <2>3, <3>2
    <3>4. verdict'[d] = v
      BY <1>1
    <3>5. QED
      BY <2>4, <3>3, <3>4, <1>4
  <2>5. CASE c # d
    <3>1. RowsOf(c)' = RowsOf(c)
      BY <2>1, <2>5, <1>3 DEF RowsOf
    <3>2. verdict'[c] = verdict[c]
      BY <2>5, <1>1
    <3>3. QED
      BY <3>1, <3>2 DEF Inv, RowInv, TrailMatchesVerdict
  <2>6. QED
    BY <2>4, <2>5
<1>9. QED
  BY <1>5, <1>6, <1>7, <1>8 DEF RowInv

(* A rename moves settled, checkpointed rows into an archive, and no others. *)
LEMMA RenameKeepsRows ==
  ASSUME Inv, NEW c \in Call, pc[c] = "rename",
         live' = <<>>, archives' = Append(archives, Range(main)),
         UNCHANGED <<purged, verdict, rowid>>
  PROVE  RowInv'
<1>1. main = live /\ \A i \in DOMAIN live : live[i].status # "pending"
  BY DEF Inv, ControlInv, RotationInv
<1>2. Range(main) \in SUBSET Row /\ archives \in Seq(SUBSET Row)
  BY RangeType DEF Inv, TypeOK
<1>3. Range(archives') = Range(archives) \cup {Range(live)}
  BY <1>1, <1>2, RangeOfAppend
<1>4. Gone' = Gone \cup Range(live)
  BY <1>3 DEF Gone, Archived
<1>5. Range(live') = {}
  BY DEF Range
<1>6. OneRowEach'
  BY DEF OneRowEach
<1>7. GoneAreSettled'
  <2>1. \A r \in Range(live) : r.status # "pending"
    BY <1>1 DEF Range
  <2>2. \A r \in Gone : r.status # "pending"
    BY DEF Inv, RowInv, GoneAreSettled
  <2>3. QED
    BY <1>4, <2>1, <2>2 DEF GoneAreSettled
<1>8. \A d \in Call : verdict[d] # "pending"
  <2>1. ASSUME NEW d \in Call, verdict[d] = "pending" PROVE FALSE
    <3>1. /\ rowid[d] \in DOMAIN live
          /\ live[rowid[d]] = [call |-> d, status |-> "pending"]
      BY <2>1 DEF Inv, RowInv, OpenWriteStaysLive
    <3>2. live[rowid[d]].status = "pending"
      BY <3>1
    <3>3. QED
      BY <1>1, <3>1, <3>2
  <2>2. QED
    BY <2>1
<1>9. OpenWriteStaysLive'
  BY <1>8 DEF OpenWriteStaysLive
<1>10. \A d : RowsOf(d)' = RowsOf(d)
  BY <1>4, <1>5 DEF RowsOf
<1>11. TrailMatchesVerdict'
  BY <1>10 DEF TrailMatchesVerdict, Inv, RowInv
<1>12. QED
  BY <1>6, <1>7, <1>9, <1>11 DEF RowInv

LEMMA RowStep == Inv /\ [Next]_vars => RowInv'
<1> SUFFICES ASSUME Inv, [Next]_vars PROVE RowInv'
  OBVIOUS
<1>1. ASSUME UNCHANGED <<live, verdict, rowid>>, Gone' = Gone PROVE RowInv'
  <2>1. \A d : RowsOf(d)' = RowsOf(d)
    BY <1>1 DEF RowsOf
  <2>2. QED
    BY <1>1, <2>1 DEF Inv, RowInv, OneRowEach, GoneAreSettled, OpenWriteStaysLive,
       TrailMatchesVerdict
<1>2. ASSUME UNCHANGED <<live, archives, purged, verdict, rowid>> PROVE RowInv'
  BY <1>1, <1>2 DEF Gone, Archived
<1>3. ASSUME NEW p \in Process, StartEngine(p) \/ Crash(p) PROVE RowInv'
  BY <1>2, <1>3 DEF StartEngine, Crash, store
<1>4. ASSUME NEW c \in Call, NEW p \in Process,
             BeginWrite(c, p) \/ RefuseWrite(c, p) \/ BeginLog(c, p)
      PROVE  RowInv'
  BY <1>2, <1>4 DEF BeginWrite, RefuseWrite, BeginLog, store
<1>5. ASSUME NEW c \in Call,
             \/ TakeGuard(c) \/ CheckRotation(c) \/ Checkpoint(c)
             \/ LogFails(c) \/ Perform(c) \/ LoseVerdict(c)
      PROVE  RowInv'
  BY <1>2, <1>5 DEF TakeGuard, CheckRotation, Checkpoint, LogFails, Perform, LoseVerdict, store
<1>6. ASSUME NEW c \in Call, Rename(c) PROVE RowInv'
  BY <1>2, <1>6, RenameKeepsRows DEF Rename
<1>7. ASSUME NEW c \in Call, RotationInit(c) PROVE RowInv'
  <2>1. Gone' = Gone
    BY <1>7, TrimKeepsGone DEF Inv
  <2>2. QED
    BY <1>1, <1>7, <2>1 DEF RotationInit
<1>8. ASSUME NEW c \in Call, Insert(c) PROVE RowInv'
  BY <1>8, InsertKeepsRows
<1>9. ASSUME NEW c \in Call, NEW v \in Verdict, ResolveIntent(c, v) PROVE RowInv'
  <2>1. /\ rowid[c] \in DOMAIN live
        /\ live[rowid[c]] = [call |-> c, status |-> "pending"]
        /\ verdict[c] = "pending"
    BY <1>9, ResolvesOwnRow DEF ResolveIntent
  <2>2. QED
    BY <1>9, <2>1, SettleKeepsRows DEF ResolveIntent
<1>10. ASSUME NEW i \in DOMAIN live, Reconcile(i) PROVE RowInv'
  <2> DEFINE d == live[i].call
  <2>1. live[i].status = "pending" /\ live[i] \in Row
    BY <1>10 DEF Reconcile, Inv, TypeOK
  <2>2. d \in Call /\ live[i] = [call |-> d, status |-> "pending"]
    BY <2>1 DEF Row
  <2>3. verdict[d] = "pending"
    BY <2>1, PendingRowIsOpen
  <2>4. "unknown" \in Verdict
    BY CallAssumption
  <2>5. /\ live' = [live EXCEPT ![i].status = "unknown"]
        /\ verdict' = [verdict EXCEPT ![d] = "unknown"]
        /\ UNCHANGED <<archives, purged, rowid>>
    BY <1>10 DEF Reconcile
  <2>6. QED
    BY <2>2, <2>3, <2>4, <2>5, SettleKeepsRows
<1>11. CASE AutoCheckpoint \/ UNCHANGED vars
  BY <1>2, <1>11 DEF AutoCheckpoint, vars, store
<1>12. QED
  BY <1>3, <1>4, <1>5, <1>6, <1>7, <1>8, <1>9, <1>10, <1>11 DEF Next, Advance

LEMMA Invariance == Spec => []Inv
<1>1. Inv /\ [Next]_vars => Inv'
  BY NextType, GuardStep, HomeStep, RotationStep, VerdictStep, RowStep DEF Inv, ControlInv
<1>2. QED
  BY InitInv, <1>1, PTL DEF Spec

-----------------------------------------------------------------------------
(* The safety theorems. *)

(***************************************************************************)
(* The intent of a write that has not been settled is a pending row of     *)
(* audit.db at its own id, through every rotation, crash and failure.      *)
(***************************************************************************)
THEOREM OpenWritesStayLive == Spec => []OpenWriteStaysLive
<1>1. Inv => OpenWriteStaysLive
  BY DEF Inv, RowInv
<1>2. QED
  BY <1>1, Invariance, PTL

(***************************************************************************)
(* A call has exactly one row, with the verdict it reported, and none      *)
(* before one was committed: no rotation loses a row, and no finish_write  *)
(* resolves the row of another call although ids restart in a new file.    *)
(***************************************************************************)
THEOREM TrailIsTruthful == Spec => []TrailMatchesVerdict
<1>1. Inv => TrailMatchesVerdict
  BY DEF Inv, RowInv
<1>2. QED
  BY <1>1, Invariance, PTL

(***************************************************************************)
(* begin_write's promise: no request leaves without a committed intent.    *)
(***************************************************************************)
THEOREM IntentPrecedesRequest == Spec => []IntentBeforeRequest
<1>1. Inv => IntentBeforeRequest
  BY DEF Inv, ControlInv, VerdictInv, RowInv, TrailMatchesVerdict, IntentBeforeRequest, TypeOK
<1>2. QED
  BY <1>1, Invariance, PTL

-----------------------------------------------------------------------------
(* The store implements the ledger. *)

(* Under the invariant an entry is the verdict while its row is kept, then expired. *)
LEMMA EntryIsVerdict ==
  ASSUME Inv, NEW c \in Call
  PROVE  EntryOf(c) = IF \E r \in Present : r.call = c THEN verdict[c]
                      ELSE IF verdict[c] = "none" THEN "none" ELSE "expired"
<1>1. RowsOf(c) = {r \in Present \cup purged : r.call = c}
  BY DEF RowsOf, Present, Gone
<1>2. CASE \E r \in Present : r.call = c
  <2> DEFINE q == CHOOSE r \in Present : r.call = c
  <2>1. q \in Present /\ q.call = c
    BY <1>2
  <2> HIDE DEF q
  <2>2. q \in RowsOf(c)
    BY <1>1, <2>1
  <2>3. q = [call |-> c, status |-> verdict[c]]
    BY <2>2 DEF Inv, RowInv, TrailMatchesVerdict
  <2>4. q.status = verdict[c]
    BY <2>3
  <2>5. EntryOf(c) = q.status
    BY <1>2 DEF EntryOf, q
  <2>6. QED
    BY <1>2, <2>4, <2>5
<1>3. CASE ~ \E r \in Present : r.call = c
  <2>1. (\E r \in purged : r.call = c) <=> RowsOf(c) # {}
    BY <1>1, <1>3
  <2>2. RowsOf(c) # {} <=> verdict[c] # "none"
    BY DEF Inv, RowInv, TrailMatchesVerdict
  <2>3. QED
    BY <1>3, <2>1, <2>2 DEF EntryOf
<1>4. QED
  BY <1>2, <1>3

(* Under the invariant the entry of an open call is there and pending. *)
LEMMA OpenIsPresent ==
  ASSUME Inv, NEW c \in Call, verdict[c] = "pending"
  PROVE  (\E r \in Present : r.call = c) /\ EntryOf(c) = "pending"
<1>1. /\ rowid[c] \in DOMAIN live
      /\ live[rowid[c]] = [call |-> c, status |-> "pending"]
  BY DEF Inv, RowInv, OpenWriteStaysLive
<1>2. live[rowid[c]] \in Present /\ live[rowid[c]].call = c
  BY <1>1 DEF Present, Range
<1>3. QED
  BY <1>2, EntryIsVerdict

(* The same, as one state formula, now and in the next state. *)
EntriesAreVerdicts ==
  \A c \in Call :
    EntryOf(c) = IF \E r \in Present : r.call = c THEN verdict[c]
                 ELSE IF verdict[c] = "none" THEN "none" ELSE "expired"

LEMMA Entries == Inv => EntriesAreVerdicts
  BY EntryIsVerdict DEF EntriesAreVerdicts

LEMMA EntriesNext == Inv' => EntriesAreVerdicts'
  BY Entries, PTL

LEMMA LedgerInit == Init => Ledger!Init
<1> SUFFICES ASSUME Init PROVE Ledger!Init
  OBVIOUS
<1>1. Present = {} /\ purged = {}
  BY DEF Init, Present, Archived, Range
<1>2. \A c \in Call : EntryOf(c) = "none"
  BY <1>1 DEF EntryOf
<1>3. QED
  BY <1>2 DEF Ledger!Init, Init

(* A step that keeps the present rows and the verdicts keeps the entries. *)
LEMMA SameEntries ==
  ASSUME Inv, Inv', Present' = Present, verdict' = verdict
  PROVE  [c \in Call |-> EntryOf(c)]' = [c \in Call |-> EntryOf(c)]
<1>1. \A c \in Call : EntryOf(c)' = EntryOf(c)
  BY Entries, EntriesNext DEF EntriesAreVerdicts
<1>2. QED
  BY <1>1

(* A step that gives one call its row, or settles it, changes one entry. *)
LEMMA OneEntryChanges ==
  ASSUME Inv, Inv', NEW c \in Call, NEW v,
         verdict' = [verdict EXCEPT ![c] = v],
         \E r \in Present' : r.call = c,
         \A d \in Call \ {c} :
           (\E r \in Present' : r.call = d) <=> (\E r \in Present : r.call = d)
  PROVE  [d \in Call |-> EntryOf(d)]' = [[d \in Call |-> EntryOf(d)] EXCEPT ![c] = v]
<1>1. verdict \in [Call -> Status \cup {"none"}]
  BY DEF Inv, TypeOK
<1>2. EntryOf(c)' = v
  BY <1>1, EntriesNext DEF EntriesAreVerdicts
<1>3. ASSUME NEW d \in Call \ {c} PROVE EntryOf(d)' = EntryOf(d)
  BY <1>1, Entries, EntriesNext DEF EntriesAreVerdicts
<1>4. QED
  BY <1>2, <1>3

LEMMA InsertIsLedgerStep ==
  ASSUME Inv, Inv', NEW c \in Call, Insert(c)
  PROVE  \E v \in Verdict : Ledger!Intend(c) \/ Ledger!Record(c, v)
<1>1. PICK w \in Verdict :
        LET s == IF c \in Write THEN "pending" ELSE w
        IN  /\ live' = Append(live, [call |-> c, status |-> s])
            /\ verdict' = [verdict EXCEPT ![c] = s]
  BY DEF Insert
<1> DEFINE s == IF c \in Write THEN "pending" ELSE w
           row == [call |-> c, status |-> s]
<1>2. row \in Row /\ live \in Seq(Row)
  BY DEF Row, Status, Inv, TypeOK
<1>3. Present' = Present \cup {row}
  <2>1. Range(live') = Range(live) \cup {row}
    BY <1>1, <1>2, RangeOfAppend
  <2>2. Archived' = Archived
    BY DEF Insert, Archived
  <2>3. QED
    BY <2>1, <2>2 DEF Present
<1>4. [d \in Call |-> EntryOf(d)]' = [[d \in Call |-> EntryOf(d)] EXCEPT ![c] = s]
  <2>1. verdict' = [verdict EXCEPT ![c] = s]
    BY <1>1
  <2>2. row.call = c
    OBVIOUS
  <2> HIDE DEF s, row
  <2>3. \E r \in Present' : r.call = c
    BY <1>3, <2>2
  <2>4. \A d \in Call \ {c} :
          (\E r \in Present' : r.call = d) <=> (\E r \in Present : r.call = d)
    BY <1>3, <2>2
  <2>5. QED
    BY <2>1, <2>3, <2>4, OneEntryChanges
<1>5. verdict[c] = "none" /\ c \notin sent
  BY DEF Insert, Inv, ControlInv, VerdictInv, Guarded
<1>6. EntryOf(c) = "none"
  <2>1. RowsOf(c) = {}
    BY <1>5 DEF Inv, RowInv, TrailMatchesVerdict
  <2>2. ~ \E r \in Present \cup purged : r.call = c
    BY <2>1 DEF RowsOf, Present, Gone
  <2>3. QED
    BY <2>2 DEF EntryOf
<1>7. sent' = sent
  BY DEF Insert
<1>8. CASE c \in Write
  BY <1>4, <1>5, <1>6, <1>7, <1>8 DEF Ledger!Intend
<1>9. CASE c \notin Write
  BY <1>4, <1>5, <1>6, <1>7, <1>9 DEF Ledger!Record
<1>10. QED
  BY <1>8, <1>9, CallAssumption

(* Settling a row in place is the ledger's Resolve. *)
LEMMA SettleIsLedgerStep ==
  ASSUME Inv, Inv', NEW d \in Call, NEW i \in DOMAIN live, NEW v \in Verdict,
         live[i] = [call |-> d, status |-> "pending"],
         verdict[d] = "pending",
         live' = [live EXCEPT ![i].status = v],
         verdict' = [verdict EXCEPT ![d] = v],
         UNCHANGED <<archives, sent>>
  PROVE  Ledger!Resolve(d, v)
<1> DEFINE row == [call |-> d, status |-> v]
<1>1. live \in Seq(Row) /\ v \in Status
  BY DEF Inv, TypeOK, Status
<1>2. /\ DOMAIN live' = DOMAIN live
      /\ \A j \in DOMAIN live : live'[j] = IF j = i THEN row ELSE live[j]
  BY <1>1, RowUpdate
<1>3. Archived' = Archived
  BY DEF Archived
<1>4. row \in Range(live') /\ row.call = d
  BY <1>2, Zenon DEF Range
<1>5. \E r \in Present' : r.call = d
  BY <1>4 DEF Present
<1>6. ASSUME NEW c \in Call \ {d}
      PROVE  (\E r \in Present' : r.call = c) <=> (\E r \in Present : r.call = c)
  <2>1. \A r : r.call # d => (r \in Range(live') <=> r \in Range(live))
    BY <1>2 DEF Range
  <2>2. QED
    BY <2>1, <1>3 DEF Present
<1>7. [c \in Call |-> EntryOf(c)]' = [[c \in Call |-> EntryOf(c)] EXCEPT ![d] = v]
  BY <1>5, <1>6, OneEntryChanges
<1>8. EntryOf(d) = "pending"
  BY OpenIsPresent
<1>9. QED
  BY <1>7, <1>8 DEF Ledger!Resolve

(* Retention is the ledger's Expire, for the calls whose last row went. *)
LEMMA TrimIsLedgerStep ==
  ASSUME Inv, Inv', NEW c \in Call, RotationInit(c)
  PROVE  \E C \in SUBSET Call : Ledger!Expire(C)
<1> DEFINE Kept(d) == \E r \in Present' : r.call = d
           Had(d) == \E r \in Present : r.call = d
           C == {d \in Call : Had(d) /\ ~Kept(d)}
<1>1. verdict' = verdict /\ live' = live /\ sent' = sent
  BY DEF RotationInit
<1>2. Archived' \subseteq Archived
  <2>1. CASE archives' = archives
    BY <2>1 DEF Archived
  <2>2. CASE archives' = SubSeq(archives, Surplus + 1, Len(archives))
    <3>1. Surplus \in 0..Len(archives)
      BY TrimType DEF Inv, TypeOK
    <3>2. Range(archives) = {archives[i] : i \in 1..Surplus} \cup Range(archives')
      BY <2>2, <3>1, RangeSplit DEF Inv, TypeOK
    <3>3. QED
      BY <3>2 DEF Archived
  <2>3. QED
    BY <2>1, <2>2 DEF RotationInit
<1>3. Present' \subseteq Present
  BY <1>1, <1>2 DEF Present
<1>4. ASSUME NEW d \in C PROVE EntryOf(d) \in Verdict /\ EntryOf(d)' = "expired"
  <2>1. PICK r \in Present : r.call = d
    OBVIOUS
  <2>2. r \in Archived /\ r.status # "pending"
    BY <2>1, <1>1 DEF Present, Gone, Inv, RowInv, GoneAreSettled
  <2>3. r \in RowsOf(d)
    BY <2>1, <2>2 DEF RowsOf, Gone
  <2>4. verdict[d] # "none" /\ r = [call |-> d, status |-> verdict[d]]
    BY <2>3 DEF Inv, RowInv, TrailMatchesVerdict
  <2>5. verdict[d] \in Verdict
    BY <2>2, <2>4 DEF Inv, TypeOK, Status
  <2>6. EntryOf(d) = verdict[d]
    BY <2>1, Entries DEF EntriesAreVerdicts
  <2>7. EntryOf(d)' = "expired"
    BY <1>1, <2>4, EntriesNext DEF EntriesAreVerdicts
  <2>8. QED
    BY <2>5, <2>6, <2>7
<1>5. ASSUME NEW d \in Call \ C PROVE EntryOf(d)' = EntryOf(d)
  <2>1. Had(d) <=> Kept(d)
    BY <1>3
  <2>2. QED
    BY <2>1, <1>1, Entries, EntriesNext DEF EntriesAreVerdicts
<1>6. [d \in Call |-> EntryOf(d)]' =
        [d \in Call |-> IF d \in C THEN "expired" ELSE [e \in Call |-> EntryOf(e)][d]]
  BY <1>4, <1>5
<1>7. \A d \in C : [e \in Call |-> EntryOf(e)][d] \in Verdict
  BY <1>4
<1> HIDE DEF C
<1>8. Ledger!Expire(C)
  BY <1>1, <1>6, <1>7 DEF Ledger!Expire
<1>9. QED
  BY <1>8 DEF C

LEMMA LedgerStep == Inv /\ Inv' /\ [Next]_vars => [Ledger!Next]_(Ledger!vars)
<1> SUFFICES ASSUME Inv, Inv', [Next]_vars PROVE [Ledger!Next]_(Ledger!vars)
  OBVIOUS
<1>1. ASSUME UNCHANGED <<live, archives, verdict, sent>> PROVE UNCHANGED Ledger!vars
  <2>1. Present' = Present
    BY <1>1 DEF Present, Archived
  <2>2. QED
    BY <1>1, <2>1, SameEntries DEF Ledger!vars
<1>2. ASSUME NEW p \in Process, StartEngine(p) \/ Crash(p) PROVE UNCHANGED Ledger!vars
  BY <1>1, <1>2 DEF StartEngine, Crash, store
<1>3. ASSUME NEW c \in Call, NEW p \in Process,
             BeginWrite(c, p) \/ RefuseWrite(c, p) \/ BeginLog(c, p)
      PROVE  UNCHANGED Ledger!vars
  BY <1>1, <1>3 DEF BeginWrite, RefuseWrite, BeginLog, store
<1>4. ASSUME NEW c \in Call,
             \/ TakeGuard(c) \/ CheckRotation(c) \/ Checkpoint(c)
             \/ LogFails(c) \/ LoseVerdict(c)
      PROVE  UNCHANGED Ledger!vars
  BY <1>1, <1>4 DEF TakeGuard, CheckRotation, Checkpoint, LogFails, LoseVerdict, store
<1>5. ASSUME NEW c \in Call, Rename(c) PROVE UNCHANGED Ledger!vars
  <2>1. CASE UNCHANGED <<live, archives>>
    BY <1>1, <1>5, <2>1 DEF Rename
  <2>2. CASE live' = <<>> /\ archives' = Append(archives, Range(main))
    <3>1. main = live /\ archives \in Seq(SUBSET Row) /\ Range(main) \in SUBSET Row
      BY <1>5, RangeType DEF Rename, Inv, ControlInv, RotationInv, TypeOK
    <3>2. Range(archives') = Range(archives) \cup {Range(live)}
      BY <2>2, <3>1, RangeOfAppend
    <3>3. Archived' = Archived \cup Range(live)
      <4>1. UNION (Range(archives) \cup {Range(live)}) = (UNION Range(archives)) \cup Range(live)
        OBVIOUS
      <4>2. QED
        BY <4>1, <3>2 DEF Archived
    <3>4. Range(live') = {}
      BY <2>2 DEF Range
    <3>5. Present' = Present
      BY <3>3, <3>4 DEF Present
    <3>6. QED
      BY <1>5, <3>5, SameEntries DEF Rename, Ledger!vars
  <2>3. QED
    BY <1>5, <2>1, <2>2 DEF Rename
<1>6. ASSUME NEW c \in Call, RotationInit(c) PROVE Ledger!Next
  BY <1>6, TrimIsLedgerStep DEF Ledger!Next
<1>7. ASSUME NEW c \in Call, Insert(c) PROVE Ledger!Next
  BY <1>7, InsertIsLedgerStep DEF Ledger!Next
<1>8. ASSUME NEW c \in Call, Perform(c) PROVE Ledger!Next
  <2>1. verdict[c] = "pending"
    BY <1>8 DEF Perform, Inv, ControlInv, VerdictInv, InFlight
  <2>2. EntryOf(c) = "pending"
    BY <2>1, OpenIsPresent
  <2>3. [d \in Call |-> EntryOf(d)]' = [d \in Call |-> EntryOf(d)]
    <3>1. Present' = Present /\ verdict' = verdict
      BY <1>8 DEF Perform, store, Present, Archived
    <3>2. QED
      BY <3>1, SameEntries
  <2>4. Ledger!Send(c)
    BY <1>8, <2>2, <2>3 DEF Perform, Ledger!Send
  <2>5. QED
    BY <2>4 DEF Ledger!Next
<1>9. ASSUME NEW c \in Call, NEW v \in Verdict, ResolveIntent(c, v) PROVE Ledger!Next
  <2>1. /\ rowid[c] \in DOMAIN live
        /\ live[rowid[c]] = [call |-> c, status |-> "pending"]
        /\ verdict[c] = "pending"
    BY <1>9, ResolvesOwnRow DEF ResolveIntent
  <2>2. Ledger!Resolve(c, v)
    BY <1>9, <2>1, SettleIsLedgerStep DEF ResolveIntent
  <2>3. QED
    BY <2>2 DEF Ledger!Next
<1>10. ASSUME NEW i \in DOMAIN live, Reconcile(i) PROVE Ledger!Next
  <2> DEFINE d == live[i].call
  <2>1. live[i].status = "pending" /\ live[i] \in Row
    BY <1>10 DEF Reconcile, Inv, TypeOK
  <2>2. d \in Call /\ live[i] = [call |-> d, status |-> "pending"]
    BY <2>1 DEF Row
  <2>3. verdict[d] = "pending"
    BY <2>1, PendingRowIsOpen
  <2>4. /\ live' = [live EXCEPT ![i].status = "unknown"]
        /\ verdict' = [verdict EXCEPT ![d] = "unknown"]
        /\ UNCHANGED <<archives, sent>> /\ "unknown" \in Verdict
    BY <1>10, CallAssumption DEF Reconcile
  <2>5. Ledger!Resolve(d, "unknown")
    BY <2>2, <2>3, <2>4, SettleIsLedgerStep
  <2>6. QED
    BY <2>2, <2>4, <2>5 DEF Ledger!Next
<1>11. CASE AutoCheckpoint \/ UNCHANGED vars
  BY <1>1, <1>11 DEF AutoCheckpoint, vars, store
<1>12. QED
  BY <1>2, <1>3, <1>4, <1>5, <1>6, <1>7, <1>8, <1>9, <1>10, <1>11 DEF Next, Advance

(***************************************************************************)
(* The files, the guard and the crashes implement the ledger: every entry  *)
(* is announced before its request, resolved once, and dropped only when   *)
(* it has its verdict.                                                     *)
(***************************************************************************)
THEOREM StoreImplementsLedger == Spec => ImplementsLedger
<1>1. Init => Ledger!Init
  BY LedgerInit
<1>2. Inv /\ Inv' /\ [Next]_vars => [Ledger!Next]_(Ledger!vars)
  BY LedgerStep
<1>3. QED
  BY <1>1, <1>2, Invariance, PTL DEF Spec, ImplementsLedger, Ledger!Spec

=============================================================================
