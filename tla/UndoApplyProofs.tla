---------------------------- MODULE UndoApplyProofs ----------------------------
(***************************************************************************)
(* Proofs about UndoApply, for any processes, applies, tokens, servers and *)
(* versions of the configuration.  The inductive invariant follows an      *)
(* apply along its thread (Thread), a token to the server its write        *)
(* changed and the version it read (Origin), and shows that what one apply *)
(* of an undisturbed token does excludes every other (Alone).              *)
(***************************************************************************)
EXTENDS UndoApply, FiniteSetTheorems, TLAPS

(* Where an apply stands tells whether its inverse ran and its token exists. *)
Thread ==
  \A a \in Apply :
    /\ pc[a] \in {"new", "checked"} => ran[a] = {}
    /\ pc[a] \in {"checked", "mark"} => state[token[a]] # "absent"
    /\ pc[a] = "mark" => ran[a] # {}
    /\ ran[a] # {} => state[token[a]] # "absent"
    /\ answer[a] = "applied" => ran[a] # {}

(* A spent token has an apply whose inverse ran. *)
Spent == \A t \in Token : state[t] = "applied" => \E a \in Apply : token[a] = t /\ ran[a] # {}

(* What a recorded token knows of the server its write changed. *)
Origin ==
  \A t \in Token : state[t] # "absent" =>
    /\ named[t] \in Server => origin[t] = named[t]
    /\ written[t] # 0
    /\ named[t] = Unnamed => origin[t] = firsts[written[t]]

(* The applies of an undisturbed token exclude each other. *)
Alone ==
  \A a, b \in Apply : token[a] = token[b] /\ token[a] \notin disturbed =>
    /\ pc[a] \in {"checked", "mark"} /\ pc[b] \in {"checked", "mark"} => a = b
    /\ ran[a] # {} /\ pc[a] # "mark" => state[token[a]] = "applied"
    /\ pc[a] \in {"checked", "mark"} => state[token[a]] = "recorded"
    /\ pc[a] = "checked" => ran[b] = {}
    /\ ran[a] # {} /\ ran[b] # {} => a = b

(* The part of the type invariant that says nothing of the configuration. *)
Shape ==
  /\ state \in [Token -> {"absent", "recorded", "applied"}]
  /\ origin \in [Token -> Server \cup {Unnamed}] /\ named \in [Token -> Server \cup {Unnamed}]
  /\ pc \in [Apply -> {"new", "checked", "mark", "ended", "dead"}]
  /\ process \in [Apply -> Process] /\ token \in [Apply -> Token]
  /\ answer \in [Apply -> {"none", "preview", "error", "failed", "applied"}]
  /\ ran \in [Apply -> SUBSET Server]
  /\ DOMAIN written = Token /\ DOMAIN under = Apply

IndInv == TypeOK /\ Shape /\ Thread /\ Spent /\ Origin /\ Alone /\ ReplayHitsOrigin

-----------------------------------------------------------------------------
(* The type invariant: a replay has a server to go to. *)

LEMMA VersionType ==
  ASSUME TypeOK, NEW p \in Process
  PROVE  /\ Version(p) \in 1..Len(firsts)
         /\ firsts[Version(p)] \in Server
         /\ \A target : Resolve(p, target) \in Server
<1>1. Len(firsts) \in Nat \ {0} /\ view[p] \in 0..Len(firsts) BY DEF TypeOK
<1>2. Version(p) \in 1..Len(firsts) BY <1>1 DEF Version
<1>3. firsts[Version(p)] \in Server BY <1>2 DEF TypeOK
<1> QED BY <1>2, <1>3 DEF Resolve

LEMMA ReplayTargetType ==
  ASSUME TypeOK, NEW a \in Apply
  PROVE  ReplayTarget(a) \in Server /\ Version(process[a]) \in 1..Len(firsts)
BY VersionType DEF ReplayTarget, TypeOK

LEMMA InitType == Init => TypeOK
BY DEF Init, TypeOK, Target

(* The file grows by a version; the older ones stay what they were. *)
LEMMA VersionsStay ==
  ASSUME TypeOK, NEW s \in Server, Reconfigure(s)
  PROVE  /\ firsts' \in Seq(Server) /\ firsts' # <<>>
         /\ 0..Len(firsts) \subseteq 0..Len(firsts')
         /\ \A v \in 1..Len(firsts) : firsts'[v] = firsts[v]
<1>1. firsts \in Seq(Server) /\ firsts # <<>> BY DEF TypeOK
<1>2. firsts' = Append(firsts, s) BY DEF Reconfigure
<1>3. firsts' \in Seq(Server) /\ Len(firsts') = Len(firsts) + 1 BY <1>1, <1>2
<1>4. \A v \in 1..Len(firsts) : firsts'[v] = firsts[v] BY <1>1, <1>2
<1> QED BY <1>1, <1>3, <1>4

(* An apply's own steps keep its thread, its answer and its token well formed. *)
LEMMA StepType ==
  ASSUME Shape, disturbed \subseteq Token,
         NEW a \in Apply, Lookup(a) \/ Dispatch(a) \/ Mark(a)
  PROVE  /\ state' \in [Token -> {"absent", "recorded", "applied"}]
         /\ pc' \in [Apply -> {"new", "checked", "mark", "ended", "dead"}]
         /\ answer' \in [Apply -> {"none", "preview", "error", "failed", "applied"}]
         /\ disturbed' \subseteq Token
<1> USE DEF Shape
<1>1. \/ UNCHANGED answer /\ pc' \in {[pc EXCEPT ![a] = l] : l \in {"checked", "mark"}}
      \/ /\ pc' = [pc EXCEPT ![a] = "ended"]
         /\ \E what \in {"preview", "error", "failed", "applied"} :
              answer' = [answer EXCEPT ![a] = what]
  BY DEF Lookup, Dispatch, Mark, Answers, Goto
<1>2. disturbed' = disturbed \/ disturbed' = disturbed \cup {token[a]}
  BY DEF Lookup, Dispatch, Mark
<1>3. state' = state \/ state' = [state EXCEPT ![token[a]] = "applied"]
  BY DEF Lookup, Dispatch, Mark, tokens
<1>4. pc' \in [Apply -> {"new", "checked", "mark", "ended", "dead"}] BY <1>1
<1>5. answer' \in [Apply -> {"none", "preview", "error", "failed", "applied"}] BY <1>1
<1> QED BY <1>2, <1>3, <1>4, <1>5

LEMMA NextType == TypeOK /\ [Next]_vars => TypeOK'
<1> SUFFICES ASSUME TypeOK, [Next]_vars PROVE TypeOK' OBVIOUS
<1> USE DEF TypeOK
<1>0. Shape /\ disturbed \subseteq Token BY DEF Shape
<1>1. ASSUME NEW s \in Server, Reconfigure(s) PROVE TypeOK'
  BY <1>1, VersionsStay DEF Reconfigure, tokens, request
<1>2. ASSUME NEW t \in Token, NEW p \in Process, NEW target \in Target, Record(t, p, target)
      PROVE  TypeOK'
  <2>1. Version(p) \in 0..Len(firsts) /\ Resolve(p, target) \in Server BY VersionType
  <2> QED BY <1>2, <2>1 DEF Record, Holds, request
<1>3. ASSUME NEW a \in Apply, Lookup(a) PROVE TypeOK'
  <2>1. UNCHANGED <<tokens, config, request, ran, written, under>> BY <1>3 DEF Lookup
  <2> QED BY <1>0, <1>3, <2>1, StepType DEF tokens, config, request
<1>4. ASSUME NEW a \in Apply, Dispatch(a) PROVE TypeOK'
  <2>1. ReplayTarget(a) \in Server /\ Version(process[a]) \in 0..Len(firsts)
    BY ReplayTargetType
  <2>2. UNCHANGED <<tokens, firsts, request, written>> BY <1>4 DEF Dispatch
  <2>3. view' \in [Process -> 0..Len(firsts)]
    <3>1. view' = view \/ view' = [view EXCEPT ![process[a]] = Version(process[a])]
      BY <1>4 DEF Dispatch, Effect, NoEffect, Holds
    <3> QED BY <2>1, <3>1
  <2>4. ran' \in [Apply -> SUBSET Server] /\ under' \in [Apply -> 0..Len(firsts)]
    <3>1. \/ UNCHANGED <<ran, under>>
          \/ /\ ran' = [ran EXCEPT ![a] = {ReplayTarget(a)}]
             /\ under' = [under EXCEPT ![a] = Version(process[a])]
      BY <1>4 DEF Dispatch, Effect, NoEffect
    <3>2. {ReplayTarget(a)} \in SUBSET Server BY <2>1
    <3>3. ran' \in [Apply -> SUBSET Server] BY <3>1, <3>2
    <3>4. under' \in [Apply -> 0..Len(firsts)] BY <2>1, <3>1
    <3> QED BY <3>3, <3>4
  <2>5. /\ pc' \in [Apply -> {"new", "checked", "mark", "ended", "dead"}]
        /\ answer' \in [Apply -> {"none", "preview", "error", "failed", "applied"}]
        /\ disturbed' \subseteq Token
    BY <1>0, <1>4, StepType
  <2> QED BY <2>2, <2>3, <2>4, <2>5 DEF tokens, request
<1>5. ASSUME NEW a \in Apply, Mark(a) PROVE TypeOK'
  <2>1. UNCHANGED <<origin, named, config, request, ran, written, under>> BY <1>5 DEF Mark
  <2> QED BY <1>0, <1>5, <2>1, StepType DEF config, request
<1>6. ASSUME NEW p \in Process, Restart(p) PROVE TypeOK'
  <2>1. \A a \in Apply : ReplayTarget(a) \in Server BY ReplayTargetType
  <2>2. Version(p) \in 0..Len(firsts) BY VersionType
  <2> QED BY <1>6, <2>1, <2>2 DEF Restart, Cut, tokens, request
<1>7. CASE UNCHANGED vars
  BY <1>7 DEF vars, tokens, config, request
<1> QED BY <1>1, <1>2, <1>3, <1>4, <1>5, <1>6, <1>7 DEF Next

-----------------------------------------------------------------------------
(* The rest, one lemma per action. *)

LEMMA InitInv == Init => IndInv
<1> SUFFICES ASSUME Init PROVE IndInv OBVIOUS
<1>1. TypeOK /\ Shape BY InitType DEF TypeOK, Shape
<1>2. Thread /\ Spent /\ Origin BY DEF Init, Thread, Spent, Origin
<1>3. Alone BY DEF Init, Alone
<1>4. ReplayHitsOrigin BY DEF Init, ReplayHitsOrigin, Effects
<1> QED BY <1>1, <1>2, <1>3, <1>4 DEF IndInv

(* The file moves under everyone; what was written and replayed under a version stays. *)
LEMMA ReconfigureInv ==
  ASSUME IndInv, NEW s \in Server, Reconfigure(s), TypeOK', Shape'
  PROVE  IndInv'
<1> USE DEF IndInv, Reconfigure, Shape, tokens, request
<1>1. Thread' BY DEF Thread
<1>2. Spent' BY DEF Spent
<1>3. Origin'
  <2>1. \A t \in Token : written[t] # 0 => written[t] \in 1..Len(firsts) BY DEF TypeOK
  <2> QED BY <2>1, VersionsStay DEF Origin
<1>4. Alone' BY DEF Alone
<1>5. ReplayHitsOrigin' BY DEF ReplayHitsOrigin, Effects, SameVersion
<1> QED BY <1>1, <1>2, <1>3, <1>4, <1>5

(* A new token had no apply that got past its lookup. *)
LEMMA RecordInv ==
  ASSUME IndInv, NEW t \in Token, NEW p \in Process, NEW target \in Target,
         Record(t, p, target), TypeOK', Shape'
  PROVE  IndInv'
<1> USE DEF IndInv, Record, Shape, request
<1>1. Thread' BY DEF Thread
<1>2. Spent' BY DEF Spent
<1>3. Origin'
  <2>1. Version(p) # 0 BY VersionType
  <2> QED BY <2>1, UnnamedAssumption DEF Origin, Resolve
<1>4. Alone' BY DEF Alone, Thread
<1>5. ReplayHitsOrigin' BY DEF ReplayHitsOrigin, Effects, SameVersion, Thread
<1> QED BY <1>1, <1>2, <1>3, <1>4, <1>5

(* A lookup that goes on found its token unspent; undisturbed, it is alone with it. *)
LEMMA LookupInv ==
  ASSUME IndInv, NEW a \in Apply, Lookup(a), TypeOK', Shape'
  PROVE  IndInv'
<1> USE DEF IndInv, Shape, tokens, config, request
<1>1. Thread' BY DEF Thread, Lookup, Answers, Goto
<1>2. Spent' BY DEF Spent, Lookup, Answers, Goto
<1>3. Origin' BY DEF Origin, Lookup, Answers, Goto
<1>4. Alone'
  <2>1. CASE pc' = [pc EXCEPT ![a] = "ended"] /\ UNCHANGED <<tokens, token, ran, disturbed>>
    BY <2>1 DEF Alone, Thread, Lookup
  <2>2. CASE /\ state[token[a]] = "recorded"
             /\ pc' = [pc EXCEPT ![a] = "checked"]
             /\ disturbed' = IF Underway(token[a]) # {} THEN disturbed \cup {token[a]}
                                                        ELSE disturbed
             /\ UNCHANGED <<tokens, token, ran>>
    BY <2>2 DEF Alone, Thread, Lookup, Underway
  <2> QED BY <2>1, <2>2 DEF Lookup, Answers, Goto
<1>5. ReplayHitsOrigin' BY DEF ReplayHitsOrigin, Effects, SameVersion, Lookup, Answers, Goto
<1> QED BY <1>1, <1>2, <1>3, <1>4, <1>5

(* Inverses that run go to the server chosen, to the origin, or where their version says. *)
LEMMA EffectHitsOrigin ==
  ASSUME IndInv, UNCHANGED <<tokens, firsts, request, written>>,
         \A b \in Apply :
           \/ ran'[b] = ran[b] /\ under'[b] = under[b]
           \/ /\ pc[b] = "checked"
              /\ ran'[b] = {ReplayTarget(b)} /\ under'[b] = Version(process[b])
  PROVE  ReplayHitsOrigin'
<1> USE DEF IndInv, tokens, request
<1> SUFFICES ASSUME NEW t \in Token, NEW b \in Apply, token[b] = t, ran'[b] # {}
             PROVE  /\ asked[b] \in Server => ran'[b] = {asked[b]}
                    /\ asked[b] = Unnamed /\ (named[t] \in Server \/ written[t] = under'[b])
                         => ran'[b] = {origin[t]}
  BY DEF ReplayHitsOrigin, Effects, SameVersion
<1>1. CASE ran'[b] = ran[b] /\ under'[b] = under[b]
  BY <1>1 DEF ReplayHitsOrigin, Effects, SameVersion
<1>2. CASE /\ pc[b] = "checked"
           /\ ran'[b] = {ReplayTarget(b)} /\ under'[b] = Version(process[b])
  <2>1. state[t] # "absent" BY <1>2 DEF Thread
  <2>2. named[t] \in Server \cup {Unnamed} BY DEF Shape
  <2> QED BY <1>2, <2>1, <2>2, UnnamedAssumption DEF Origin, ReplayTarget, Chosen, Resolve
<1> QED BY <1>1, <1>2

LEMMA DispatchInv ==
  ASSUME IndInv, NEW a \in Apply, Dispatch(a), TypeOK', Shape'
  PROVE  IndInv'
<1> USE DEF IndInv, Shape, tokens, request
<1>0. /\ pc[a] = "checked" /\ ran[a] = {}
      /\ UNCHANGED <<tokens, firsts, request, written>>
      /\ ran' = ran \/ ran' = [ran EXCEPT ![a] = {ReplayTarget(a)}]
  BY DEF Dispatch, Effect, NoEffect, Thread
<1>1. ASSUME ran' = [ran EXCEPT ![a] = {ReplayTarget(a)}],
             pc' = [pc EXCEPT ![a] = "mark"], UNCHANGED <<disturbed, answer>>
      PROVE  Alone' /\ Thread'
  <2>1. ran'[a] # {} /\ \A b \in Apply \ {a} : ran'[b] = ran[b] BY <1>1
  <2>2. pc'[a] = "mark" /\ \A b \in Apply \ {a} : pc'[b] = pc[b] BY <1>1
  <2>3. Alone' BY <1>0, <1>1, <2>1, <2>2 DEF Alone
  <2>4. Thread' BY <1>0, <1>1, <2>1, <2>2 DEF Thread
  <2> QED BY <2>3, <2>4
<1>2. ASSUME ran' = [ran EXCEPT ![a] = {ReplayTarget(a)}],
             \E what \in {"failed", "error"} : Answers(a, what),
             disturbed' = disturbed \cup {token[a]}
      PROVE  Alone' /\ Thread'
  <2>1. ran'[a] # {} /\ \A b \in Apply \ {a} : ran'[b] = ran[b] BY <1>2
  <2>2. pc'[a] = "ended" /\ \A b \in Apply \ {a} : pc'[b] = pc[b] BY <1>2 DEF Answers
  <2>3. Alone' BY <1>0, <1>2, <2>1, <2>2 DEF Alone
  <2>4. Thread' BY <1>0, <1>2, <2>1, <2>2 DEF Thread, Answers
  <2> QED BY <2>3, <2>4
<1>3. ASSUME UNCHANGED <<ran, disturbed>>, \E what \in {"failed", "error"} : Answers(a, what)
      PROVE  Alone' /\ Thread'
  <2>1. pc'[a] = "ended" /\ \A b \in Apply \ {a} : pc'[b] = pc[b] BY <1>3 DEF Answers
  <2>2. Alone' BY <1>0, <1>3, <2>1 DEF Alone
  <2>3. Thread' BY <1>0, <1>3, <2>1 DEF Thread, Answers
  <2> QED BY <2>2, <2>3
<1>4. Alone' /\ Thread' BY <1>1, <1>2, <1>3 DEF Dispatch, Effect, NoEffect, Goto
<1>5. Spent' BY <1>0 DEF Spent
<1>6. Origin' BY <1>0 DEF Origin
<1>7. ReplayHitsOrigin'
  BY <1>0, EffectHitsOrigin DEF Dispatch, Effect, NoEffect
<1> QED BY <1>4, <1>5, <1>6, <1>7

LEMMA MarkInv ==
  ASSUME IndInv, NEW a \in Apply, Mark(a), TypeOK', Shape'
  PROVE  IndInv'
<1> USE DEF IndInv, Shape, tokens, config, request
<1>1. Thread' BY DEF Thread, Mark, Answers
<1>2. Spent' BY DEF Spent, Thread, Mark, Answers
<1>3. Origin' BY DEF Origin, Thread, Mark, Answers
<1>4. Alone' BY DEF Alone, Thread, Mark, Answers
<1>5. ReplayHitsOrigin' BY DEF ReplayHitsOrigin, Effects, SameVersion, Mark, Answers
<1> QED BY <1>1, <1>2, <1>3, <1>4, <1>5

(* Whatever a process was doing with a token when it ended, the token is disturbed. *)
LEMMA RestartInv ==
  ASSUME IndInv, NEW p \in Process, Restart(p), TypeOK', Shape'
  PROVE  IndInv'
<1> USE DEF IndInv, Shape, tokens, request
<1>1. PICK sent \in SUBSET {a \in Cut(p) : pc[a] = "checked"} :
        /\ ran' = [a \in Apply |-> IF a \in sent THEN {ReplayTarget(a)} ELSE ran[a]]
        /\ under' = [a \in Apply |-> IF a \in sent THEN Version(p) ELSE under[a]]
  BY DEF Restart
<1>2. /\ pc' = [a \in Apply |-> IF a \in Cut(p) THEN "dead" ELSE pc[a]]
      /\ disturbed' = disturbed \cup {token[a] : a \in Cut(p)}
      /\ UNCHANGED <<tokens, firsts, request, answer, written>>
  BY DEF Restart
<1>3. \A a \in Apply : ran'[a] = {} => ran[a] = {} BY <1>1 DEF Cut, Thread
<1>4. Thread' BY <1>1, <1>2 DEF Thread, Cut
<1>5. Spent' BY <1>2, <1>3 DEF Spent
<1>6. Origin' BY <1>2 DEF Origin
<1>7. Alone'
  <2>1. \A a \in Apply : token[a] \notin disturbed' =>
          pc'[a] = pc[a] /\ ran'[a] = ran[a] /\ token[a] \notin disturbed
    BY <1>1, <1>2
  <2> QED BY <1>2, <2>1 DEF Alone
<1>8. ReplayHitsOrigin'
  <2>1. \A b \in Apply :
          \/ ran'[b] = ran[b] /\ under'[b] = under[b]
          \/ /\ pc[b] = "checked"
             /\ ran'[b] = {ReplayTarget(b)} /\ under'[b] = Version(process[b])
    BY <1>1 DEF Cut
  <2> QED BY <1>2, <2>1, EffectHitsOrigin
<1> QED BY <1>4, <1>5, <1>6, <1>7, <1>8

LEMMA NextInv == IndInv /\ [Next]_vars => IndInv'
<1> SUFFICES ASSUME IndInv, [Next]_vars PROVE IndInv' OBVIOUS
<1>1. TypeOK' /\ Shape' BY NextType DEF IndInv, TypeOK, Shape
<1>2. CASE UNCHANGED vars
  <2> USE DEF vars, tokens, config, request, IndInv
  <2>1. Thread' BY <1>2 DEF Thread
  <2>2. Spent' /\ Origin' BY <1>2 DEF Spent, Origin
  <2>3. Alone' BY <1>2 DEF Alone
  <2>4. ReplayHitsOrigin' BY <1>2 DEF ReplayHitsOrigin, Effects, SameVersion
  <2> QED BY <1>1, <2>1, <2>2, <2>3, <2>4
<1> QED
  BY <1>1, <1>2, RecordInv, ReconfigureInv, LookupInv, DispatchInv, MarkInv, RestartInv DEF Next

LEMMA Inductive == Spec => []IndInv
BY InitInv, NextInv, PTL DEF Spec

-----------------------------------------------------------------------------
(* The theorems. *)

(* The state of tokens, applies and servers is well formed: a replay always has a server. *)
THEOREM TypeCorrect == Spec => []TypeOK
<1>1. IndInv => TypeOK BY DEF IndInv
<1> QED BY Inductive, <1>1, PTL

(* Spent means done: no token is marked, and nobody told "applied", without an effect. *)
THEOREM SpentIsDone == Spec => []SpentMeansDone
<1>1. IndInv => SpentMeansDone BY DEF IndInv, TypeOK, Spent, Thread, SpentMeansDone, Effects
<1> QED BY Inductive, <1>1, PTL

(***************************************************************************)
(* The inverse of a write goes to the server of the write, when that was   *)
(* named; the inverse of an unnamed one does when it is replayed under the *)
(* configuration the write was made under, in whichever process.           *)
(***************************************************************************)
THEOREM ReplaysHitOrigin == Spec => []ReplayHitsOrigin
<1>1. IndInv => ReplayHitsOrigin BY DEF IndInv
<1> QED BY Inductive, <1>1, PTL

(* Undisturbed, a token is applied at most once, however many ask for it. *)
THEOREM AppliedOnceUndisturbed == Spec => []OnceUndisturbed
<1>1. IndInv => OnceUndisturbed
  <2> SUFFICES ASSUME IndInv, NEW t \in Token \ disturbed
               PROVE  Cardinality(Effects(t)) <= 1
    BY DEF OnceUndisturbed
  <2>1. \A a, b \in Effects(t) : a = b BY DEF IndInv, Alone, Effects
  <2>2. CASE Effects(t) = {} BY <2>2, FS_EmptySet
  <2>3. ASSUME NEW a \in Effects(t) PROVE Cardinality(Effects(t)) <= 1
    <3>1. Effects(t) = {a} BY <2>1
    <3> QED BY <3>1, FS_Singleton
  <2> QED BY <2>2, <2>3
<1> QED BY Inductive, <1>1, PTL

===============================================================================
