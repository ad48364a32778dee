--------------------------- MODULE GovernedCallProofs ---------------------------
(***************************************************************************)
(* Theorems about GovernedCall, for any number of concurrent calls on any  *)
(* endpoints and profiles.  The inductive invariant follows one call along *)
(* its thread, in four parts: what has been sent, what became of it, what  *)
(* is on record, and what an undo would restore.                           *)
(***************************************************************************)
EXTENDS GovernedCall, TLAPS

Sent == inbox \cup applied \cup refused

(* A POST is on its way, applied or refused, and only a real write whose   *)
(* intent is on record sends one.                                          *)
SendInv ==
  /\ inbox \cap applied = {} /\ inbox \cap refused = {} /\ applied \cap refused = {}
  /\ \A c \in Call :
       /\ pc[c] # "new" => plan[c] \in Plan
       /\ pc[c] \in {"get", "post", "wait"} /\ Writes(c) => row[c] = "pending"
       /\ pc[c] \in {"post", "wait"} => Writes(c)
       /\ pc[c] = "wait" => c \in Sent
       /\ c \in Sent =>
            /\ pc[c] \in {"wait", "annotate", "finalize", "ended", "dead"}
            /\ Writes(c) /\ row[c] # "none"

(* What the wrapper believes of a write, and what the server knows. *)
OutcomeInv ==
  \A c \in Call :
    /\ pc[c] \in {"new", "checked", "get", "post", "wait"} =>
         status[c] = "ok" /\ result[c] = "none" /\ told[c] = "nothing"
    /\ pc[c] = "annotate" => result[c] \in {"fine", "failed"} /\ status[c] = "ok"
    /\ pc[c] \in {"finalize", "ended"} => result[c] # "none" \/ c \in interrupted
    /\ result[c] # "undetermined"
    /\ status[c] # "ok" => c \notin Sent /\ result[c] = "failed"
    /\ result[c] = "fine" /\ Writes(c) => c \in applied
    /\ result[c] = "failed" /\ Writes(c) => c \in lost \/ c \notin inbox \cup applied

(* The row, the breaker and the caller get the same verdict. *)
RecordInv ==
  \A c \in Call :
    /\ row[c] \notin {"none", "pending"} => pc[c] = "ended" /\ row[c] = FinalStatus(c)
    /\ pc[c] \in {"finalize", "ended"} => told[c] # "nothing"
    /\ report[c] # "none" => pc[c] = "ended"
    /\ report[c] = "success" => FinalStatus(c) = "ok"
    /\ pc[c] \in {"get", "post", "wait", "annotate"} /\ Writes(c) => intent[c]
    /\ told[c] = "result" =>
         /\ pc[c] \in {"finalize", "ended", "dead"}
         /\ status[c] = "ok" /\ result[c] \in {"fine", "failed"}
         /\ Writes(c) => intent[c]
         /\ pc[c] = "ended" /\ Writes(c) => row[c] = FinalStatus(c)

(* The profile read before the POST is the one the POST replaces, unless   *)
(* the call was overtaken.                                                 *)
UndoInv ==
  \A c \in Call :
    /\ (pc[c] = "post" \/ c \in inbox) /\ c \notin overtaken =>
         prior[c] = profile[plan[c].endpoint]
    /\ c \in applied /\ Reassigns(c) /\ c \notin overtaken => replaced[c] = prior[c]
    /\ token[c] # NoProfile =>
         c \in applied /\ Reassigns(c) /\ token[c] = prior[c]

Inv == TypeOK /\ SendInv /\ OutcomeInv /\ RecordInv /\ UndoInv

-----------------------------------------------------------------------------
LEMMA InitInv == Init => Inv
<1> SUFFICES ASSUME Init PROVE Inv
  OBVIOUS
<1> USE ProfileAssumption DEF Init
<1>1. TypeOK
  BY DEF TypeOK
<1>2. SendInv /\ OutcomeInv
  BY DEF SendInv, OutcomeInv, Sent
<1>3. RecordInv /\ UndoInv
  BY DEF RecordInv, UndoInv
<1>4. QED
  BY <1>1, <1>2, <1>3 DEF Inv

LEMMA NextType == TypeOK /\ SendInv /\ [Next]_vars => TypeOK'
<1> SUFFICES ASSUME TypeOK, SendInv, [Next]_vars PROVE TypeOK'
  OBVIOUS
<1> USE ProfileAssumption DEF Goto, wrapper, records, server, history, TypeOK, Plan, Error
<1>1. ASSUME NEW c \in Call, PreCheck(c) PROVE TypeOK'
  <2>1. plan' \in [Call -> Plan \cup {Nothing}]
    BY <1>1 DEF PreCheck
  <2>2. armed' \in [Call -> BOOLEAN]
    BY <1>1 DEF PreCheck
  <2>3. /\ status' \in [Call -> {"ok", "error", "budget_exceeded"}]
        /\ result' \in [Call -> {"none", "fine"} \cup Error]
    BY <1>1 DEF PreCheck
  <2>4. told' \in [Call -> {"nothing", "result", "exception"}]
    BY <1>1 DEF PreCheck
  <2>5. QED
    BY <1>1, <2>1, <2>2, <2>3, <2>4 DEF PreCheck
<1>2. ASSUME NEW c \in Call, BeginWrite(c) PROVE TypeOK'
  <2>1. intent' \in [Call -> BOOLEAN]
    BY <1>2 DEF BeginWrite
  <2>2. row' \in [Call -> {"none", "pending", "ok", "error", "unknown", "budget_exceeded"}]
    BY <1>2 DEF BeginWrite
  <2>3. status' \in [Call -> {"ok", "error", "budget_exceeded"}]
    BY <1>2 DEF BeginWrite, Raises
  <2>4. result' \in [Call -> {"none", "fine"} \cup Error]
    BY <1>2 DEF BeginWrite, Raises
  <2>5. told' \in [Call -> {"nothing", "result", "exception"}]
    BY <1>2 DEF BeginWrite, Raises
  <2>6. QED
    BY <1>2, <2>1, <2>2, <2>3, <2>4, <2>5 DEF BeginWrite
<1>3. ASSUME NEW c \in Call, GetEndpoint(c) PROVE TypeOK'
  BY <1>3 DEF GetEndpoint, Returns, Flatten, Transport, UndeterminedErrors, SendInv
<1>4. ASSUME NEW c \in Call, Post(c) PROVE TypeOK'
  BY <1>4 DEF Post, Returns, Flatten, Transport, UndeterminedErrors
<1>5. ASSUME NEW c \in Call, GetReply(c) PROVE TypeOK'
  BY <1>5 DEF GetReply, Returns, Flatten, Transport, UndeterminedErrors
<1>6. ASSUME NEW c \in Call, LoseReply(c) PROVE TypeOK'
  BY <1>6 DEF LoseReply, Returns, Flatten, Transport, UndeterminedErrors
<1>7. ASSUME NEW c \in Call, Interrupt(c) PROVE TypeOK'
  BY <1>7 DEF Interrupt
<1>8. ASSUME NEW c \in Call, Annotate(c) PROVE TypeOK'
  BY <1>8 DEF Annotate, Inverse
<1>9. ASSUME NEW c \in Call, Finalize(c) PROVE TypeOK'
  BY <1>9 DEF Finalize, FinalStatus
<1>10. ASSUME NEW c \in Call, Die(c) PROVE TypeOK'
  BY <1>10 DEF Die
<1>11. ASSUME NEW c \in Call, ServerApply(c) PROVE TypeOK'
  BY <1>11, SMTT(20) DEF ServerApply, Reassigns, SendInv, Sent
<1>12. ASSUME NEW c \in Call, ServerRefuse(c) PROVE TypeOK'
  BY <1>12 DEF ServerRefuse
<1>13. CASE UNCHANGED vars
  BY <1>13 DEF vars
<1>14. QED
  BY <1>1, <1>2, <1>3, <1>4, <1>5, <1>6, <1>7, <1>8, <1>9, <1>10, <1>11, <1>12, <1>13 DEF Next, Step

LEMMA NextSend == TypeOK /\ SendInv /\ [Next]_vars => SendInv'
<1> SUFFICES ASSUME TypeOK, SendInv, [Next]_vars PROVE SendInv'
  OBVIOUS
<1> USE DEF Goto, wrapper, records, server, history, TypeOK, SendInv, Sent, Writes
<1>1. ASSUME NEW c \in Call, PreCheck(c) PROVE SendInv'
  BY <1>1 DEF PreCheck
<1>2. ASSUME NEW c \in Call, BeginWrite(c) PROVE SendInv'
  BY <1>2 DEF BeginWrite, Raises
<1>3. ASSUME NEW c \in Call, GetEndpoint(c) PROVE SendInv'
  BY <1>3 DEF GetEndpoint, Returns, Flatten, Transport, UndeterminedErrors
<1>4. ASSUME NEW c \in Call, Post(c) PROVE SendInv'
  BY <1>4 DEF Post, Returns, Flatten, Transport, UndeterminedErrors
<1>5. ASSUME NEW c \in Call, GetReply(c) PROVE SendInv'
  BY <1>5 DEF GetReply, Returns, Flatten, Transport, UndeterminedErrors
<1>6. ASSUME NEW c \in Call, LoseReply(c) PROVE SendInv'
  BY <1>6 DEF LoseReply, Returns, Flatten, Transport, UndeterminedErrors
<1>7. ASSUME NEW c \in Call, Interrupt(c) PROVE SendInv'
  BY <1>7 DEF Interrupt
<1>8. ASSUME NEW c \in Call, Annotate(c) PROVE SendInv'
  BY <1>8 DEF Annotate, Inverse
<1>9. ASSUME NEW c \in Call, Finalize(c) PROVE SendInv'
  BY <1>9 DEF Finalize, FinalStatus
<1>10. ASSUME NEW c \in Call, Die(c) PROVE SendInv'
  BY <1>10 DEF Die
<1>11. ASSUME NEW c \in Call, ServerApply(c) PROVE SendInv'
  BY <1>11 DEF ServerApply
<1>12. ASSUME NEW c \in Call, ServerRefuse(c) PROVE SendInv'
  BY <1>12 DEF ServerRefuse
<1>13. CASE UNCHANGED vars
  BY <1>13 DEF vars
<1>14. QED
  BY <1>1, <1>2, <1>3, <1>4, <1>5, <1>6, <1>7, <1>8, <1>9, <1>10, <1>11, <1>12, <1>13 DEF Next, Step

LEMMA NextOutcome == TypeOK /\ SendInv /\ OutcomeInv /\ [Next]_vars => OutcomeInv'
<1> SUFFICES ASSUME TypeOK, SendInv, OutcomeInv, [Next]_vars PROVE OutcomeInv'
  OBVIOUS
<1> USE DEF Goto, wrapper, records, server, history, TypeOK, SendInv, OutcomeInv, Sent, Writes, Error
<1>1. ASSUME NEW c \in Call, PreCheck(c) PROVE OutcomeInv'
  BY <1>1 DEF PreCheck
<1>2. ASSUME NEW c \in Call, BeginWrite(c) PROVE OutcomeInv'
  BY <1>2 DEF BeginWrite, Raises
<1>3. ASSUME NEW c \in Call, GetEndpoint(c) PROVE OutcomeInv'
  BY <1>3 DEF GetEndpoint, Returns, Flatten, Transport, UndeterminedErrors
<1>4. ASSUME NEW c \in Call, Post(c) PROVE OutcomeInv'
  BY <1>4 DEF Post, Returns, Flatten, Transport, UndeterminedErrors
<1>5. ASSUME NEW c \in Call, GetReply(c) PROVE OutcomeInv'
  BY <1>5 DEF GetReply, Returns, Flatten, Transport, UndeterminedErrors
<1>6. ASSUME NEW c \in Call, LoseReply(c) PROVE OutcomeInv'
  BY <1>6 DEF LoseReply, Returns, Flatten, Transport, UndeterminedErrors
<1>7. ASSUME NEW c \in Call, Interrupt(c) PROVE OutcomeInv'
  BY <1>7 DEF Interrupt
<1>8. ASSUME NEW c \in Call, Annotate(c) PROVE OutcomeInv'
  BY <1>8 DEF Annotate, Inverse
<1>9. ASSUME NEW c \in Call, Finalize(c) PROVE OutcomeInv'
  BY <1>9 DEF Finalize
<1>10. ASSUME NEW c \in Call, Die(c) PROVE OutcomeInv'
  BY <1>10 DEF Die
<1>11. ASSUME NEW c \in Call, ServerApply(c) PROVE OutcomeInv'
  BY <1>11 DEF ServerApply
<1>12. ASSUME NEW c \in Call, ServerRefuse(c) PROVE OutcomeInv'
  BY <1>12 DEF ServerRefuse
<1>13. CASE UNCHANGED vars
  BY <1>13 DEF vars
<1>14. QED
  BY <1>1, <1>2, <1>3, <1>4, <1>5, <1>6, <1>7, <1>8, <1>9, <1>10, <1>11, <1>12, <1>13 DEF Next, Step

LEMMA NextRecord == TypeOK /\ SendInv /\ OutcomeInv /\ RecordInv /\ [Next]_vars => RecordInv'
<1> SUFFICES ASSUME TypeOK, SendInv, OutcomeInv, RecordInv, [Next]_vars PROVE RecordInv'
  OBVIOUS
<1> USE DEF Goto, wrapper, records, server, history, TypeOK, SendInv, OutcomeInv, RecordInv, Writes, FinalStatus, Error
<1>1. ASSUME NEW c \in Call, PreCheck(c) PROVE RecordInv'
  BY <1>1 DEF PreCheck
<1>2. ASSUME NEW c \in Call, BeginWrite(c) PROVE RecordInv'
  BY <1>2 DEF BeginWrite, Raises
<1>3. ASSUME NEW c \in Call, GetEndpoint(c) PROVE RecordInv'
  BY <1>3 DEF GetEndpoint, Returns, Flatten, Transport, UndeterminedErrors
<1>4. ASSUME NEW c \in Call, Post(c) PROVE RecordInv'
  BY <1>4 DEF Post, Returns, Flatten, Transport, UndeterminedErrors
<1>5. ASSUME NEW c \in Call, GetReply(c) PROVE RecordInv'
  BY <1>5 DEF GetReply, Returns, Flatten, Transport, UndeterminedErrors
<1>6. ASSUME NEW c \in Call, LoseReply(c) PROVE RecordInv'
  BY <1>6 DEF LoseReply, Returns, Flatten, Transport, UndeterminedErrors
<1>7. ASSUME NEW c \in Call, Interrupt(c) PROVE RecordInv'
  BY <1>7 DEF Interrupt
<1>8. ASSUME NEW c \in Call, Annotate(c) PROVE RecordInv'
  BY <1>8 DEF Annotate, Inverse
<1>9. ASSUME NEW c \in Call, Finalize(c) PROVE RecordInv'
  BY <1>9 DEF Finalize
<1>10. ASSUME NEW c \in Call, Die(c) PROVE RecordInv'
  BY <1>10 DEF Die
<1>11. ASSUME NEW c \in Call, ServerApply(c) PROVE RecordInv'
  BY <1>11 DEF ServerApply
<1>12. ASSUME NEW c \in Call, ServerRefuse(c) PROVE RecordInv'
  BY <1>12 DEF ServerRefuse
<1>13. CASE UNCHANGED vars
  BY <1>13 DEF vars
<1>14. QED
  BY <1>1, <1>2, <1>3, <1>4, <1>5, <1>6, <1>7, <1>8, <1>9, <1>10, <1>11, <1>12, <1>13 DEF Next, Step

LEMMA NextUndo == TypeOK /\ SendInv /\ OutcomeInv /\ UndoInv /\ [Next]_vars => UndoInv'
<1> SUFFICES ASSUME TypeOK, SendInv, OutcomeInv, UndoInv, [Next]_vars PROVE UndoInv'
  OBVIOUS
<1> USE DEF Goto, wrapper, records, server, history, TypeOK, SendInv, OutcomeInv, UndoInv, Sent, Writes, Reassigns, Error
<1>1. ASSUME NEW c \in Call, PreCheck(c) PROVE UndoInv'
  BY <1>1 DEF PreCheck
<1>2. ASSUME NEW c \in Call, BeginWrite(c) PROVE UndoInv'
  BY <1>2 DEF BeginWrite, Raises
<1>3. ASSUME NEW c \in Call, GetEndpoint(c) PROVE UndoInv'
  BY <1>3 DEF GetEndpoint, Returns, Flatten, Transport, UndeterminedErrors
<1>4. ASSUME NEW c \in Call, Post(c) PROVE UndoInv'
  BY <1>4 DEF Post, Returns, Flatten, Transport, UndeterminedErrors
<1>5. ASSUME NEW c \in Call, GetReply(c) PROVE UndoInv'
  BY <1>5 DEF GetReply, Returns, Flatten, Transport, UndeterminedErrors
<1>6. ASSUME NEW c \in Call, LoseReply(c) PROVE UndoInv'
  BY <1>6 DEF LoseReply, Returns, Flatten, Transport, UndeterminedErrors
<1>7. ASSUME NEW c \in Call, Interrupt(c) PROVE UndoInv'
  BY <1>7 DEF Interrupt
<1>8. ASSUME NEW c \in Call, Annotate(c) PROVE UndoInv'
  BY <1>8 DEF Annotate, Inverse
<1>9. ASSUME NEW c \in Call, Finalize(c) PROVE UndoInv'
  BY <1>9 DEF Finalize
<1>10. ASSUME NEW c \in Call, Die(c) PROVE UndoInv'
  BY <1>10 DEF Die
<1>11. ASSUME NEW c \in Call, ServerApply(c) PROVE UndoInv'
  <2> DEFINE e == plan[c].endpoint
  <2>1. c \in inbox /\ e \in Endpoint
    BY <1>11 DEF ServerApply, Plan
  <2>2. CASE Reassigns(c)
    <3>1. /\ profile' = [profile EXCEPT ![e] = plan[c].profile]
          /\ replaced' = [replaced EXCEPT ![c] = profile[e]]
          /\ overtaken' = overtaken \cup
               {d \in Call \ {c} : (pc[d] = "post" \/ d \in inbox) /\ plan[d].endpoint = e}
          /\ inbox' = inbox \ {c} /\ applied' = applied \cup {c}
          /\ UNCHANGED <<pc, plan, prior, token>>
      BY <1>11, <2>2 DEF ServerApply
    <3> SUFFICES ASSUME NEW d \in Call
                 PROVE  /\ (pc[d] = "post" \/ d \in inbox') /\ d \notin overtaken' =>
                             prior[d] = profile'[plan[d].endpoint]
                        /\ d \in applied' /\ Reassigns(d) /\ d \notin overtaken' =>
                             replaced'[d] = prior[d]
                        /\ token[d] # NoProfile =>
                             d \in applied' /\ Reassigns(d) /\ token[d] = prior[d]
      BY <3>1
    <3>2. pc[c] # "post"
      BY <2>1
    <3>3. CASE d = c
      BY <2>1, <3>1, <3>2, <3>3
    <3>4. CASE d # c
      <4>1. ASSUME pc[d] = "post" \/ d \in inbox, d \notin overtaken'
            PROVE  prior[d] = profile'[plan[d].endpoint]
        <5>1. plan[d].endpoint # e /\ d \notin overtaken
          BY <3>1, <3>4, <4>1
        <5>2. plan[d] \in Plan
          BY <4>1
        <5>3. QED
          BY <2>1, <3>1, <4>1, <5>1, <5>2
      <4>2. d \notin overtaken' => d \notin overtaken
        BY <3>1
      <4>3. QED
        BY <3>1, <3>4, <4>1, <4>2
    <3>5. QED
      BY <3>3, <3>4
  <2>3. CASE ~Reassigns(c)
    BY <1>11, <2>1, <2>3 DEF ServerApply
  <2>4. QED
    BY <2>2, <2>3
<1>12. ASSUME NEW c \in Call, ServerRefuse(c) PROVE UndoInv'
  BY <1>12 DEF ServerRefuse
<1>13. CASE UNCHANGED vars
  BY <1>13 DEF vars
<1>14. QED
  BY <1>1, <1>2, <1>3, <1>4, <1>5, <1>6, <1>7, <1>8, <1>9, <1>10, <1>11, <1>12, <1>13 DEF Next, Step

LEMMA Invariance == Spec => []Inv
<1>1. Inv /\ [Next]_vars => Inv'
  BY NextType, NextSend, NextOutcome, NextRecord, NextUndo DEF Inv
<1>2. QED
  BY InitInv, <1>1, PTL DEF Spec

-----------------------------------------------------------------------------
(***************************************************************************)
(* Every reachable state is well typed.                                    *)
(***************************************************************************)
THEOREM TypeCorrect == Spec => []TypeOK
<1>1. Inv => TypeOK
  BY DEF Inv
<1>2. QED
  BY Invariance, <1>1, PTL

(***************************************************************************)
(* Whatever reached the server is a real write with a row in the trail:    *)
(* _begin_write fails closed, and reads and previews send nothing.         *)
(***************************************************************************)
THEOREM EffectsAreAudited == Spec => []EffectIsAudited
<1>1. Inv => EffectIsAudited
  BY DEF Inv, TypeOK, SendInv, Sent, EffectIsAudited
<1>2. QED
  BY Invariance, <1>1, PTL

(***************************************************************************)
(* Neither the trail nor the breaker asserts what did not happen, a lost   *)
(* response and an interrupted call aside (_finalize).                     *)
(***************************************************************************)
THEOREM VerdictsAreTrue == Spec => []VerdictIsTrue
<1>1. Inv => VerdictIsTrue
  BY DEF Inv, TypeOK, SendInv, OutcomeInv, RecordInv, Sent, FinalStatus, Error,
         VerdictIsTrue
<1>2. QED
  BY Invariance, <1>1, PTL

(***************************************************************************)
(* A recorded undo token reverses an assignment that took effect, to the   *)
(* profile it replaced unless it was overtaken (_assign_undo).             *)
(***************************************************************************)
THEOREM TokensAreInverse == Spec => []TokenIsInverse
<1>1. Inv => TokenIsInverse
  BY DEF Inv, UndoInv, TokenIsInverse
<1>2. QED
  BY Invariance, <1>1, PTL

(***************************************************************************)
(* The answer to a write is the verdict on record (finish_write raises     *)
(* where it cannot settle the row).                                        *)
(***************************************************************************)
THEOREM AnswersAreOnRecord == Spec => []AnswerIsOnRecord
<1>1. Inv => AnswerIsOnRecord
  BY DEF Inv, RecordInv, AnswerIsOnRecord
<1>2. QED
  BY Invariance, <1>1, PTL

(***************************************************************************)
(* A CLI write exits 0 only when it took effect and is on record as such,  *)
(* and 1 with a payload only when it did not (cli/_common.py, checked).    *)
(***************************************************************************)
THEOREM ExitsTellOutcome == Spec => []ExitTellsOutcome
<1>1. Inv => ExitTellsOutcome
  BY DEF Inv, TypeOK, SendInv, OutcomeInv, RecordInv, Sent, FinalStatus, Error,
         ExitStatus, ExitTellsOutcome
<1>2. QED
  BY Invariance, <1>1, PTL

===============================================================================
