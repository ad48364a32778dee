----------------------------- MODULE GovernedCall -----------------------------
(***************************************************************************)
(* A governed tool call from end to end: the wrapper of                    *)
(* endpoint_aiops/governance/decorators.py around the write tools of       *)
(* mcp_server/tools/remediation.py, their error flattening, the transport  *)
(* below them, and the management server that answers, late or never.      *)
(*                                                                         *)
(* Concurrent calls meet on the server only.  The audit store is reduced   *)
(* to what AuditLedger promises of it: one row per call.  The budget guard *)
(* and the pattern engine are reduced to their answers.                    *)
(***************************************************************************)
EXTENDS Naturals, FiniteSets

CONSTANTS
  Call,         \* invocations of a governed tool, each made at most once
  Endpoint,     \* managed endpoints
  Profile,      \* configuration profile ids
  NoProfile,    \* an endpoint without one; also "no undo token"
  Nothing       \* the plan of a call not made yet

ASSUME ProfileAssumption == NoProfile \notin Profile

VARIABLES
  pc,           \* where the thread of the call stands
  plan,         \* tool, arguments and caller
  status,       \* state.status
  result,       \* state.result: "none", "fine", or an error payload
  intent,       \* state.intent_id is not None
  armed,        \* an armed pattern matched
  prior,        \* the profile read before the POST
  row,          \* the audit row
  token,        \* the recorded undo: the profile it reassigns
  report,       \* what the circuit breaker was told
  told,         \* what the caller got
  profile,      \* server: each endpoint's profile
  inbox,        \* server: POSTs that arrived and wait
  applied,      \* server: calls whose POST took effect
  refused,      \* server: calls whose POST was rejected
  replaced,     \* server: the profile an assignment took away (history)
  lost,         \* calls whose response was lost (history)
  interrupted,  \* calls ended by KeyboardInterrupt (history)
  overtaken     \* calls whose endpoint was reassigned between GET and POST (history)

wrapper == <<status, result, intent, armed, prior>>
records == <<row, token, report, told>>
server == <<profile, inbox, applied, refused, replaced>>
history == <<lost, interrupted, overtaken>>
vars == <<pc, plan, wrapper, records, server, history>>

Plan == [tool : {"get", "reboot", "assign"}, dry : BOOLEAN,
         endpoint : Endpoint, profile : Profile, main : BOOLEAN]

Error == {"failed", "undetermined"}

(* Tools above risk_level "low", called for real. *)
Writes(c) == plan[c].tool # "get" /\ ~plan[c].dry

TypeOK ==
  /\ pc \in [Call -> {"new", "checked", "get", "post", "wait", "annotate",
                      "finalize", "ended", "dead"}]
  /\ plan \in [Call -> Plan \cup {Nothing}]
  /\ status \in [Call -> {"ok", "error", "budget_exceeded"}]
  /\ result \in [Call -> {"none", "fine"} \cup Error]
  /\ intent \in [Call -> BOOLEAN] /\ armed \in [Call -> BOOLEAN]
  /\ prior \in [Call -> Profile \cup {NoProfile}]
  /\ row \in [Call -> {"none", "pending", "ok", "error", "unknown", "budget_exceeded"}]
  /\ token \in [Call -> Profile \cup {NoProfile}]
  /\ report \in [Call -> {"none", "success", "failure"}]
  /\ told \in [Call -> {"nothing", "result", "exception"}]
  /\ profile \in [Endpoint -> Profile \cup {NoProfile}]
  /\ inbox \subseteq Call /\ applied \subseteq Call /\ refused \subseteq Call
  /\ replaced \in [Call -> Profile \cup {NoProfile}]
  /\ lost \subseteq Call /\ interrupted \subseteq Call /\ overtaken \subseteq Call

Init ==
  /\ pc = [c \in Call |-> "new"]
  /\ plan = [c \in Call |-> Nothing]
  /\ status = [c \in Call |-> "ok"]
  /\ result = [c \in Call |-> "none"]
  /\ intent = [c \in Call |-> FALSE] /\ armed = [c \in Call |-> FALSE]
  /\ prior = [c \in Call |-> NoProfile]
  /\ row = [c \in Call |-> "none"]
  /\ token = [c \in Call |-> NoProfile]
  /\ report = [c \in Call |-> "none"]
  /\ told = [c \in Call |-> "nothing"]
  /\ profile \in [Endpoint -> Profile \cup {NoProfile}]
  /\ inbox = {} /\ applied = {} /\ refused = {}
  /\ replaced = [c \in Call |-> NoProfile]
  /\ lost = {} /\ interrupted = {} /\ overtaken = {}

Goto(c, label) == pc' = [pc EXCEPT ![c] = label]

(* `except Exception` around the tool: sanitised, recorded, re-raised. *)
Raises(c) ==
  /\ status' = [status EXCEPT ![c] = "error"]
  /\ result' = [result EXCEPT ![c] = "failed"]
  /\ told' = [told EXCEPT ![c] = "exception"]

-----------------------------------------------------------------------------
(* The transport and the error flattening. *)

(* _send wraps every httpx error, whatever became of the request. *)
Transport(exc) ==
  IF exc \in {"ConnectError", "ReadTimeout"} THEN "EndpointApiError" ELSE exc

UndeterminedErrors == {"ReadTimeout"}

(* tool_errors turns an exception into a payload and classifies it by its type. *)
Flatten(exc) == IF exc \in UndeterminedErrors THEN "undetermined" ELSE "failed"

(* The tool returns a value or a payload: the wrapper annotates it. *)
Returns(c, value) ==
  /\ result' = [result EXCEPT ![c] = value]
  /\ Goto(c, "annotate")

-----------------------------------------------------------------------------
(* The wrapper, before the tool. *)

(***************************************************************************)
(* _CallState and _pre_check.  The budget guard lets the call pass or      *)
(* stops it: the stopped call is audited and BudgetExceeded raised.  The   *)
(* CLI runs a call on the main thread, the MCP server on a worker thread.  *)
(***************************************************************************)
PreCheck(c) ==
  /\ pc[c] = "new"
  /\ \E p \in Plan : plan' = [plan EXCEPT ![c] = p]
  /\ \/ \E a \in BOOLEAN : armed' = [armed EXCEPT ![c] = a]
        /\ Goto(c, "checked")
        /\ UNCHANGED <<status, result, told>>
     \/ /\ status' = [status EXCEPT ![c] = "budget_exceeded"]
        /\ result' = [result EXCEPT ![c] = "failed"]
        /\ told' = [told EXCEPT ![c] = "exception"]
        /\ Goto(c, "finalize")
        /\ UNCHANGED armed
  /\ UNCHANGED <<intent, prior, row, token, report, server, history>>

(* _begin_write: a write needs its intent committed, or is not made. *)
BeginWriteFailOpen(c) ==
  /\ pc[c] = "checked"
  /\ Goto(c, "get")
  /\ \/ Writes(c) /\ row' = [row EXCEPT ![c] = "pending"] /\ intent' = [intent EXCEPT ![c] = TRUE]
     \/ UNCHANGED <<row, intent>>
  /\ UNCHANGED <<plan, status, result, told, armed, prior, token, report, server, history>>

BeginWrite(c) ==
  /\ pc[c] = "checked"
  /\ \/ /\ ~Writes(c)
        /\ Goto(c, "get")
        /\ UNCHANGED <<row, intent, status, result, told>>
     \/ /\ Writes(c)
        /\ row' = [row EXCEPT ![c] = "pending"]
        /\ intent' = [intent EXCEPT ![c] = TRUE]
        /\ Goto(c, "get")
        /\ UNCHANGED <<status, result, told>>
     \/ /\ Writes(c)          \* AuditUnavailable
        /\ Raises(c)
        /\ Goto(c, "finalize")
        /\ UNCHANGED <<row, intent>>
  /\ UNCHANGED <<plan, armed, prior, token, report, server, history>>

-----------------------------------------------------------------------------
(* The tool. *)

(***************************************************************************)
(* Every tool reads the endpoint first: it is what "get" answers and what  *)
(* a preview shows, and a write keeps it as priorState.  The read may fail *)
(* on any ground; then nothing was sent.                                   *)
(***************************************************************************)
GetEndpoint(c) ==
  /\ pc[c] = "get"
  /\ \/ /\ prior' = [prior EXCEPT ![c] = profile[plan[c].endpoint]]
        /\ IF Writes(c) THEN Goto(c, "post") /\ UNCHANGED result
                        ELSE Returns(c, "fine")
     \/ Returns(c, Flatten(Transport("ReadTimeout"))) /\ UNCHANGED prior
  /\ UNCHANGED <<plan, status, intent, armed, records, server, history>>

(* The POST leaves, or the server cannot be reached. *)
Post(c) ==
  /\ pc[c] = "post"
  /\ \/ inbox' = inbox \cup {c} /\ Goto(c, "wait") /\ UNCHANGED result
     \/ Returns(c, Flatten(Transport("ConnectError"))) /\ UNCHANGED inbox
  /\ UNCHANGED <<plan, status, intent, armed, prior, records, profile, applied,
                 refused, replaced, history>>

(* The server answered 2xx, or with a status that raises EndpointApiError. *)
GetReply(c) ==
  /\ pc[c] = "wait"
  /\ \/ c \in applied /\ Returns(c, "fine")
     \/ c \in refused /\ Returns(c, Flatten("EndpointApiError"))
  /\ UNCHANGED <<plan, status, intent, armed, prior, records, server, history>>

(* httpx gives up reading; the request is wherever it is. *)
LoseReply(c) ==
  /\ pc[c] = "wait"
  /\ Returns(c, Flatten(Transport("ReadTimeout")))
  /\ lost' = lost \cup {c}
  /\ UNCHANGED <<plan, status, intent, armed, prior, records, server,
                 interrupted, overtaken>>

(* Ctrl-C while the main thread is blocked in the tool: no `except Exception` sees it. *)
Interrupt(c) ==
  /\ pc[c] \in {"get", "post", "wait"}
  /\ plan[c].main
  /\ interrupted' = interrupted \cup {c}
  /\ told' = [told EXCEPT ![c] = "exception"]
  /\ Goto(c, "finalize")
  /\ UNCHANGED <<plan, wrapper, row, token, report, server, lost, overtaken>>

-----------------------------------------------------------------------------
(* The wrapper, after the tool. *)

(* _assign_undo: the profile to reassign, if the call has a confirmed one. *)
InverseIgnoringOutcome(c) ==
  IF plan[c].tool = "assign" THEN prior[c] ELSE NoProfile

Inverse(c) ==
  IF plan[c].tool = "assign" /\ ~plan[c].dry /\ result[c] = "fine"
  THEN prior[c] ELSE NoProfile

(***************************************************************************)
(* _annotate_result and _record_undo, best effort.  No tool calls          *)
(* capture_prior_state, so an undetermined result has no inverse.          *)
(***************************************************************************)
Annotate(c) ==
  /\ pc[c] = "annotate"
  /\ token' \in {token, [token EXCEPT ![c] = Inverse(c)]}
  /\ told' = [told EXCEPT ![c] = "result"]
  /\ Goto(c, "finalize")
  /\ UNCHANGED <<plan, wrapper, row, report, server, history>>

(* The verdict _finalize derives from a payload that reports a failure. *)
FinalStatusAsReturned(c) == status[c]

FinalStatusFromResult(c) == IF status[c] = "ok" THEN result[c] ELSE status[c]

FinalStatus(c) ==
  IF status[c] # "ok" THEN status[c]
  ELSE IF result[c] = "undetermined" THEN "unknown"
  ELSE IF result[c] = "failed" THEN "error"
  ELSE "ok"

(***************************************************************************)
(* _finalize: the breaker is told of an armed call, then the row gets the  *)
(* verdict.  finish_write raises AuditUnavailable when it cannot settle    *)
(* the row, which replaces what the caller would have got; log() swallows  *)
(* its failure.                                                            *)
(***************************************************************************)
FinalizeSwallowing(c) ==
  /\ pc[c] = "finalize"
  /\ row' \in {row, [row EXCEPT ![c] = FinalStatus(c)]}
  /\ Goto(c, "ended")
  /\ UNCHANGED <<plan, wrapper, token, report, told, server, history>>

Finalize(c) ==
  /\ pc[c] = "finalize"
  /\ report' = [report EXCEPT ![c] =
       IF ~armed[c] THEN "none"
       ELSE IF FinalStatus(c) = "ok" THEN "success"
       ELSE "failure"]
  /\ \/ row' = [row EXCEPT ![c] = FinalStatus(c)] /\ UNCHANGED told
     \/ /\ told' = IF intent[c] THEN [told EXCEPT ![c] = "exception"] ELSE told
        /\ UNCHANGED row
  /\ Goto(c, "ended")
  /\ UNCHANGED <<plan, wrapper, token, server, history>>

(***************************************************************************)
(* What the shell sees of a call the CLI made: checked() for a real write, *)
(* dry_run_preview for a preview, and any exception.                       *)
(***************************************************************************)
ExitIgnoringResult(c) == IF told[c] = "exception" THEN 1 ELSE 0

ExitStatus(c) ==
  IF told[c] = "exception" THEN 1
  ELSE IF result[c] = "undetermined" /\ ~plan[c].dry THEN 2
  ELSE IF result[c] \in Error THEN 1
  ELSE 0

(* The process of the call dies; the server does not notice. *)
Die(c) ==
  /\ pc[c] \notin {"new", "ended", "dead"}
  /\ Goto(c, "dead")
  /\ UNCHANGED <<plan, wrapper, records, server, history>>

-----------------------------------------------------------------------------
(* The management server takes a POST, whether or not anyone still waits. *)

Reassigns(c) == plan[c].tool = "assign"

ServerApply(c) ==
  LET e == plan[c].endpoint
  IN  /\ c \in inbox
      /\ inbox' = inbox \ {c}
      /\ applied' = applied \cup {c}
      /\ IF Reassigns(c)
         THEN /\ profile' = [profile EXCEPT ![e] = plan[c].profile]
              /\ replaced' = [replaced EXCEPT ![c] = profile[e]]
              /\ overtaken' = overtaken \cup
                   {d \in Call \ {c} : /\ pc[d] = "post" \/ d \in inbox
                                       /\ plan[d].endpoint = e}
         ELSE UNCHANGED <<profile, replaced, overtaken>>
      /\ UNCHANGED <<pc, plan, wrapper, records, refused, lost, interrupted>>

ServerRefuse(c) ==
  /\ c \in inbox
  /\ inbox' = inbox \ {c}
  /\ refused' = refused \cup {c}
  /\ UNCHANGED <<pc, plan, wrapper, records, profile, applied, replaced, history>>

-----------------------------------------------------------------------------
Step(c) ==
  \/ PreCheck(c) \/ BeginWrite(c) \/ GetEndpoint(c) \/ Post(c)
  \/ GetReply(c) \/ LoseReply(c) \/ Interrupt(c)
  \/ Annotate(c) \/ Finalize(c) \/ Die(c)

Next == \E c \in Call : Step(c) \/ ServerApply(c) \/ ServerRefuse(c)

Spec == Init /\ [][Next]_vars

-----------------------------------------------------------------------------
(* Properties. *)

(***************************************************************************)
(* Whatever reached the server, even from a call that died, was lost or    *)
(* was interrupted, is a real write with a row in the audit trail: reads   *)
(* and previews send nothing, and begin_write fails closed.                *)
(***************************************************************************)
EffectIsAudited ==
  \A c \in inbox \cup applied \cup refused : Writes(c) /\ row[c] # "none"

(***************************************************************************)
(* The trail and the breaker never assert what did not happen: a write     *)
(* with an "ok" row or counted as a success took effect, and one with an   *)
(* "error" row did not and never will -- unless its response was lost or   *)
(* the call was interrupted, the two cases the code gets wrong.            *)
(***************************************************************************)
VerdictIsTrue ==
  \A c \in Call \ (lost \cup interrupted) :
    plan[c] # Nothing /\ Writes(c) =>
      /\ row[c] = "ok" \/ report[c] = "success" => c \in applied
      /\ row[c] = "error" => c \notin inbox \cup applied

(***************************************************************************)
(* An undo token belongs to an assignment that took effect, and reassigns  *)
(* exactly the profile that assignment replaced, unless another assignment *)
(* slipped in between the read and the write.                              *)
(***************************************************************************)
TokenIsInverse ==
  \A c \in Call : token[c] # NoProfile =>
    /\ c \in applied /\ Reassigns(c)
    /\ c \notin overtaken => token[c] = replaced[c]

(***************************************************************************)
(* A caller that got an answer to a write, success or error payload, can   *)
(* find the verdict in the trail: a write whose row could not be settled   *)
(* ends in AuditUnavailable, never in an answer.                           *)
(***************************************************************************)
AnswerIsOnRecord ==
  \A c \in Call :
    pc[c] = "ended" /\ told[c] = "result" /\ Writes(c) =>
      row[c] = FinalStatus(c)

(***************************************************************************)
(* A script may rely on the exit status of a CLI write: 0 only for a write *)
(* that took effect and is on record as such, 1 with a payload only for    *)
(* one that did not and will not -- a lost response aside, for which       *)
(* cli/_common.py keeps a status 2 that the flattening never lets it use.  *)
(***************************************************************************)
ExitTellsOutcome ==
  \A c \in Call :
    pc[c] = "ended" /\ plan[c].main /\ Writes(c) =>
      /\ ExitStatus(c) = 0 => c \in applied /\ row[c] = "ok"
      /\ ExitStatus(c) = 1 /\ told[c] = "result" /\ c \notin lost =>
           c \notin inbox \cup applied

(***************************************************************************)
(* outcome.py: "a row that confidently states the wrong outcome is worse   *)
(* than a missing one".  A write whose response was lost must not be       *)
(* audited as an error while the server may have applied it.               *)
(***************************************************************************)
LostWriteIsNotAnError ==
  \A c \in lost : row[c] = "error" => c \notin inbox \cup applied

(***************************************************************************)
(* cli/_common.py says of a command run through the harness: "Any other    *)
(* exception is audited ``error``".  A call stopped by Ctrl-C must not     *)
(* leave a row that says it succeeded.                                     *)
(***************************************************************************)
InterruptedCallIsNotOk ==
  \A c \in interrupted : row[c] # "ok"

===============================================================================
