------------------------------- MODULE UndoApply -------------------------------
(***************************************************************************)
(* Undo tokens: governance/undo.py keeps them, undo_apply of               *)
(* mcp_server/tools/undo.py spends them.  Applies run concurrently, in one *)
(* process or several, and meet on the store and on the management         *)
(* servers: the token's status is read in one transaction and written in   *)
(* another, with the inverse tool's call in between.                       *)
(*                                                                         *)
(* Which server a call without a target reaches is its process's affair:   *)
(* each reads the configuration once, before its first connection, and     *)
(* keeps it until it ends, whatever becomes of the file (_conn_mgr).       *)
(***************************************************************************)
EXTENDS Naturals, FiniteSets, Sequences

CONSTANTS
  Process,      \* MCP servers and CLI commands
  Apply,        \* invocations of undo_apply, each made at most once
  Token,        \* undo ids
  Server,       \* targets of the configuration
  Unnamed,      \* a target argument left out
  Empty,        \* a target argument of "", which chooses no target either
  MaxVersions   \* bound of the model: versions of the configuration file

ASSUME UnnamedAssumption ==
  /\ Unnamed \notin Server /\ Empty \notin Server /\ Unnamed # Empty
  /\ MaxVersions \in Nat

VARIABLES
  state,        \* undo_log.status of a token, "absent" before it is recorded
  origin,       \* the server the original write changed
  named,        \* the target its orig_params name, as _origin_target reads them
  firsts,       \* the first target of every version of the configuration file
  view,         \* the version a process holds in _conn_mgr, 0 for none
  pc,           \* where the thread of an apply stands
  process,      \* the process it runs in
  token,        \* the token it was asked to apply
  asked,        \* its target argument
  answer,       \* what its caller got
  ran,          \* per apply: where its inverse took effect (history)
  disturbed,    \* tokens with overlapping applies, or one that ended unclean (history)
  written,      \* the version the original write of a token ran under (history)
  under         \* the version the inverse of an apply ran under (history)

tokens == <<state, origin, named>>
config == <<firsts, view>>
request == <<process, token, asked>>
vars == <<tokens, config, pc, request, answer, ran, disturbed, written, under>>

Target == Server \cup {Unnamed, Empty}

TypeOK ==
  /\ state \in [Token -> {"absent", "recorded", "applied"}]
  /\ origin \in [Token -> Server \cup {Unnamed}] /\ named \in [Token -> Server \cup {Unnamed}]
  /\ firsts \in Seq(Server) /\ firsts # <<>>
  /\ view \in [Process -> 0..Len(firsts)]
  /\ pc \in [Apply -> {"new", "checked", "mark", "ended", "dead"}]
  /\ process \in [Apply -> Process] /\ token \in [Apply -> Token]
  /\ asked \in [Apply -> Target]
  /\ answer \in [Apply -> {"none", "preview", "error", "failed", "applied"}]
  /\ ran \in [Apply -> SUBSET Server]
  /\ disturbed \subseteq Token
  /\ written \in [Token -> 0..Len(firsts)] /\ under \in [Apply -> 0..Len(firsts)]

Init ==
  /\ state = [t \in Token |-> "absent"]
  /\ origin = [t \in Token |-> Unnamed] /\ named = [t \in Token |-> Unnamed]
  /\ \E s \in Server : firsts = <<s>>
  /\ view = [p \in Process |-> 0]
  /\ pc = [a \in Apply |-> "new"]
  /\ process \in [Apply -> Process] /\ token \in [Apply -> Token]
  /\ asked \in [Apply -> Target]
  /\ answer = [a \in Apply |-> "none"]
  /\ ran = [a \in Apply |-> {}]
  /\ disturbed = {}
  /\ written = [t \in Token |-> 0] /\ under = [a \in Apply |-> 0]

(* The call is over: a payload or a result for the caller. *)
Answers(a, what) ==
  /\ pc' = [pc EXCEPT ![a] = "ended"]
  /\ answer' = [answer EXCEPT ![a] = what]

Goto(a, label) ==
  /\ pc' = [pc EXCEPT ![a] = label]
  /\ UNCHANGED answer

-----------------------------------------------------------------------------
(* The configuration. *)

(* `init`, or an editor, puts a target first; nobody who runs is told. *)
Reconfigure(s) ==
  /\ Len(firsts) < MaxVersions
  /\ firsts' = Append(firsts, s)
  /\ UNCHANGED <<tokens, view, pc, request, answer, ran, disturbed, written, under>>

(* _get_connection: the version a process works with, read at its first connection ... *)
Version(p) == IF view[p] = 0 THEN Len(firsts) ELSE view[p]

Holds(p) == view' = [view EXCEPT ![p] = Version(p)]

(* ... and ConnectionManager.connect: a target that is left out or empty is the first one. *)
Resolve(p, target) == IF target \in Server THEN target ELSE firsts[Version(p)]

-----------------------------------------------------------------------------
(* A confirmed write, on the target it named or on the default one, leaves a token. *)
Record(t, p, target) ==
  /\ state[t] = "absent"
  /\ state' = [state EXCEPT ![t] = "recorded"]
  /\ named' = [named EXCEPT ![t] = IF target \in Server THEN target ELSE Unnamed]
  /\ origin' = [origin EXCEPT ![t] = Resolve(p, target)]
  /\ written' = [written EXCEPT ![t] = Version(p)]
  /\ Holds(p)
  /\ UNCHANGED <<firsts, pc, request, answer, ran, disturbed, under>>

Underway(t) == {a \in Apply : token[a] = t /\ pc[a] \in {"checked", "mark"}}

(***************************************************************************)
(* undo_apply reads the record and refuses an unknown or spent token, one  *)
(* with unreadable parameters or an inverse tool nobody registered; it may *)
(* also be stopped by the budget or by an audit store that cannot record.  *)
(* A dry run goes no further than the preview.                             *)
(***************************************************************************)
LookupUnchecked(a) ==
  /\ pc[a] = "new"
  /\ state[token[a]] # "absent"
  /\ Goto(a, "checked")
  /\ UNCHANGED <<tokens, config, request, ran, disturbed, written, under>>

Lookup(a) ==
  /\ pc[a] = "new"
  /\ \/ Answers(a, "error") /\ UNCHANGED disturbed
     \/ /\ state[token[a]] = "recorded"
        /\ Answers(a, "preview")
        /\ UNCHANGED disturbed
     \/ /\ state[token[a]] = "recorded"
        /\ Goto(a, "checked")
        /\ disturbed' = IF Underway(token[a]) # {} THEN disturbed \cup {token[a]}
                                                   ELSE disturbed
  /\ UNCHANGED <<tokens, config, request, ran, written, under>>

(***************************************************************************)
(* The target of the replay: the caller's, be it empty, else the original  *)
(* call's, else none at all.                                               *)
(***************************************************************************)
Chosen(a) == IF asked[a] # Unnamed THEN asked[a] ELSE named[token[a]]

ReplayTargetIgnoringOrigin(a) == Resolve(process[a], asked[a])

ReplayTargetUnresolved(a) == Chosen(a)

ReplayTarget(a) == Resolve(process[a], Chosen(a))

(* The inverse takes effect where its process's configuration says. *)
Effect(a) ==
  /\ Holds(process[a])
  /\ ran' = [ran EXCEPT ![a] = {ReplayTarget(a)}]
  /\ under' = [under EXCEPT ![a] = Version(process[a])]

(* It stops before its process has a connection, or after. *)
NoEffect(a) ==
  /\ Holds(process[a]) \/ UNCHANGED view
  /\ UNCHANGED <<ran, under>>

(***************************************************************************)
(* The inverse runs through its own governed tool.  It succeeds; or it     *)
(* returns an error payload, having done nothing, or having lost the       *)
(* response to a request that took effect; or its row cannot be settled    *)
(* and AuditUnavailable reaches undo_apply, effect or not.                 *)
(***************************************************************************)
DispatchIgnoringError(a) ==
  /\ pc[a] = "checked"
  /\ Effect(a) \/ NoEffect(a)
  /\ Goto(a, "mark")
  /\ UNCHANGED <<tokens, firsts, request, disturbed, written>>

Dispatch(a) ==
  /\ pc[a] = "checked"
  /\ \/ Effect(a) /\ Goto(a, "mark") /\ UNCHANGED disturbed
     \/ /\ Effect(a)
        /\ \E what \in {"failed", "error"} : Answers(a, what)
        /\ disturbed' = disturbed \cup {token[a]}
     \/ /\ NoEffect(a)
        /\ \E what \in {"failed", "error"} : Answers(a, what)
        /\ UNCHANGED disturbed
  /\ UNCHANGED <<tokens, firsts, request, written>>

(* The token is spent; a store that cannot write raises into an error payload. *)
Mark(a) ==
  /\ pc[a] = "mark"
  /\ \/ /\ state' = [state EXCEPT ![token[a]] = "applied"]
        /\ Answers(a, "applied")
        /\ UNCHANGED disturbed
     \/ /\ Answers(a, "error")
        /\ disturbed' = disturbed \cup {token[a]}
        /\ UNCHANGED state
  /\ UNCHANGED <<origin, named, config, request, ran, written, under>>

(***************************************************************************)
(* A process ends, between its applies or in the middle of them; a request *)
(* may then still be on its way.  The next one reads the file anew.        *)
(***************************************************************************)
Cut(p) == {a \in Apply : process[a] = p /\ pc[a] \in {"checked", "mark"}}

Restart(p) ==
  /\ view[p] # 0 \/ Cut(p) # {}
  /\ view' = [view EXCEPT ![p] = 0]
  /\ pc' = [a \in Apply |-> IF a \in Cut(p) THEN "dead" ELSE pc[a]]
  /\ \E sent \in SUBSET {a \in Cut(p) : pc[a] = "checked"} :
       /\ ran' = [a \in Apply |-> IF a \in sent THEN {ReplayTarget(a)} ELSE ran[a]]
       /\ under' = [a \in Apply |-> IF a \in sent THEN Version(p) ELSE under[a]]
  /\ disturbed' = disturbed \cup {token[a] : a \in Cut(p)}
  /\ UNCHANGED <<tokens, firsts, request, answer, written>>

Next ==
  \/ \E s \in Server : Reconfigure(s)
  \/ \E t \in Token, p \in Process, target \in Target : Record(t, p, target)
  \/ \E a \in Apply : Lookup(a) \/ Dispatch(a) \/ Mark(a)
  \/ \E p \in Process : Restart(p)

Spec == Init /\ [][Next]_vars

-----------------------------------------------------------------------------
(* Properties. *)

(* The applies of a token whose inverse took effect. *)
Effects(t) == {a \in Apply : token[a] = t /\ ran[a] # {}}

(***************************************************************************)
(* A spent token was really spent: its inverse took effect at least once,  *)
(* and so it did for everyone who was told "applied".                      *)
(***************************************************************************)
SpentMeansDone ==
  /\ \A t \in Token : state[t] = "applied" => Effects(t) # {}
  /\ \A a \in Apply : answer[a] = "applied" => a \in Effects(token[a])

(***************************************************************************)
(* A token is applied at most once as long as its applies do not overlap,  *)
(* none of them dies and none loses a response or a store write: what is   *)
(* left of the documented promise.                                         *)
(***************************************************************************)
OnceUndisturbed ==
  \A t \in Token \ disturbed : Cardinality(Effects(t)) <= 1

(***************************************************************************)
(* The inverse changes the server the write changed (_origin_target): the  *)
(* one it named, whatever became of the configuration and whichever        *)
(* process replays; the default one if the two processes read the same     *)
(* version of the configuration.  A process that holds an older one, be it *)
(* the writer or the replayer, sends the inverse of an unnamed write       *)
(* elsewhere.  Only a caller who names a server gets that one.             *)
(***************************************************************************)
SameVersion(a) == written[token[a]] = under[a]

ReplayHitsOrigin ==
  \A t \in Token : \A a \in Effects(t) :
    /\ asked[a] \in Server => ran[a] = {asked[a]}
    /\ asked[a] = Unnamed /\ (named[t] \in Server \/ SameVersion(a)) => ran[a] = {origin[t]}

(***************************************************************************)
(* undo_apply's docstring: "A token can only be applied once."             *)
(***************************************************************************)
AppliedOnce == \A t \in Token : Cardinality(Effects(t)) <= 1

===============================================================================
