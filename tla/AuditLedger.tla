----------------------------- MODULE AuditLedger -----------------------------
(***************************************************************************)
(* What the audit trail promises, with no file, lock or process in sight:  *)
(* every governed call has at most one entry; a write's entry is there, as *)
(* pending, before its request leaves; an entry gets its verdict once and  *)
(* never changes afterwards; and only an entry that has its verdict may be *)
(* dropped by the retention of archives.  AuditLog implements this.        *)
(***************************************************************************)

CONSTANTS
  Call,       \* governed calls, each issued at most once
  Verdict     \* what a finished entry may say

VARIABLES
  entry,      \* the one entry of each call
  sent        \* the calls whose upstream request has left

vars == <<entry, sent>>

Init ==
  /\ entry = [c \in Call |-> "none"]
  /\ sent = {}

(* A write announces itself. *)
Intend(c) ==
  /\ entry[c] = "none"
  /\ c \notin sent
  /\ entry' = [entry EXCEPT ![c] = "pending"]
  /\ UNCHANGED sent

(* Its request leaves only under a pending entry. *)
Send(c) ==
  /\ entry[c] = "pending"
  /\ sent' = sent \cup {c}
  /\ UNCHANGED entry

(* The verdict replaces the announcement, once. *)
Resolve(c, v) ==
  /\ entry[c] = "pending"
  /\ entry' = [entry EXCEPT ![c] = v]
  /\ UNCHANGED sent

(* A call that writes nothing upstream is recorded when it is over. *)
Record(c, v) ==
  /\ entry[c] = "none"
  /\ c \notin sent
  /\ entry' = [entry EXCEPT ![c] = v]
  /\ UNCHANGED sent

(* Retention drops entries that have their verdict, several at a time. *)
Expire(C) ==
  /\ \A c \in C : entry[c] \in Verdict
  /\ entry' = [c \in Call |-> IF c \in C THEN "expired" ELSE entry[c]]
  /\ UNCHANGED sent

Next ==
  \/ \E c \in Call : Intend(c) \/ Send(c)
  \/ \E c \in Call, v \in Verdict : Resolve(c, v) \/ Record(c, v)
  \/ \E C \in SUBSET Call : Expire(C)

Spec == Init /\ [][Next]_vars

=============================================================================
