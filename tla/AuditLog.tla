------------------------------- MODULE AuditLog -------------------------------
(***************************************************************************)
(* The audit store of endpoint_aiops/governance/audit.py: one SQLite file  *)
(* in WAL mode, shared by every process that runs governed calls (the MCP  *)
(* server, CLI commands), rotated into archives when it grows.             *)
(*                                                                         *)
(* Every thread of every process is interleaved at the points where the    *)
(* code can be overtaken: before and after the rotation guard, at each     *)
(* file operation of a rotation, between the intent, the upstream request  *)
(* and the verdict.  A process may die at any of them, and any storage     *)
(* operation may fail.                                                     *)
(***************************************************************************)
EXTENDS Naturals, Sequences, FiniteSets, Functions

CONSTANTS
  Call,             \* governed calls, each issued once
  Write,            \* the calls above risk_level "low": they record an intent
  Process,          \* operating-system processes sharing the store
  Verdict,          \* final row statuses
  Nobody,           \* holder of the guard when it is free, home of a new call
  MaxRows,          \* _MAX_DB_SIZE_BYTES, in rows
  MaxArchives,      \* _MAX_ARCHIVES
  MaxCrashes        \* bound of the model: process deaths

ASSUME CallAssumption ==
  /\ Write \subseteq Call
  /\ Nobody \notin Call \cup Process
  /\ "unknown" \in Verdict
  /\ {"none", "pending", "expired"} \cap Verdict = {}

ASSUME BoundAssumption ==
  /\ MaxRows \in Nat \ {0}
  /\ MaxArchives \in Nat \ {0}
  /\ MaxCrashes \in Nat

VARIABLES
  live,       \* rows of audit.db as a query sees them: main file and WAL; id = position
  main,       \* the rows the main file alone holds: what a rename moves away
  table,      \* audit.db exists and holds the audit_log table
  archives,   \* row sets of the kept audit.*.db files, oldest first
  purged,     \* rows deleted with an old archive (history, read by no action)
  guard,      \* holder of _rotation_guard (RLock and flock)
  engine,     \* per process: "down", or its AuditEngine "ok" / "broken" (_ok)
  blocked,    \* per process: AuditEngine._write_blocked
  pc,         \* per call: where its thread stands
  home,       \* per call: the process that runs it
  rowid,      \* per call: audit_id returned by begin_write
  verdict,    \* per call: the status it reported to its caller
  sent,       \* calls whose upstream request has left the process
  crashes     \* process deaths so far

store == <<live, main, table, archives, purged>>
engines == <<engine, blocked>>
vars == <<store, guard, engines, pc, home, rowid, verdict, sent, crashes>>

Status == {"pending"} \cup Verdict
Row == [call : Call, status : Status]

(* Where a thread may stand inside log() under the guard. *)
Guarded == {"guarded", "checkpoint", "rename", "init", "insert"}
(* A write whose thread still runs, its intent recorded. *)
InFlight == {"intended", "performed"}
Running == {"waiting"} \cup Guarded \cup InFlight
(* "unresolved": finish_write raised AuditUnavailable; "refused": begin_write  *)
(* did; "unlogged": the row of a read was lost; "dead": the process died.      *)
Ended == {"done", "unresolved", "refused", "unlogged", "dead"}

TypeOK ==
  /\ live \in Seq(Row) /\ main \in Seq(Row)
  /\ table \in BOOLEAN
  /\ archives \in Seq(SUBSET Row)
  /\ purged \in SUBSET Row
  /\ guard \in Call \cup {Nobody}
  /\ engine \in [Process -> {"down", "ok", "broken"}]
  /\ blocked \in [Process -> BOOLEAN]
  /\ pc \in [Call -> {"new"} \cup Running \cup Ended]
  /\ home \in [Call -> Process \cup {Nobody}]
  /\ rowid \in [Call -> Nat]
  /\ verdict \in [Call -> Status \cup {"none"}]
  /\ sent \in SUBSET Call
  /\ crashes \in Nat

Init ==
  /\ live = <<>> /\ main = <<>> /\ table = FALSE
  /\ archives = <<>> /\ purged = {}
  /\ guard = Nobody
  /\ engine = [p \in Process |-> "down"]
  /\ blocked = [p \in Process |-> FALSE]
  /\ pc = [c \in Call |-> "new"]
  /\ home = [c \in Call |-> Nobody]
  /\ rowid = [c \in Call |-> 0]
  /\ verdict = [c \in Call |-> "none"]
  /\ sent = {}
  /\ crashes = 0

(* The rows in the kept archives. *)
Archived == UNION Range(archives)

Goto(c, label) == pc' = [pc EXCEPT ![c] = label]

-----------------------------------------------------------------------------
(* Processes.                                                              *)

(***************************************************************************)
(* The first governed call of a process builds its AuditEngine.  _init_db  *)
(* runs outside the rotation guard, so it may fall into another process's  *)
(* rotation; it creates the table if it is missing.  A failure leaves _ok  *)
(* false for the life of the process, the table created or not.            *)
(***************************************************************************)
StartEngine(p) ==
  /\ engine[p] = "down"
  /\ \E opened \in {"ok", "broken"}, created \in BOOLEAN :
       /\ opened = "ok" => created
       /\ engine' = [engine EXCEPT ![p] = opened]
       /\ table' = (table \/ created)
  /\ blocked' = [blocked EXCEPT ![p] = FALSE]
  /\ UNCHANGED <<live, main, archives, purged, guard, pc, home, rowid,
                 verdict, sent, crashes>>

(***************************************************************************)
(* A process dies: its threads stop where they stand and the kernel drops  *)
(* its file lock.                                                          *)
(***************************************************************************)
Crash(p) ==
  /\ engine[p] # "down"
  /\ crashes < MaxCrashes
  /\ crashes' = crashes + 1
  /\ engine' = [engine EXCEPT ![p] = "down"]
  /\ pc' = [c \in Call |-> IF home[c] = p /\ pc[c] \in Running THEN "dead" ELSE pc[c]]
  /\ guard' = IF guard # Nobody /\ home[guard] = p THEN Nobody ELSE guard
  /\ UNCHANGED <<store, blocked, home, rowid, verdict, sent>>

-----------------------------------------------------------------------------
(* log() and begin_write().                                                *)

(* begin_write on an engine that can record: the thread goes for the guard. *)
BeginWrite(c, p) ==
  /\ pc[c] = "new" /\ c \in Write
  /\ engine[p] = "ok" /\ ~blocked[p]
  /\ home' = [home EXCEPT ![c] = p]
  /\ Goto(c, "waiting")
  /\ UNCHANGED <<store, guard, engines, rowid, verdict, sent, crashes>>

(* begin_write on a blocked or broken engine: AuditUnavailable, nothing is sent. *)
RefuseWrite(c, p) ==
  /\ pc[c] = "new" /\ c \in Write
  /\ engine[p] # "down"
  /\ engine[p] = "broken" \/ blocked[p]
  /\ home' = [home EXCEPT ![c] = p]
  /\ blocked' = [blocked EXCEPT ![p] = TRUE]
  /\ Goto(c, "refused")
  /\ UNCHANGED <<store, guard, engine, rowid, verdict, sent, crashes>>

(* A low-risk call is logged when it is over; a broken engine loses the row. *)
BeginLog(c, p) ==
  /\ pc[c] = "new" /\ c \notin Write
  /\ engine[p] # "down"
  /\ home' = [home EXCEPT ![c] = p]
  /\ Goto(c, IF engine[p] = "ok" THEN "waiting" ELSE "unlogged")
  /\ UNCHANGED <<store, guard, engines, rowid, verdict, sent, crashes>>

TakeGuard(c) ==
  /\ pc[c] = "waiting"
  /\ guard = Nobody
  /\ guard' = c
  /\ Goto(c, "guarded")
  /\ UNCHANGED <<store, engines, home, rowid, verdict, sent, crashes>>

(* The size is that of the main file; a pending row anywhere forbids rotation. *)
NeedsRotationIgnoringPending ==
  table /\ Len(main) >= MaxRows

NeedsRotation ==
  /\ table /\ Len(main) >= MaxRows
  /\ \A i \in DOMAIN live : live[i].status # "pending"

(* _maybe_rotate, up to its decision; any exception in it means "go on". *)
CheckRotation(c) ==
  /\ pc[c] = "guarded"
  /\ \/ NeedsRotation /\ Goto(c, "checkpoint")
     \/ Goto(c, "insert")
  /\ UNCHANGED <<store, guard, engines, home, rowid, verdict, sent, crashes>>

(* wal_checkpoint(TRUNCATE): busy with a reader, it gives the rotation up. *)
CheckpointIgnoringBusy(c) ==
  /\ pc[c] = "checkpoint"
  /\ main' \in {main, live}
  /\ Goto(c, "rename")
  /\ UNCHANGED <<live, table, archives, purged, guard, engines, home, rowid,
                 verdict, sent, crashes>>

Checkpoint(c) ==
  /\ pc[c] = "checkpoint"
  /\ \/ main' = live /\ Goto(c, "rename")
     \/ main' = main /\ Goto(c, "insert")
  /\ UNCHANGED <<live, table, archives, purged, guard, engines, home, rowid,
                 verdict, sent, crashes>>

(* The rename takes the main file away; the sidecars, and the WAL in them,  *)
(* are unlinked.  A failed rename is swallowed and the old file stays.      *)
Rename(c) ==
  /\ pc[c] = "rename"
  /\ \/ /\ archives' = Append(archives, Range(main))
        /\ live' = <<>> /\ main' = <<>> /\ table' = FALSE
        /\ Goto(c, "init")
     \/ /\ Goto(c, "insert")
        /\ UNCHANGED <<live, main, table, archives>>
  /\ UNCHANGED <<purged, guard, engines, home, rowid, verdict, sent, crashes>>

(* _cleanup_archives keeps the newest MaxArchives files. *)
Surplus == IF Len(archives) > MaxArchives THEN Len(archives) - MaxArchives ELSE 0

RotationInit(c) ==
  /\ pc[c] = "init"
  /\ \E created \in BOOLEAN, trimmed \in BOOLEAN :
       /\ trimmed => created
       /\ table' = (table \/ created)
       /\ archives' = IF trimmed THEN SubSeq(archives, Surplus + 1, Len(archives))
                                 ELSE archives
       /\ purged' = IF trimmed THEN purged \cup UNION {archives[i] : i \in 1..Surplus}
                               ELSE purged
  /\ Goto(c, "insert")
  /\ UNCHANGED <<live, main, guard, engines, home, rowid, verdict, sent, crashes>>

(* The committed row; the guard is released. A write now has its durable intent. *)
Insert(c) ==
  /\ pc[c] = "insert"
  /\ table
  /\ \E v \in Verdict :
       LET status == IF c \in Write THEN "pending" ELSE v
       IN  /\ live' = Append(live, [call |-> c, status |-> status])
           /\ verdict' = [verdict EXCEPT ![c] = status]
  /\ rowid' = [rowid EXCEPT ![c] = Len(live) + 1]
  /\ guard' = Nobody
  /\ Goto(c, IF c \in Write THEN "intended" ELSE "done")
  /\ UNCHANGED <<main, table, archives, purged, engines, home, sent, crashes>>

(***************************************************************************)
(* log() fails: the lock file, the connection, the INSERT or its commit.   *)
(* Without a table it can only fail.  Strict callers are refused and their *)
(* engine is blocked; a read goes unlogged.                                *)
(***************************************************************************)
LogFailsKeepingGuard(c) ==
  /\ pc[c] \in {"waiting", "insert"}
  /\ blocked' = [blocked EXCEPT ![home[c]] = @ \/ c \in Write]
  /\ Goto(c, IF c \in Write THEN "refused" ELSE "unlogged")
  /\ UNCHANGED <<store, guard, engine, home, rowid, verdict, sent, crashes>>

(* ... as if begin_write did not ask for a strict log(): no row and no id. *)
LogFailsNotStrict(c) ==
  /\ pc[c] \in {"waiting", "insert"}
  /\ guard' = IF guard = c THEN Nobody ELSE guard
  /\ rowid' = [rowid EXCEPT ![c] = Nobody]
  /\ Goto(c, IF c \in Write THEN "intended" ELSE "unlogged")
  /\ UNCHANGED <<store, engines, home, verdict, sent, crashes>>

LogFails(c) ==
  /\ pc[c] \in {"waiting", "insert"}
  /\ guard' = IF guard = c THEN Nobody ELSE guard
  /\ blocked' = [blocked EXCEPT ![home[c]] = @ \/ c \in Write]
  /\ Goto(c, IF c \in Write THEN "refused" ELSE "unlogged")
  /\ UNCHANGED <<store, engine, home, rowid, verdict, sent, crashes>>

-----------------------------------------------------------------------------
(* The governed function and finish_write().                               *)

(* The tool's request leaves the process. *)
Perform(c) ==
  /\ pc[c] = "intended"
  /\ sent' = sent \cup {c}
  /\ Goto(c, "performed")
  /\ UNCHANGED <<store, guard, engines, home, rowid, verdict, crashes>>

(* UPDATE ... WHERE id = ? AND status = 'pending' would match a row. *)
Resolvable(c) ==
  /\ table
  /\ rowid[c] \in DOMAIN live
  /\ live[rowid[c]].status = "pending"

(* finish_write resolves its row.  The rotation guard is not taken. *)
ResolveIntent(c, v) ==
  /\ pc[c] \in InFlight
  /\ Resolvable(c)
  /\ live' = [live EXCEPT ![rowid[c]].status = v]
  /\ verdict' = [verdict EXCEPT ![c] = v]
  /\ Goto(c, "done")
  /\ UNCHANGED <<main, table, archives, purged, guard, engines, home, rowid,
                 sent, crashes>>

(* finish_write fails, or matches no row: the row stays, the engine is blocked. *)
LoseVerdictQuietly(c) ==
  /\ pc[c] \in InFlight
  /\ \E v \in Verdict : verdict' = [verdict EXCEPT ![c] = v]
  /\ Goto(c, "done")
  /\ UNCHANGED <<store, guard, engines, home, rowid, sent, crashes>>

LoseVerdict(c) ==
  /\ pc[c] \in InFlight
  /\ blocked' = [blocked EXCEPT ![home[c]] = TRUE]
  /\ Goto(c, "unresolved")
  /\ UNCHANGED <<store, guard, engine, home, rowid, verdict, sent, crashes>>

(***************************************************************************)
(* reconcile_pending: an operator settles an orphaned row as unknown.  The *)
(* operator is the docstring's one, who has checked that the process is no *)
(* longer executing the write.                                             *)
(***************************************************************************)
Reconcile(i) ==
  /\ table
  /\ live[i].status = "pending"
  /\ pc[live[i].call] \notin InFlight
  /\ live' = [live EXCEPT ![i].status = "unknown"]
  /\ verdict' = [verdict EXCEPT ![live[i].call] = "unknown"]
  /\ UNCHANGED <<main, table, archives, purged, guard, engines, pc, home,
                 rowid, sent, crashes>>

(* SQLite folds the WAL into the main file whenever no reader is in its way. *)
AutoCheckpoint ==
  /\ main # live
  /\ main' = live
  /\ UNCHANGED <<live, table, archives, purged, guard, engines, pc, home,
                 rowid, verdict, sent, crashes>>

-----------------------------------------------------------------------------
(* What the thread of call c does once the call is under way. *)
Advance(c) ==
  \/ TakeGuard(c) \/ CheckRotation(c) \/ Checkpoint(c) \/ Rename(c)
  \/ RotationInit(c) \/ Insert(c) \/ LogFails(c)
  \/ Perform(c) \/ LoseVerdict(c)
  \/ \E v \in Verdict : ResolveIntent(c, v)

Next ==
  \/ \E p \in Process : StartEngine(p) \/ Crash(p)
  \/ \E c \in Call, p \in Process :
       BeginWrite(c, p) \/ RefuseWrite(c, p) \/ BeginLog(c, p)
  \/ \E c \in Call : Advance(c)
  \/ \E i \in DOMAIN live : Reconcile(i)
  \/ AutoCheckpoint

Spec == Init /\ [][Next]_vars

(***************************************************************************)
(* Threads are scheduled, SQLite gives up a lock after its busy timeout    *)
(* (_BUSY_TIMEOUT_MS) and httpx a request after its own: a call under way  *)
(* keeps going.  The guard alone has no timeout: its waiter goes on only   *)
(* when the guard is free, and no failure is promised to save it.  Nothing *)
(* obliges a process to start, a new call to be made or an operator to     *)
(* reconcile.                                                              *)
(***************************************************************************)
FairSpec ==
  /\ Spec
  /\ \A c \in Call : /\ WF_vars(TakeGuard(c))
                     /\ WF_vars(pc[c] # "waiting" /\ Advance(c))

-----------------------------------------------------------------------------
(* Properties.                                                             *)

(* The rows that left audit.db, and those a call has wherever they are kept. *)
Gone == Archived \cup purged
RowsOf(c) == {r \in Range(live) \cup Gone : r.call = c}

(***************************************************************************)
(* A write whose fate is still open -- its thread is running, its process  *)
(* died, or finish_write failed -- is a pending row of audit.db itself, at *)
(* its own id, where health() counts it and reconcile_pending finds it: no *)
(* rotation, crash or failed step moves it into an archive.                *)
(***************************************************************************)
OpenWriteStaysLive ==
  \A c \in Call :
    verdict[c] = "pending" =>
      /\ rowid[c] \in DOMAIN live
      /\ live[rowid[c]] = [call |-> c, status |-> "pending"]

(***************************************************************************)
(* The trail says what the caller was told: a call has no row before its   *)
(* log() or begin_write() commits one, and from then on exactly one, with  *)
(* the verdict the call reported, wherever rotation has put it.  Ids       *)
(* restart in every new file and finish_write takes no lock, and still no  *)
(* call resolves the row of another one, and no rotation loses a row.      *)
(***************************************************************************)
TrailMatchesVerdict ==
  \A c \in Call :
    RowsOf(c) = IF verdict[c] = "none" THEN {}
                ELSE {[call |-> c, status |-> verdict[c]]}

(***************************************************************************)
(* A write's request has left the process only if its durable intent, or   *)
(* what became of it, is in the trail (begin_write's promise).             *)
(***************************************************************************)
IntentBeforeRequest ==
  \A c \in sent : RowsOf(c) # {}

(***************************************************************************)
(* No thread hangs in the store: a call under way ends, or its process     *)
(* dies, whatever storage fails and whoever holds the guard when it does.  *)
(***************************************************************************)
CallsEnd == \A c \in Call : pc[c] \in Running ~> pc[c] \in Ended

(***************************************************************************)
(* The store implements the ledger: entries are announced, resolved and    *)
(* expired in the ledger's order whatever happens to the files.            *)
(***************************************************************************)
Present == Range(live) \cup Archived

EntryOf(c) ==
  IF \E r \in Present : r.call = c THEN (CHOOSE r \in Present : r.call = c).status
  ELSE IF \E r \in purged : r.call = c THEN "expired" ELSE "none"

Ledger == INSTANCE AuditLedger WITH entry <- [c \in Call |-> EntryOf(c)]

ImplementsLedger == Ledger!Spec

===============================================================================
