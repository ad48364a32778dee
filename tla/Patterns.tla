------------------------------- MODULE Patterns -------------------------------
(***************************************************************************)
(* The auto-remediation pattern engine of governance/patterns.py, for one  *)
(* pattern file and one target: counters are kept per pattern and target   *)
(* and never meet.  Every governed call of the pattern's action consults   *)
(* the engine, which reloads the file when its mtime moved; a call that    *)
(* was armed reports its outcome when it is over.                          *)
(*                                                                         *)
(* match() and report_outcome() update the counters under a lock; the      *)
(* reload before them takes none, so the steps of two reloads interleave.  *)
(***************************************************************************)
EXTENDS Selection

CONSTANTS
  Thread,           \* threads making governed calls, one after another
  Hour, Day,        \* the two sliding windows
  HourCap, DayCap,  \* rate_limit of the pattern, 0 for none
  Threshold,        \* circuit_breaker.consecutive_validation_failures
  Disable,          \* circuit_breaker.disable_seconds
  AnyThreshold,     \* report_outcome's threshold for a pattern no longer loaded
  AnyDisable,       \* and its pause
  MaxClock,         \* bound of the model: the last instant
  MaxEdits,         \* bound of the model: edits of the file
  MaxArms           \* bound of the model: armed calls

ASSUME LimitAssumption ==
  /\ Hour \in Nat \ {0} /\ Day \in Nat /\ Hour <= Day
  /\ HourCap \in Nat /\ DayCap \in Nat
  /\ Threshold \in Nat \ {0} /\ AnyThreshold \in Nat \ {0}
  /\ Disable \in Nat \ {0} /\ AnyDisable \in Nat \ {0}
  /\ MaxClock \in Nat /\ MaxEdits \in Nat /\ MaxArms \in Nat

VARIABLES
  clock,          \* time.time()
  mtime, file,    \* the file's modification time, and what it holds
  tracked,        \* _mtimes, 0 without an entry for the file
  loaded,         \* _patterns: what it holds of the file
  pc,             \* where a thread stands
  stat, content,  \* new_mtimes and new_patterns of its reload
  stamps,         \* arm_timestamps
  failures,       \* consecutive_failures
  disabledUntil,  \* disabled_until
  arms,           \* calls armed so far (history)
  reports,        \* outcomes reported so far (history)
  raced           \* two reloads were under way at once (history)

disk == <<mtime, file>>
engine == <<tracked, loaded>>
reload == <<stat, content>>
counters == <<stamps, failures, disabledUntil>>
history == <<arms, reports>>
vars == <<clock, disk, engine, pc, reload, counters, history, raced>>

(* "unarmable": valid, but unsigned, unapproved, irreversible or expired. *)
Content == {"absent", "unarmable", "armable"}

(* What loading can make of it: "unread" when the file was there but not to be read. *)
Loaded == Content \cup {"unread"}

NoPattern == {"absent", "unread"}

TypeOK ==
  /\ clock \in Nat /\ mtime \in Nat /\ tracked \in Nat
  /\ file \in Content /\ loaded \in Loaded
  /\ pc \in [Thread -> {"idle", "load", "read", "patterns", "mtimes", "match", "lock", "running"}]
  /\ stat \in [Thread -> Nat] /\ content \in [Thread -> Loaded]
  /\ stamps \in Seq(Nat) /\ failures \in Nat /\ disabledUntil \in Nat
  /\ arms \in Seq([time : Nat, reports : Nat])
  /\ reports \in Seq([ok : BOOLEAN, time : Nat, threshold : Nat, pause : Nat])
  /\ raced \in BOOLEAN

(* The engine starts with a load of its own, which may fail to stat or to read the file. *)
Init ==
  /\ clock = 0
  /\ mtime = 1 /\ file \in Content
  /\ \/ tracked = mtime /\ loaded \in {file, "unread"}
     \/ tracked = 0 /\ loaded = "unread"
  /\ pc = [t \in Thread |-> "idle"]
  /\ stat = [t \in Thread |-> 0] /\ content = [t \in Thread |-> "absent"]
  /\ stamps = <<>> /\ failures = 0 /\ disabledUntil = 0
  /\ arms = <<>> /\ reports = <<>>
  /\ raced = FALSE

Goto(t, label) == pc' = [pc EXCEPT ![t] = label]

Reloading == {t \in Thread : pc[t] \in {"load", "read", "patterns", "mtimes"}}

-----------------------------------------------------------------------------
Tick ==
  /\ clock < MaxClock
  /\ clock' = clock + 1
  /\ UNCHANGED <<disk, engine, pc, reload, counters, history, raced>>

(* Someone edits, adds or removes the file. *)
Edit ==
  /\ mtime <= MaxEdits
  /\ mtime' = mtime + 1
  /\ file' \in Content \ {file}
  /\ UNCHANGED <<clock, engine, pc, reload, counters, history, raced>>

-----------------------------------------------------------------------------
(* _maybe_reload and _load, without a lock. *)

CheckMtime(t) ==
  /\ pc[t] = "idle"
  /\ Len(arms) < MaxArms
  /\ Goto(t, IF tracked = mtime THEN "match" ELSE "load")
  /\ raced' = (raced \/ (tracked # mtime /\ Reloading # {}))
  /\ UNCHANGED <<clock, disk, engine, reload, counters, history>>

(* The file cannot be looked at: the call goes on with what is loaded. *)
CheckFails(t) ==
  /\ pc[t] = "idle"
  /\ Len(arms) < MaxArms
  /\ Goto(t, "match")
  /\ UNCHANGED <<clock, disk, engine, reload, counters, history, raced>>

StatFile(t) ==
  /\ pc[t] = "load"
  /\ stat' = [stat EXCEPT ![t] = mtime]
  /\ Goto(t, "read")
  /\ UNCHANGED <<clock, disk, engine, content, counters, history, raced>>

ReadFile(t) ==
  /\ pc[t] = "read"
  /\ content' = [content EXCEPT ![t] = file]
  /\ Goto(t, "patterns")
  /\ UNCHANGED <<clock, disk, engine, stat, counters, history, raced>>

(***************************************************************************)
(* stat() or open() raises and the file is skipped.  The mtime, once       *)
(* recorded, stays with the file that was not read.                        *)
(***************************************************************************)
SkipFile(t) ==
  /\ pc[t] \in {"load", "read"}
  /\ content' = [content EXCEPT ![t] = "unread"]
  /\ Goto(t, "patterns")
  /\ UNCHANGED <<clock, disk, engine, stat, counters, history, raced>>

AssignPatterns(t) ==
  /\ pc[t] = "patterns"
  /\ loaded' = content[t]
  /\ Goto(t, "mtimes")
  /\ UNCHANGED <<clock, disk, tracked, reload, counters, history, raced>>

(* ... as if the files were looked at again once they are loaded. *)
AssignMtimesAnew(t) ==
  /\ pc[t] = "mtimes"
  /\ tracked' = mtime
  /\ Goto(t, "match")
  /\ UNCHANGED <<clock, disk, loaded, reload, counters, history, raced>>

(* The thread's own reload is over: its locals are gone. *)
AssignMtimes(t) ==
  /\ pc[t] = "mtimes"
  /\ tracked' = stat[t]
  /\ stat' = [stat EXCEPT ![t] = 0]
  /\ content' = [content EXCEPT ![t] = "absent"]
  /\ Goto(t, "match")
  /\ UNCHANGED <<clock, disk, loaded, counters, history, raced>>

-----------------------------------------------------------------------------
(* match: the pattern is chosen before the lock is taken. *)

(* There is no armable pattern: the call goes on unarmed. *)
PassUnarmed(t) ==
  /\ pc[t] = "match"
  /\ loaded # "armable"
  /\ Goto(t, "idle")
  /\ UNCHANGED <<clock, disk, engine, reload, counters, history, raced>>

Choose(t) ==
  /\ pc[t] = "match"
  /\ loaded = "armable"
  /\ Goto(t, "lock")
  /\ UNCHANGED <<clock, disk, engine, reload, counters, history, raced>>

(* The positions of the stamps of the last `span` seconds. *)
Fresh(span) == {i \in DOMAIN stamps : stamps[i] + span > clock}

Since(span) == Picked(stamps, Fresh(span))

CappedLate ==
  \/ HourCap > 0 /\ Cardinality(Fresh(Hour)) > HourCap
  \/ DayCap > 0 /\ Cardinality(Fresh(Day)) > DayCap

Capped ==
  \/ HourCap > 0 /\ Cardinality(Fresh(Hour)) >= HourCap
  \/ DayCap > 0 /\ Cardinality(Fresh(Day)) >= DayCap

Broken == clock < disabledUntil

PassBroken(t) ==
  /\ pc[t] = "lock" /\ Broken
  /\ Goto(t, "idle")
  /\ UNCHANGED <<clock, disk, engine, reload, counters, history, raced>>

(* The stamps older than a day go, whether or not the call is armed. *)
PassCapped(t) ==
  /\ pc[t] = "lock" /\ ~Broken /\ Capped
  /\ stamps' = Since(Day)
  /\ Goto(t, "idle")
  /\ UNCHANGED <<clock, disk, engine, reload, failures, disabledUntil, history, raced>>

Arm(t) ==
  /\ pc[t] = "lock" /\ ~Broken /\ ~Capped
  /\ Len(arms) < MaxArms
  /\ stamps' = Append(Since(Day), clock)
  /\ arms' = Append(arms, [time |-> clock, reports |-> Len(reports)])
  /\ Goto(t, "running")
  /\ UNCHANGED <<clock, disk, engine, reload, failures, disabledUntil, reports, raced>>

-----------------------------------------------------------------------------
(* report_outcome, under the lock; the pattern may be gone from _patterns by then. *)

Limit == IF loaded \in NoPattern THEN AnyThreshold ELSE Threshold
Pause == IF loaded \in NoPattern THEN AnyDisable ELSE Disable

Reported(t, success) ==
  /\ reports' = Append(reports, [ok |-> success, time |-> clock,
                                 threshold |-> Limit, pause |-> Pause])
  /\ Goto(t, "idle")
  /\ UNCHANGED <<clock, disk, engine, reload, stamps, arms, raced>>

(* ... as if a success also ended a pause. *)
ReportSuccessHealing(t) ==
  /\ pc[t] = "running"
  /\ failures' = 0 /\ disabledUntil' = 0
  /\ Reported(t, TRUE)

(* ... as if a success took one failure back. *)
ReportSuccessDecrementing(t) ==
  /\ pc[t] = "running"
  /\ failures' = failures - 1
  /\ UNCHANGED disabledUntil
  /\ Reported(t, TRUE)

ReportSuccess(t) ==
  /\ pc[t] = "running"
  /\ failures' = 0
  /\ UNCHANGED disabledUntil
  /\ Reported(t, TRUE)

ReportFailure(t) ==
  /\ pc[t] = "running"
  /\ failures' = failures + 1
  /\ disabledUntil' = IF failures' >= Limit THEN clock + Pause ELSE disabledUntil
  /\ Reported(t, FALSE)

Next ==
  \/ Tick \/ Edit
  \/ \E t \in Thread :
       \/ CheckMtime(t) \/ CheckFails(t)
       \/ StatFile(t) \/ ReadFile(t) \/ SkipFile(t) \/ AssignPatterns(t) \/ AssignMtimes(t)
       \/ PassUnarmed(t) \/ Choose(t) \/ PassBroken(t) \/ PassCapped(t) \/ Arm(t)
       \/ ReportSuccess(t) \/ ReportFailure(t)

Spec == Init /\ [][Next]_vars

-----------------------------------------------------------------------------
(* Properties. *)

(***************************************************************************)
(* No interleaving of calls arms the pattern more often than its caps: of  *)
(* all calls armed, an hour holds at most HourCap and a day DayCap.        *)
(***************************************************************************)
ArmedWithin(i, span) == {j \in 1..i : arms[j].time + span > arms[i].time}

RateCapsHold ==
  \A i \in DOMAIN arms :
    /\ HourCap > 0 => Cardinality(ArmedWithin(i, Hour)) <= HourCap
    /\ DayCap > 0 => Cardinality(ArmedWithin(i, Day)) <= DayCap

(***************************************************************************)
(* Threshold failures reported in a row stop the pattern for the whole     *)
(* pause, whatever the calls armed before it report while it lasts.  A     *)
(* further failure starts the pause anew -- with the default length, be it *)
(* shorter, when the pattern's file is gone by then.                       *)
(***************************************************************************)
InARow(i) ==
  /\ i >= reports[i].threshold
  /\ \A j \in (i - reports[i].threshold + 1)..i : ~reports[j].ok

Trips(a) == {i \in 1..arms[a].reports : InARow(i)}

BreakerHolds ==
  \A a \in DOMAIN arms : \A i \in Trips(a) :
    \/ arms[a].time >= reports[i].time + reports[i].pause
    \/ \E j \in Trips(a) : j > i /\ reports[j].pause < reports[i].pause

(***************************************************************************)
(* What is loaded under the mtime on disk is what is on disk, or nothing   *)
(* because that file could not be read, unless a reload is under way or    *)
(* two of them once ran at the same time.                                  *)
(***************************************************************************)
LoadedIsCurrent == Reloading = {} /\ tracked = mtime => loaded \in {file, "unread"}

CurrentUnlessRaced == ~raced => LoadedIsCurrent

===============================================================================
