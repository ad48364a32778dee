-------------------------------- MODULE Budget --------------------------------
(***************************************************************************)
(* The budget and runaway guard of endpoint_aiops/governance/budget.py: a  *)
(* per-process tracker that every governed call consults before it runs    *)
(* and feeds its duration after.                                           *)
(*                                                                         *)
(* Threads are interleaved where the code lets them be: each reads the     *)
(* wall clock before it takes the lock, so readings may reach the windows  *)
(* out of order, and the clock itself may be set back.  The limits are     *)
(* those of the process's environment, fixed here.                         *)
(***************************************************************************)
EXTENDS Naturals, Sequences, FiniteSets

CONSTANTS
  Thread,       \* threads making governed calls, one after another
  Fp,           \* fingerprints: tool and arguments
  None,         \* nobody holds the lock; a thread makes no call
  NoLimit,      \* an unset ceiling
  MaxCalls,     \* ENDPOINT_MAX_TOOL_CALLS
  MaxSeconds,   \* ENDPOINT_MAX_TOOL_SECONDS
  RunawayMax,   \* ENDPOINT_RUNAWAY_MAX, 0 for no guard
  Window,       \* ENDPOINT_RUNAWAY_WINDOW_SEC, 0 for no guard
  MaxClock,     \* bound of the model: the clock's last second
  MaxTotal      \* bound of the model: no call begins beyond this many seconds

ASSUME LimitAssumption ==
  /\ None \notin Thread
  /\ MaxCalls \in Nat \cup {NoLimit} /\ MaxSeconds \in Nat \cup {NoLimit}
  /\ RunawayMax \in Nat /\ Window \in Nat /\ MaxClock \in Nat
  /\ MaxTotal \in Nat

VARIABLES
  clock,        \* time.time(), in whole seconds
  high,         \* the latest time the clock has shown (history)
  lock,         \* holder of BudgetTracker._lock
  totalCalls,   \* _State.total_calls
  totalSeconds, \* _State.total_seconds
  windows,      \* _State.windows
  pc,           \* where a thread stands
  fp,           \* the fingerprint of its call
  start,        \* _CallState.start: the clock when the call began
  now,          \* the clock as check_and_record read it
  accepted,     \* per fingerprint: the calls let through, in lock order (history)
  dropped       \* per fingerprint: how many left the window (history)

counters == <<totalCalls, totalSeconds>>
call == <<fp, start, now>>
history == <<high, accepted, dropped>>
vars == <<clock, lock, counters, windows, pc, call, history>>

(* A call let through: its own reading, and the latest time known by then. *)
Acceptance == [reading : Nat, high : Nat]

TypeOK ==
  /\ clock \in Nat /\ high \in Nat
  /\ lock \in Thread \cup {None}
  /\ totalCalls \in Nat /\ totalSeconds \in Nat
  /\ windows \in [Fp -> Seq(Nat)]
  /\ pc \in [Thread -> {"idle", "begun", "ready", "locked", "ending"}]
  /\ fp \in [Thread -> Fp \cup {None}]
  /\ \A t \in Thread : pc[t] \in {"ready", "locked"} => fp[t] \in Fp
  /\ start \in [Thread -> Nat] /\ now \in [Thread -> Nat]
  /\ accepted \in [Fp -> Seq(Acceptance)]
  /\ dropped \in [Fp -> Nat]

Init ==
  /\ clock = 0 /\ high = 0
  /\ lock = None
  /\ totalCalls = 0 /\ totalSeconds = 0
  /\ windows = [f \in Fp |-> <<>>]
  /\ pc = [t \in Thread |-> "idle"]
  /\ fp = [t \in Thread |-> None]
  /\ start = [t \in Thread |-> 0] /\ now = [t \in Thread |-> 0]
  /\ accepted = [f \in Fp |-> <<>>]
  /\ dropped = [f \in Fp |-> 0]

Goto(t, label) == pc' = [pc EXCEPT ![t] = label]

GuardEnabled == RunawayMax > 0 /\ Window > 0

-----------------------------------------------------------------------------
(* The wall clock moves on, or an administrator sets it back. *)
Tick ==
  /\ clock < MaxClock
  /\ clock' = clock + 1
  /\ high' = IF clock' > high THEN clock' ELSE high
  /\ UNCHANGED <<lock, counters, windows, pc, call, accepted, dropped>>

SetBack ==
  /\ clock > 0
  /\ clock' = clock - 1
  /\ UNCHANGED <<lock, counters, windows, pc, call, history>>

-----------------------------------------------------------------------------
(* check_and_record. *)

(* The wrapper of a governed call notes when it began. *)
Begin(t) ==
  /\ pc[t] = "idle" /\ totalSeconds <= MaxTotal
  /\ start' = [start EXCEPT ![t] = clock]
  /\ Goto(t, "begun")
  /\ UNCHANGED <<clock, lock, counters, windows, fp, now, history>>

(* The check reads the clock anew, before the lock. *)
ReadClock(t, f) ==
  /\ pc[t] = "begun"
  /\ fp' = [fp EXCEPT ![t] = f]
  /\ now' = [now EXCEPT ![t] = clock]
  /\ Goto(t, "ready")
  /\ UNCHANGED <<clock, lock, counters, windows, start, history>>

(* The check is over, whatever it said: its locals are gone. *)
Checked(t) ==
  /\ Goto(t, "ending")
  /\ fp' = [fp EXCEPT ![t] = None] /\ now' = [now EXCEPT ![t] = 0]
  /\ UNCHANGED start

OverCallsByOne == MaxCalls # NoLimit /\ totalCalls > MaxCalls

OverCalls == MaxCalls # NoLimit /\ totalCalls >= MaxCalls

OverSeconds == MaxSeconds # NoLimit /\ totalSeconds >= MaxSeconds

(* A ceiling is reached: BudgetExceeded, nothing is recorded. *)
Refuse(t) ==
  /\ pc[t] = "ready" /\ lock = None
  /\ OverCalls \/ OverSeconds
  /\ Checked(t)
  /\ UNCHANGED <<clock, lock, counters, windows, history>>

TakeLock(t) ==
  /\ pc[t] = "ready" /\ lock = None
  /\ ~OverCalls /\ ~OverSeconds
  /\ lock' = t
  /\ Goto(t, "locked")
  /\ UNCHANGED <<clock, counters, windows, call, history>>

(* The while loop: the oldest reading has left the window that ends at the call's own. *)
ExpiredAtEdge(t) ==
  LET dq == windows[fp[t]] IN GuardEnabled /\ dq # <<>> /\ Head(dq) + Window <= now[t]

Expired(t) ==
  LET dq == windows[fp[t]] IN GuardEnabled /\ dq # <<>> /\ Head(dq) + Window < now[t]

Drop(t) ==
  /\ pc[t] = "locked"
  /\ Expired(t)
  /\ windows' = [windows EXCEPT ![fp[t]] = Tail(@)]
  /\ dropped' = [dropped EXCEPT ![fp[t]] = @ + 1]
  /\ UNCHANGED <<clock, lock, counters, pc, call, high, accepted>>

(* The runaway guard trips; the readings it dropped stay dropped. *)
TripUnpruned(t) ==
  /\ pc[t] = "locked"
  /\ GuardEnabled /\ Len(windows[fp[t]]) >= RunawayMax
  /\ lock' = None
  /\ Checked(t)
  /\ UNCHANGED <<clock, counters, windows, history>>

Trip(t) ==
  /\ pc[t] = "locked" /\ ~Expired(t)
  /\ GuardEnabled /\ Len(windows[fp[t]]) >= RunawayMax
  /\ lock' = None
  /\ Checked(t)
  /\ UNCHANGED <<clock, counters, windows, history>>

Accept(t) ==
  /\ pc[t] = "locked" /\ ~Expired(t)
  /\ GuardEnabled => Len(windows[fp[t]]) < RunawayMax
  /\ windows' = IF GuardEnabled THEN [windows EXCEPT ![fp[t]] = Append(@, now[t])] ELSE windows
  /\ totalCalls' = totalCalls + 1
  /\ accepted' = [accepted EXCEPT ![fp[t]] = Append(@, [reading |-> now[t], high |-> high])]
  /\ lock' = None
  /\ Checked(t)
  /\ UNCHANGED <<clock, totalSeconds, high, dropped>>

-----------------------------------------------------------------------------
(***************************************************************************)
(* _finalize, when the tool has run or the check has stopped the call: its *)
(* duration is added, which under a clock set back is none at all.         *)
(***************************************************************************)
Leave(t) ==
  /\ pc[t] = "ending" /\ lock = None
  /\ Goto(t, "idle")
  /\ start' = [start EXCEPT ![t] = 0]
  /\ UNCHANGED <<clock, lock, totalCalls, windows, fp, now, history>>

FinishAnyDuration(t) ==
  /\ Leave(t)
  /\ totalSeconds' = totalSeconds + clock - start[t]

Finish(t) ==
  /\ Leave(t)
  /\ totalSeconds' = IF clock > start[t] THEN totalSeconds + (clock - start[t]) ELSE totalSeconds

Next ==
  \/ Tick \/ SetBack
  \/ \E t \in Thread, f \in Fp : ReadClock(t, f)
  \/ \E t \in Thread :
       Begin(t) \/ Refuse(t) \/ TakeLock(t) \/ Drop(t) \/ Trip(t) \/ Accept(t) \/ Finish(t)

Spec == Init /\ [][Next]_vars

-----------------------------------------------------------------------------
(* Properties. *)

(***************************************************************************)
(* The runaway guard holds under any interleaving and any clock: of        *)
(* RunawayMax + 1 calls with identical arguments let through in a row, the *)
(* clock has shown a time more than Window after the first one's reading   *)
(* before the last one passed.                                             *)
(***************************************************************************)
RunawayBound ==
  GuardEnabled =>
    \A f \in Fp : \A n \in DOMAIN accepted[f] :
      n > RunawayMax =>
        accepted[f][n - RunawayMax].reading + Window < accepted[f][n].high

(***************************************************************************)
(* When the last RunawayMax calls let through with a fingerprint and the   *)
(* call that comes next passed the check in the order of their readings,   *)
(* a trip is what its message says: RunawayMax calls let through lie in    *)
(* the window that ends at the tripped call's own reading.  Out of order,  *)
(* as after the clock was set back, it may trip on readings later than its *)
(* own, or on expired ones behind one that is not.                         *)
(***************************************************************************)
Latest(t) ==
  LET n == Len(accepted[fp[t]]) IN {i \in 1..n : i > n - RunawayMax}

Reading(t, i) == accepted[fp[t]][i].reading

InOrder(t) ==
  /\ \A i, j \in Latest(t) : i < j => Reading(t, i) <= Reading(t, j)
  /\ \A i \in Latest(t) : Reading(t, i) <= now[t]

Recent(t) ==
  {i \in DOMAIN accepted[fp[t]] : Reading(t, i) <= now[t] /\ now[t] <= Reading(t, i) + Window}

TripsOnCause ==
  \A t \in Thread : Trip(t) /\ InOrder(t) => Cardinality(Recent(t)) >= RunawayMax

TripIsJustified == [][TripsOnCause]_vars

(* No interleaving of checks lets more than MaxCalls calls through. *)
CallCeiling ==
  MaxCalls # NoLimit =>
    Cardinality({p \in Fp \X (1..totalCalls + 1) : p[2] \in DOMAIN accepted[p[1]]}) <= MaxCalls

===============================================================================
