------------------------------- MODULE LoginStorm -------------------------------
(***************************************************************************)
(* The login-storm analysis of endpoint_aiops/ops/sessions.py: a pure      *)
(* function from session records, in any order and with gaps, to the storm *)
(* episodes and the slowest logins.  Times are whole seconds.              *)
(***************************************************************************)
EXTENDS Listing, SequencesExt

CONSTANTS
  None,           \* a field the server did not report
  Window,         \* window_s
  MinConcurrent,  \* min_concurrent
  SlowLogin,      \* slow_login_ms
  StormLimit,     \* limit
  MaxSessions     \* MAX_SESSIONS

ASSUME StormAssumption ==
  /\ Window \in Nat \ {0} /\ MinConcurrent \in Nat \ {0}
  /\ StormLimit \in Nat /\ MaxSessions \in Nat

(* A session: when it began, how long the login took. *)
Session(times, logins) == [time : times \cup {None}, login : logins \cup {None}]

-----------------------------------------------------------------------------
(* Episodes; `times` is ascending. *)

(* The last event, up to hi, in the window anchored at event i. *)
Reach(times, i, hi) ==
  Max({j \in i..hi : \A k \in (i + 1)..j : times[k] - times[i] < Window})

Floods(times) ==
  LET n == Len(times)
  IN  Picked([i \in 1..n |-> <<i, Reach(times, i, n)>>],
             {i \in 1..n : Reach(times, i, n) - i + 1 >= MinConcurrent})

(* ... as if windows that share their last event were apart. *)
MergeApart(merged, w) ==
  IF merged # <<>> /\ w[1] < Last(merged)[2]
  THEN Append(Front(merged), <<Last(merged)[1], Max({Last(merged)[2], w[2]})>>)
  ELSE Append(merged, w)

Merge(merged, w) ==
  IF merged # <<>> /\ w[1] <= Last(merged)[2]
  THEN Append(Front(merged), <<Last(merged)[1], Max({Last(merged)[2], w[2]})>>)
  ELSE Append(merged, w)

(* The list of episodes, before and after each flooded window is merged into it. *)
Merging(windows) ==
  LET merged[k \in 0..Len(windows)] ==
        IF k = 0 THEN <<>> ELSE Merge(merged[k - 1], windows[k])
  IN  merged

Episodes(times) ==
  LET windows == Floods(times)
  IN  Merging(windows)[Len(windows)]

(* ... as if only the episode's first window counted. *)
PeakOfFirst(times, lo, hi) == Reach(times, lo, hi) - lo + 1

PeakConcurrent(times, lo, hi) ==
  Max({Reach(times, i, hi) - i + 1 : i \in lo..hi})

-----------------------------------------------------------------------------
(* The report. *)

(* Sessions without a time take no part in the episodes. *)
Timed(rows) ==
  LET timed == Picked(rows, {i \in DOMAIN rows : rows[i].time # None})
      order == Ranked([i \in DOMAIN timed |-> timed[i].time])
  IN  [k \in DOMAIN timed |-> timed[order[k]]]

Analysed(sessions) == SubSeq(sessions, 1, Min({MaxSessions, Len(sessions)}))

Storms(rows) ==
  LET timed == Timed(rows)
      times == [i \in DOMAIN timed |-> timed[i].time]
      found == Episodes(times)
  IN  [e \in DOMAIN found |->
         LET lo == found[e][1]  hi == found[e][2]
         IN  [start |-> times[lo], end |-> times[hi], count |-> hi - lo + 1,
              peak |-> PeakConcurrent(times, lo, hi)]]

SlowestByLogin(rows) ==
  LET known == Picked(rows, {i \in DOMAIN rows : rows[i].login # None})
      order == Ranked([i \in DOMAIN known |-> 0 - known[i].login])
  IN  [k \in DOMAIN known |-> known[order[k]]]

LoginStormReport(sessions) ==
  LET rows == Analysed(sessions)
      slow == SlowestByLogin(rows)
  IN  [total |-> Len(rows),
       inputTruncated |-> Len(sessions) > MaxSessions,
       stormCount |-> Len(Storms(rows)),
       storms |-> Envelope(Storms(rows), StormLimit),
       slowCount |-> Cardinality({k \in DOMAIN slow : slow[k].login >= SlowLogin}),
       slowest |-> Envelope(slow, StormLimit)]

-----------------------------------------------------------------------------
(* What the report promises, said without windows, folds or sorts. *)

(* The times of a set of sessions; how many of them lie in a closed span. *)
TimesIn(rows) == {rows[i].time : i \in DOMAIN rows} \ {None}

CountIn(rows, from, to) ==
  Cardinality({i \in DOMAIN rows : rows[i].time # None /\ from <= rows[i].time /\ rows[i].time <= to})

(* The spans, from one login to another and shorter than the window, that flood. *)
FloodSpans(rows) ==
  {s \in TimesIn(rows) \X TimesIn(rows) :
     /\ s[1] <= s[2] /\ s[2] - s[1] < Window
     /\ CountIn(rows, s[1], s[2]) >= MinConcurrent}

(* The spans that are storms: held together by floods, and as long as can be. *)
StormSpans(rows) ==
  LET times == TimesIn(rows)
      floods == FloodSpans(rows)
      gaps == {p \in times \X times :
                 p[1] < p[2] /\ ~ \E x \in times : p[1] < x /\ x < p[2]}
      spanned == {p \in gaps : \E f \in floods : f[1] <= p[1] /\ p[2] <= f[2]}
  IN  {s \in {f[1] : f \in floods} \X {f[2] : f \in floods} :
         /\ s[1] <= s[2]
         /\ \A p \in gaps : p \in spanned <=>
              \/ s[1] <= p[1] /\ p[2] <= s[2]
              \/ p \in spanned /\ (p[2] < s[1] \/ s[2] < p[1])}

(* The most logins in any window that begins within a span. *)
TruePeak(rows, span) ==
  Max({CountIn(rows, from, from + Window - 1) :
         from \in {t \in TimesIn(rows) : span[1] <= t /\ t <= span[2]}})

================================================================================
