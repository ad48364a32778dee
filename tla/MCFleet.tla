-------------------------------- MODULE MCFleet --------------------------------
(***************************************************************************)
(* The fleet analyses over every small input: one of the two inputs, a     *)
(* list of sessions or an inventory, grows record by record.  A session    *)
(* has a time or a login duration: the episodes read only the one, the     *)
(* ranking only the other.                                                 *)
(***************************************************************************)
EXTENDS LoginStorm, FleetDrift

CONSTANTS MaxTime, Logins, Versions, MaxInput, MaxFleet

ASSUME InputAssumption ==
  /\ MaxTime \in Nat /\ Logins \subseteq Nat /\ Versions \subseteq Nat
  /\ Unset \notin Versions

VARIABLES
  sessions,   \* the argument of login_storm
  fleet       \* the argument of the inventory analyses

Init == sessions = <<>> /\ fleet = <<>>

AddSession ==
  /\ fleet = <<>> /\ Len(sessions) < MaxInput
  /\ \E s \in Session(0..MaxTime, Logins) :
       /\ s.time = None \/ s.login = None
       /\ sessions' = Append(sessions, s)
  /\ UNCHANGED fleet

AddEndpoint ==
  /\ sessions = <<>> /\ Len(fleet) < MaxFleet
  /\ \E e \in Endpoint(Versions) : fleet' = Append(fleet, e)
  /\ UNCHANGED sessions

Next == AddSession \/ AddEndpoint

Spec == Init /\ [][Next]_<<sessions, fleet>>

Baselines == [Fields -> Versions \cup {Unset}]

-----------------------------------------------------------------------------
(***************************************************************************)
(* The episodes login_storm reports, found by merging anchored windows in  *)
(* one pass, are the maximal spans of logins held together by floods.      *)
(***************************************************************************)
StormsAreExact ==
  LET rows == Analysed(sessions)
      storms == Storms(rows)
  IN  /\ {<<storms[i].start, storms[i].end>> : i \in DOMAIN storms} = StormSpans(rows)
      /\ \A i, j \in DOMAIN storms : i < j => storms[i].end < storms[j].start
      /\ \A i \in DOMAIN storms :
           storms[i].count = CountIn(rows, storms[i].start, storms[i].end)

(***************************************************************************)
(* The peak of an episode, measured on windows cut off at its end, is that *)
(* of all windows that begin in it, and floods.                            *)
(***************************************************************************)
PeakIsTrue ==
  LET rows == Analysed(sessions)
      storms == Storms(rows)
  IN  \A i \in DOMAIN storms :
        /\ storms[i].peak = TruePeak(rows, <<storms[i].start, storms[i].end>>)
        /\ storms[i].peak \in MinConcurrent..storms[i].count

(***************************************************************************)
(* A ranking that does not say it is truncated is complete, one that does  *)
(* is not, and what it left out is no slower than what it shows.           *)
(***************************************************************************)
RankingIsHonest ==
  LET rows == Analysed(sessions)
      report == LoginStormReport(sessions)
      shown == report.slowest.items
      reported == {i \in DOMAIN rows : rows[i].login # None}
  IN  /\ report.slowest.truncated <=> Len(shown) < Cardinality(reported)
      /\ \A k \in DOMAIN shown :
           Cardinality({i \in reported : rows[i].login > shown[k].login}) < k
      /\ report.storms.truncated <=> Len(report.storms.items) < report.stormCount

(***************************************************************************)
(* The three tools an operator would cross-check agree: for a target patch *)
(* given to all or to none of them, those config_drift sees deviating, are *)
(* those patch_status has behind and patch_compliance counts against the   *)
(* SLA; and an endpoint scores 100 exactly if it is online, fresh and not  *)
(* drifted -- for a baseline that names every field or none.               *)
(***************************************************************************)
AnalysesAgree ==
  \A base \in Baselines :
    LET drift == ConfigDrift(fleet, base)
        effective == Effective(fleet, base)
        scores == Scores(fleet, base)
        status == PatchStatus(fleet, base.patchLevel)
        sla == PatchCompliance(fleet, base.patchLevel)
        unset == {f \in Fields : base[f] = Unset}
    IN  /\ status.behindCount = sla.nonCompliantCount
        /\ unset # {"patchLevel"} => drift.deviating["patchLevel"] = status.behindCount
        /\ unset \in {{}, Fields} =>
             \A e \in DOMAIN fleet :
               scores[e] = 100 <=>
                 /\ fleet[e].online /\ ~fleet[e].stale
                 /\ \A f \in Fields : ~Deviates(effective, fleet[e], f)

(***************************************************************************)
(* A derived baseline never blames more endpoints for a field than any     *)
(* declared value would.                                                   *)
(***************************************************************************)
MajorityBlamesFewest ==
  LET derived == ConfigDrift(fleet, [f \in Fields |-> Unset])
  IN  \A v \in Versions :
        LET declared == ConfigDrift(fleet, [f \in Fields |-> v])
        IN  \A f \in Fields : derived.deviating[f] <= declared.deviating[f]

(***************************************************************************)
(* The health list shows the worst endpoints: nobody it leaves out scores  *)
(* below one it shows, it says when it leaves somebody out, and the bands  *)
(* account for the whole fleet.                                            *)
(***************************************************************************)
WorstAreShown ==
  LET none == [f \in Fields |-> Unset]
      scores == Scores(fleet, none)
      health == HealthScore(fleet, none)
      shown == health.worst.items
  IN  /\ \A k \in DOMAIN shown, e \in DOMAIN fleet :
           scores[e] < scores[shown[k]] => \E j \in 1..(k - 1) : shown[j] = e
      /\ health.worst.truncated <=> Len(shown) < Len(fleet)
      /\ health.summary["healthy"] + health.summary["degraded"]
           + health.summary["critical"] = Len(fleet)

================================================================================
