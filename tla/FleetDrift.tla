------------------------------- MODULE FleetDrift -------------------------------
(***************************************************************************)
(* The fleet analyses of endpoint_aiops/ops/drift.py and ops/inventory.py: *)
(* configuration drift, patch status, patch compliance, health score and   *)
(* overview, pure functions of the inventory.  A fleet is a sequence of    *)
(* endpoints; a version is a number, ordered as the code orders strings.   *)
(***************************************************************************)
EXTENDS Listing

CONSTANTS
  Unset,        \* a version the server did not report, a baseline not given
  SlaPct,       \* sla_pct
  FleetLimit    \* limit

ASSUME FleetAssumption == SlaPct \in 0..100 /\ FleetLimit \in Nat

(* The fields compared; osBuild and profileId are treated like these two. *)
Fields == {"agentVersion", "patchLevel"}

Endpoint(versions) ==
  [agentVersion : versions \cup {Unset}, patchLevel : versions \cup {Unset},
   online : BOOLEAN, stale : BOOLEAN]

-----------------------------------------------------------------------------
Count(fleet, field, v) == Cardinality({e \in DOMAIN fleet : fleet[e][field] = v})

Reported(fleet, field) == {fleet[e][field] : e \in DOMAIN fleet} \ {Unset}

(* ... as if the key of max() were (value, count). *)
MajorityByName(fleet, field) ==
  LET values == Reported(fleet, field)
  IN  IF values = {} THEN Unset ELSE Max(values)

(* The most common value; of two as common, the greater. *)
Majority(fleet, field) ==
  LET values == Reported(fleet, field)
      commoner(v, w) ==
        \/ Count(fleet, field, v) > Count(fleet, field, w)
        \/ Count(fleet, field, v) = Count(fleet, field, w) /\ v >= w
  IN  IF values = {} THEN Unset
      ELSE CHOOSE v \in values : \A w \in values : commoner(v, w)

(* How many endpoints have each value; those that report none are "unknown". *)
Spread(fleet, field) ==
  [v \in {fleet[e][field] : e \in DOMAIN fleet} |-> Count(fleet, field, v)]

FleetEnvelope(rows) == Envelope(rows, FleetLimit)

-----------------------------------------------------------------------------
(* ops/drift.py *)

(* A baseline that names no field is none: the majority stands in for all of them. *)
Effective(fleet, baseline) ==
  IF \A f \in Fields : baseline[f] = Unset
  THEN [f \in Fields |-> Majority(fleet, f)]
  ELSE baseline

Deviates(effective, row, f) == effective[f] # Unset /\ row[f] # effective[f]

ConfigDrift(fleet, baseline) ==
  LET effective == Effective(fleet, baseline)
      drifted == InOrder({e \in DOMAIN fleet : \E f \in Fields : Deviates(effective, fleet[e], f)})
  IN  [deviating |-> [f \in Fields |->
                        Cardinality({e \in DOMAIN fleet : Deviates(effective, fleet[e], f)})],
       driftedCount |-> Len(drifted),
       compliantCount |-> Len(fleet) - Len(drifted),
       drifted |-> FleetEnvelope(drifted)]

TargetPatch(fleet, target) == IF target # Unset THEN target ELSE Majority(fleet, "patchLevel")

(* ... as if an endpoint that reports no patch level could not be behind. *)
PatchStatusOfReporting(fleet, target) ==
  LET wanted == TargetPatch(fleet, target)
      behind == InOrder({e \in DOMAIN fleet : fleet[e].patchLevel \notin {wanted, Unset}})
  IN  [distribution |-> Spread(fleet, "patchLevel"),
       behindCount |-> Len(behind), behind |-> FleetEnvelope(behind)]

PatchStatus(fleet, target) ==
  LET wanted == TargetPatch(fleet, target)
      behind == InOrder({e \in DOMAIN fleet : wanted # Unset /\ fleet[e].patchLevel # wanted})
  IN  [distribution |-> Spread(fleet, "patchLevel"),
       behindCount |-> Len(behind), behind |-> FleetEnvelope(behind)]

(* With no target and no patch level reported, everybody complies. *)
PatchCompliance(fleet, target) ==
  LET wanted == TargetPatch(fleet, target)
      non == InOrder({e \in DOMAIN fleet : fleet[e].patchLevel # wanted})
      compliant == Len(fleet) - Len(non)
  IN  [compliantCount |-> compliant,
       nonCompliantCount |-> Len(non),
       verdict |-> IF fleet = <<>> THEN "insufficient"
                   ELSE IF 100 * compliant >= SlaPct * Len(fleet) THEN "meets_sla"
                   ELSE "below_sla",
       nonCompliant |-> FleetEnvelope(non)]

-----------------------------------------------------------------------------
(* ops/inventory.py *)

Band(score) ==
  IF score >= 80 THEN "healthy" ELSE IF score >= 50 THEN "degraded" ELSE "critical"

(* A field the baseline leaves out is filled with the majority, unlike in config_drift. *)
HealthBaseline(fleet, baseline) ==
  [f \in Fields |-> IF baseline[f] # Unset THEN baseline[f] ELSE Majority(fleet, f)]

ScoreEndpoint(row, base) ==
  LET lags(f) == base[f] # Unset /\ row[f] # base[f]
      deduct(cond, points) == IF cond THEN points ELSE 0
      score == 100 - deduct(~row.online, 40) - deduct(row.stale, 20)
                   - deduct(lags("patchLevel"), 25) - deduct(lags("agentVersion"), 15)
  IN  Max({0, Min({100, score})})

(* ... as if the list were in inventory order. *)
WorstUnsorted(fleet, scores) == [e \in DOMAIN fleet |-> e]

WorstFirst(fleet, scores) == Ranked(scores)

Scores(fleet, baseline) ==
  LET base == HealthBaseline(fleet, baseline)
  IN  [e \in DOMAIN fleet |-> ScoreEndpoint(fleet[e], base)]

HealthScore(fleet, baseline) ==
  LET scores == Scores(fleet, baseline)
  IN  [summary |-> [b \in {"healthy", "degraded", "critical"} |->
                      Cardinality({e \in DOMAIN fleet : Band(scores[e]) = b})],
       worst |-> FleetEnvelope(WorstFirst(fleet, scores))]

Overview(fleet) ==
  LET online == Cardinality({e \in DOMAIN fleet : fleet[e].online})
  IN  [online |-> online, offline |-> Len(fleet) - online,
       stale |-> InOrder({e \in DOMAIN fleet : fleet[e].stale}),
       patchLevelSpread |-> Spread(fleet, "patchLevel")]

================================================================================
