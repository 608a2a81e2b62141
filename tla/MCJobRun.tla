------------------------------ MODULE MCJobRun ------------------------------
(***************************************************************************)
(* Small graphs to model-check JobRun with.                                *)
(***************************************************************************)
EXTENDS JobRun

CONSTANTS x, y,          \* labels
          vx, vy, vn,    \* outputs routed x, routed y, and without a route
          m0, m1, m2     \* an empty manifest and two of two items each

MCRoute == [v \in Values |-> CASE v = vx -> x [] v = vy -> y [] OTHER -> NoRoute]

MCManifestLen == [m \in Manifests |-> IF m = m0 THEN 0 ELSE 2]

(***************************************************************************)
(* Triage: two decisions, 1 and 2, each between x and y.  Nodes 3 and 4    *)
(* are the targets of 1, nodes 5 and 6 (a repeat_until loop) those of 2.   *)
(* Node 7 reads a target of each: it is exclusive to the first it names,   *)
(* and skipped transitively when the other was.                            *)
(***************************************************************************)
To(d, l) == [decision |-> d, label |-> l]

TriageInputs    == <<{}, {}, {1}, {1}, {2}, {2, 6}, {3, 5}>>
TriageExclusive == <<NoBranch, NoBranch, To(1, x), To(1, y), To(2, x), To(2, y), To(1, x)>>

(***************************************************************************)
(* Campaign: node 1 fans out over a manifest, node 2 reduces the results.  *)
(***************************************************************************)
CampaignInputs    == <<{}, {1}>>
CampaignExclusive == <<NoBranch, NoBranch>>
=============================================================================
