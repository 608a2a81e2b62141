------------------------------ MODULE Registry ------------------------------
(***************************************************************************)
(* What the block catalog promises of a published name@version: it is      *)
(* claimed by the first content published under it and by nothing else,    *)
(* for ever.  Retiring it hides it; publishing the same content again      *)
(* undoes that.  Every change is of one name and happens at once.          *)
(***************************************************************************)
CONSTANTS Versions, Artifacts

VARIABLES
  live,    \* the versions that can be resolved
  claim    \* the contents each version has been published with: one, or none yet

TypeOK ==
  /\ live \subseteq Versions
  /\ claim \in [Versions -> SUBSET Artifacts]

Init ==
  /\ live = {}
  /\ claim = [v \in Versions |-> {}]

Publish(v, a) ==
  /\ v \notin live
  /\ claim[v] \subseteq {a}
  /\ live' = live \cup {v}
  /\ claim' = [claim EXCEPT ![v] = {a}]

Retire(v) ==
  /\ v \in live
  /\ live' = live \ {v}
  /\ UNCHANGED claim

Next ==
  \E v \in Versions : Retire(v) \/ \E a \in Artifacts : Publish(v, a)

Spec == Init /\ [][Next]_<<live, claim>>
=============================================================================
