---------------------------- MODULE DagExecution ----------------------------
(***************************************************************************)
(* What running a job promises, with no crashes, no resumes, no fan-out    *)
(* items and no storage in sight: every node is decided at most once, in   *)
(* an order its inputs and its branch decision allow, by the rules of      *)
(* conditional dispatch; then the job ends once, and ends as completed     *)
(* only when every node is decided and one of them has an output.          *)
(*                                                                         *)
(* JobRun implements this specification (see its Execution instance): to   *)
(* whoever reads the ledger, a run interrupted and resumed any number of   *)
(* times is an uninterrupted one.                                          *)
(***************************************************************************)
EXTENDS Integers

CONSTANTS
  N,            \* number of nodes, in topological order
  Inputs,       \* Inputs[n]: the nodes the input of n references
  Exclusive,    \* Exclusive[n]: [decision, label] n is exclusive to, or NoBranch
  Outputs(_),   \* Outputs(n): the outputs node n may end with
  RouteOf(_),   \* the route an output carries, or NoRoute
  NoBranch, NoRoute, NoOutput

Node == 1..N

VARIABLES
  decided,      \* nodes decided so far
  output,       \* their outputs, NoOutput for a skipped one
  status        \* of the job

Init ==
  /\ decided = {}
  /\ output = [n \in Node |-> NoOutput]
  /\ status = "running"

\* Everything the decision about n depends on is decided.
Ready(n) ==
  /\ Inputs[n] \ {n} \subseteq decided
  /\ Exclusive[n] # NoBranch => Exclusive[n].decision \in decided

\* The branch went elsewhere, or the input needs a skipped node.
Excluded(n) ==
  \/ /\ Exclusive[n] # NoBranch
     /\ RouteOf(output[Exclusive[n].decision]) \notin {NoRoute, Exclusive[n].label}
  \/ \E m \in Inputs[n] \ {n} : output[m] = NoOutput

Decide(n) ==
  /\ status = "running"
  /\ n \notin decided
  /\ Ready(n)
  /\ decided' = decided \cup {n}
  /\ IF Excluded(n)
     THEN output' = output
     ELSE \E v \in Outputs(n) : output' = [output EXCEPT ![n] = v]
  /\ status' = status

End(s) ==
  /\ status = "running"
  /\ s = "completed" => decided = Node /\ \E n \in Node : output[n] # NoOutput
  /\ status' = s
  /\ UNCHANGED <<decided, output>>

Next ==
  \/ \E n \in Node : Decide(n)
  \/ \E s \in {"completed", "failed", "cancelled"} : End(s)

Spec == Init /\ [][Next]_<<decided, output, status>>

=============================================================================
