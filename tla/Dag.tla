---------------------------------- MODULE Dag ----------------------------------
(***************************************************************************)
(* check_graph (crates/cuttlefish-host/src/dag.rs): the check every graph  *)
(* passes before a job runs it.  Three loops decide: the rounds of         *)
(* topological_order, the seeding of the branch targets, and the passes    *)
(* that propagate exclusivity until no node gains any.                     *)
(*                                                                         *)
(* Abstractions.  A node is its name's rank in alphabetical order, which   *)
(* is all that ready.sort() sees of a name.  Which signatures cannot be    *)
(* read is a fact of the graph.  A name may be declared more than once: it *)
(* then stands for its declarations together, as it does in the maps of    *)
(* check_graph, which have one entry for it (the block, that of the last;  *)
(* the references, those of all).                                          *)
(***************************************************************************)
EXTENDS Integers, Sequences, SequencesExt, FiniteSets, Types

CONSTANTS
  N,          \* number of nodes
  Unknown,    \* a name no node has
  Labels,     \* branch labels
  Graphs,     \* the graphs to check
  Declares,   \* the signature of each block
  Free,       \* exclusive to no label
  NoVerdict   \* check_graph has not returned

Node == 1..N

\* What `branches` gives labels to: nothing checks that it is a node.
Decision == Node \cup {Unknown}

Exclusivity == [decision : Decision, label : Labels]

Branch == [decision : Decision, label : Labels, target : Node \cup {Unknown}]

(***************************************************************************)
(* A parsed graph: its declarations in order, the references of each       *)
(* node's `in` and how it composes them, its block, the nodes declared     *)
(* `repeat_until`, those declared `over`, and the `branches` in the order  *)
(* they are written.                                                       *)
(***************************************************************************)
ASSUME GraphAssumption ==
  /\ N \in Nat \ {0}
  /\ Unknown \notin Node
  /\ Free \notin Exclusivity
  /\ \A g \in Graphs :
       /\ g.declared \in Seq(Node)
       /\ g.refs \in [Node -> Seq(Node \cup {Unknown})]
       /\ g.looping \subseteq Node
       /\ g.branches \in Seq(Branch)

\* A bare reference; a list of references; a record, a reference to a field.
\* A node without an `in` is one without the bare reference.
Shape == {"bare", "list", "record"}

\* A block built before signatures existed.
Undeclared == [kind |-> "none"]

\* What a block declares, if anything and if that can be read.
ASSUME SignatureAssumption ==
  /\ \A b \in DOMAIN Declares : Declares[b] \in Signature \cup {NotATy, Undeclared}
  /\ \A g \in Graphs :
       /\ ToSet(g.declared) = Node
       /\ g.over \subseteq Node \ g.looping
       /\ g.block \in [Node -> DOMAIN Declares]
       /\ g.shape \in [Node -> Shape]
       /\ \A n \in Node : /\ g.shape[n] = "bare" => Len(g.refs[n]) < 2
                          /\ g.shape[n] = "record" => Len(g.refs[n]) <= Len(Fields)

ASSUME VerdictAssumption ==
  NoVerdict \notin {"Uninspectable", "UnknownReference", "UnmarkedCycle",
                  "ConflictingBranchFanIn", "SeamMismatch", "Checked"}

VARIABLES
  graph,        \* the graph under check: never assigned
  phase,        \* which loop check_graph is in
  order,        \* topological_order's `order`
  remaining,    \* `remaining`: what each node not yet ordered waits for
  ready,        \* this round's `ready`
  exclusiveTo,  \* `exclusive_to`
  cursor,       \* place in the branches or the declarations
  changed,      \* this pass gave a node its first exclusivity
  verdict

sorting     == <<order, remaining, ready>>
propagating == <<exclusiveTo, cursor, changed>>
vars        == <<graph, phase, sorting, propagating, verdict>>

\* What `in` references.
References(n) == {graph.refs[n][i] : i \in DOMAIN graph.refs[n]}

Ordered == {order[i] : i \in DOMAIN order}

Init ==
  /\ graph \in Graphs
  /\ phase = "dependencies"
  /\ order = <<>>
  /\ remaining = [n \in Node |-> {}]
  /\ ready = {}
  /\ exclusiveTo = [n \in Node |-> Free]
  /\ cursor = 1
  /\ changed = FALSE
  /\ verdict = NoVerdict

Return(v) ==
  /\ verdict' = v
  /\ phase' = "done"
  /\ UNCHANGED <<graph, sorting, propagating>>

-----------------------------------------------------------------------------
(***************************************************************************)
(* topological_order                                                       *)
(***************************************************************************)

\* Mutant: a repeat_until node waits for nothing at all.
LoopWaitsForNothing(n) == IF n \in graph.looping THEN {} ELSE References(n)

\* The edges of n: a self-reference is none when n is a repeat_until loop.
Dependencies(n) == IF n \in graph.looping THEN References(n) \ {n} ELSE References(n)

Readable(n) == Declares[graph.block[n]] # NotATy

Uninspectable ==
  /\ phase = "dependencies"
  /\ \E n \in Node : ~Readable(n)
  /\ Return("Uninspectable")

UnknownReference ==
  /\ phase = "dependencies"
  /\ \A n \in Node : Readable(n)
  /\ \E n \in Node : Unknown \in References(n)
  /\ Return("UnknownReference")

CollectDependencies ==
  /\ phase = "dependencies"
  /\ \A n \in Node : Readable(n)
  /\ \A n \in Node : Unknown \notin References(n)
  /\ remaining' = [n \in Node |-> Dependencies(n)]
  /\ phase' = "rounds"
  /\ UNCHANGED <<graph, order, ready, propagating, verdict>>

\* Nodes not yet ordered that wait for nothing.
Unblocked == {n \in Node \ Ordered : remaining[n] = {}}

BeginRound ==
  /\ phase = "rounds"
  /\ Unblocked # {}
  /\ ready' = Unblocked
  /\ phase' = "placing"
  /\ UNCHANGED <<graph, order, remaining, propagating, verdict>>

\* `for n in &ready`, sorted.
Place ==
  /\ phase = "placing"
  /\ \E n \in ready \ Ordered :
       /\ \A k \in ready \ Ordered : n <= k
       /\ order' = Append(order, n)
  /\ UNCHANGED <<graph, phase, remaining, ready, propagating, verdict>>

EndRound ==
  /\ phase = "placing"
  /\ ready \subseteq Ordered
  /\ remaining' = [n \in Node |-> remaining[n] \ ready]
  /\ ready' = {}
  /\ phase' = "rounds"
  /\ UNCHANGED <<graph, order, propagating, verdict>>

UnmarkedCycle ==
  /\ phase = "rounds"
  /\ Unblocked = {}
  /\ Len(order) # Len(graph.declared)
  /\ Ordered # Node
  /\ Return("UnmarkedCycle")

\* A name declared twice is placed once: the order is short and no node is stuck.
Panic ==
  /\ phase = "rounds"
  /\ Unblocked = {}
  /\ Len(order) # Len(graph.declared)
  /\ Ordered = Node
  /\ phase' = "panicked"
  /\ UNCHANGED <<graph, sorting, propagating, verdict>>

EndOrder ==
  /\ phase = "rounds"
  /\ Unblocked = {}
  /\ Len(order) = Len(graph.declared)
  /\ phase' = "targets"
  /\ UNCHANGED <<graph, sorting, propagating, verdict>>

-----------------------------------------------------------------------------
(***************************************************************************)
(* compute_branch_exclusivity                                              *)
(***************************************************************************)

UnknownTarget ==
  /\ phase = "targets"
  /\ cursor <= Len(graph.branches)
  /\ graph.branches[cursor].target = Unknown
  /\ Return("UnknownReference")

\* `insert`: a later branch with the same target replaces an earlier one.
SeedTarget ==
  /\ phase = "targets"
  /\ cursor <= Len(graph.branches)
  /\ LET b == graph.branches[cursor] IN
       /\ b.target # Unknown
       /\ exclusiveTo' = [exclusiveTo EXCEPT ![b.target] =
                            [decision |-> b.decision, label |-> b.label]]
  /\ cursor' = cursor + 1
  /\ UNCHANGED <<graph, phase, sorting, changed, verdict>>

EndTargets ==
  /\ phase = "targets"
  /\ cursor > Len(graph.branches)
  /\ phase' = "passes"
  /\ cursor' = 1
  /\ UNCHANGED <<graph, sorting, exclusiveTo, changed, verdict>>

\* The places of n's references that are exclusive to a label.
ExclusiveReferences(n) == {i \in DOMAIN graph.refs[n] : exclusiveTo[graph.refs[n][i]] # Free}

\* What the first of them is exclusive to.
Found(n) == exclusiveTo[graph.refs[n][Min(ExclusiveReferences(n))]]

\* A later reference is exclusive to another label of the decision found first.
Conflicts(n) ==
  \E i \in ExclusiveReferences(n) :
    LET ex == exclusiveTo[graph.refs[n][i]]
    IN  ex.decision = Found(n).decision /\ ex.label # Found(n).label

ConflictingFanIn ==
  /\ phase = "passes"
  /\ cursor <= Len(graph.declared)
  /\ Conflicts(graph.declared[cursor])
  /\ Return("ConflictingBranchFanIn")

PassOver ==
  /\ phase = "passes"
  /\ cursor <= Len(graph.declared)
  /\ ExclusiveReferences(graph.declared[cursor]) = {}
  /\ cursor' = cursor + 1
  /\ UNCHANGED <<graph, phase, sorting, exclusiveTo, changed, verdict>>

\* Mutant: any insertion counts as a change.
EveryInsertion(n) == TRUE

\* `insert(..).is_none()`: only a first exclusivity counts as a change.
Gains(n) == exclusiveTo[n] = Free

Propagate ==
  /\ phase = "passes"
  /\ cursor <= Len(graph.declared)
  /\ LET n == graph.declared[cursor] IN
       /\ ExclusiveReferences(n) # {}
       /\ ~Conflicts(n)
       /\ exclusiveTo' = [exclusiveTo EXCEPT ![n] = Found(n)]
       /\ changed' = (changed \/ Gains(n))
  /\ cursor' = cursor + 1
  /\ UNCHANGED <<graph, phase, sorting, verdict>>

\* Mutant: one pass is thought enough.
OnePass ==
  /\ phase = "passes"
  /\ cursor > Len(graph.declared)
  /\ changed
  /\ phase' = "seams"
  /\ UNCHANGED <<graph, sorting, propagating, verdict>>

NextPass ==
  /\ phase = "passes"
  /\ cursor > Len(graph.declared)
  /\ changed
  /\ cursor' = 1
  /\ changed' = FALSE
  /\ UNCHANGED <<graph, phase, sorting, exclusiveTo, verdict>>

EndPasses ==
  /\ phase = "passes"
  /\ cursor > Len(graph.declared)
  /\ ~changed
  /\ phase' = "seams"
  /\ UNCHANGED <<graph, sorting, propagating, verdict>>

-----------------------------------------------------------------------------
(***************************************************************************)
(* The seams, and the answer                                               *)
(***************************************************************************)

Permissive == [input |-> Simple("json"), output |-> Simple("json")]

\* The signatures as the artifacts state them, read from their written form; to
\* state none is to take and return anything.
ReadSignatures ==
  [b \in {b \in DOMAIN Declares : Declares[b] # NotATy} |->
     IF Declares[b] = Undeclared THEN Permissive
     ELSE ParseSignature(DescribeSignature(Declares[b]))]

ReadSignature(n) == ReadSignatures[graph.block[n]]

\* What a fan-out hands on: counts, and the paths of files.
FanoutCollection ==
  RecordOf([f \in ToSet(Fields) |-> Simple(IF f = Fields[1] THEN "json" ELSE "text")])

\* Mutant: a fan-out hands on what its block returns.
UncollectedTy(n) == ReadSignature(n).output

\* What a reference to n is checked as.
OutputTy(n) == IF n \in graph.over THEN FanoutCollection ELSE ReadSignature(n).output

\* The written form loses nothing of what a block declares.
SignaturesRead ==
  \A b \in DOMAIN Declares :
    Declares[b] \in Signature => ParseSignature(DescribeSignature(Declares[b])) = Declares[b]

\* The bounds leave room for what an input composes of its references.
ASSUME BoundsAssumption ==
  /\ Depth > 0
  /\ {Permissive.output, FanoutCollection} \subseteq TyTo[Depth - 1]
  /\ \A b \in DOMAIN Declares : Declares[b] \in Signature => Declares[b].output \in TyTo[Depth - 1]
  /\ \A g \in Graphs : \A n \in Node : g.shape[n] = "list" => Len(g.refs[n]) <= Width

HasInput(n) == graph.shape[n] # "bare" \/ graph.refs[n] # <<>>

\* The fields of a record as wide as s.
Record(s) ==
  [f \in {Fields[i] : i \in DOMAIN s} |-> s[CHOOSE i \in DOMAIN s : Fields[i] = f]]

\* The type an input composes, a list's being that of its first item.
EvaluateExprTy(n) ==
  LET outputs == [i \in DOMAIN graph.refs[n] |-> OutputTy(graph.refs[n][i])]
  IN CASE graph.shape[n] = "record" -> RecordOf(Record(outputs))
       [] outputs = <<>> -> NotATy
       [] graph.shape[n] = "bare" -> outputs[1]
       [] OTHER -> ListOf(outputs[1])

\* The nodes with a wrong seam; the first in the order is the one reported.
Mismatched ==
  {n \in Node :
     HasInput(n) /\ LET t == EvaluateExprTy(n) IN
       t = NotATy \/ ~AssignableTo[t][ReadSignature(n).input]}

\* The first in the order of some nodes.
First(S) ==
  order[CHOOSE i \in DOMAIN order : order[i] \in S /\ \A j \in 1..(i - 1) : order[j] \notin S]

\* An empty list is reported as a reference to no node.
SeamMismatch ==
  /\ phase = "seams"
  /\ LET bad == Mismatched IN
       \/ bad # {} /\ EvaluateExprTy(First(bad)) = NotATy /\ Return("UnknownReference")
       \/ bad # {} /\ EvaluateExprTy(First(bad)) # NotATy /\ Return("SeamMismatch")

Accept ==
  /\ phase = "seams"
  /\ Mismatched = {}
  /\ Return("Checked")

Next ==
  \/ Uninspectable \/ UnknownReference \/ CollectDependencies
  \/ BeginRound \/ Place \/ EndRound
  \/ UnmarkedCycle \/ Panic \/ EndOrder
  \/ UnknownTarget \/ SeedTarget \/ EndTargets
  \/ ConflictingFanIn \/ PassOver \/ Propagate \/ NextPass \/ EndPasses
  \/ SeamMismatch \/ Accept

Spec == Init /\ [][Next]_vars

\* check_graph is a plain function: once called, its thread runs on.
FairSpec == Spec /\ WF_vars(Next)

-----------------------------------------------------------------------------
(***************************************************************************)
(* Properties                                                              *)
(***************************************************************************)

(***************************************************************************)
(* Types; no node is placed twice, and no unknown name becomes an edge.    *)
(***************************************************************************)
TypeOK ==
  /\ phase \in {"dependencies", "rounds", "placing", "targets", "passes", "seams",
                "done", "panicked"}
  /\ order \in Seq(Node)
  /\ \A i, j \in DOMAIN order : order[i] = order[j] => i = j
  /\ remaining \in [Node -> SUBSET Node]
  /\ ready \subseteq Node
  /\ exclusiveTo \in [Node -> Exclusivity \cup {Free}]
  /\ cursor \in Nat
  /\ changed \in BOOLEAN

(***************************************************************************)
(* Whatever has been ordered comes after everything its input references,  *)
(* itself excepted when it is a repeat_until loop: run_job threads the     *)
(* outputs front to back and evaluate_input never finds one missing.       *)
(***************************************************************************)
Earlier(i) == {order[j] : j \in 1..(i - 1)}

OrderRespectsInputs ==
  \A i \in DOMAIN order : \A m \in References(order[i]) :
    m \in Earlier(i) \/ (m = order[i] /\ m \in graph.looping)

(***************************************************************************)
(* A graph is rejected for an unmarked cycle exactly when it has one: a    *)
(* set of nodes each waiting for another of them, or for itself unmarked.  *)
(***************************************************************************)
Cyclic ==
  \E S \in (SUBSET Node) \ {{}} : \A n \in S :
    \E m \in References(n) \cap S : m # n \/ n \notin graph.looping

CyclesReported ==
  /\ verdict = "UnmarkedCycle" => Cyclic
  /\ phase \in {"targets", "passes", "seams"} => ~Cyclic /\ Ordered = Node

(***************************************************************************)
(* A node downstream of S: in every set that holds S and whatever          *)
(* references a member.                                                    *)
(***************************************************************************)
Downstream(S) ==
  LET closed == {T \in SUBSET Node : S \subseteq T /\
                   \A n \in Node : References(n) \cap T # {} => n \in T}
  IN  {n \in Node : \A T \in closed : n \in T}

Targets(d, l) ==
  {graph.branches[i].target : i \in {j \in DOMAIN graph.branches :
     graph.branches[j].decision = d /\ graph.branches[j].label = l}}

\* What label l of decision d gates.
Side(d, l) == Downstream(Targets(d, l))

(***************************************************************************)
(* Every node downstream of a branch target is gated by a label that does  *)
(* lead to it, and no other node is gated at all: none runs on a path not  *)
(* taken for want of an entry, none is skipped for a decision it does not  *)
(* depend on (skip propagation in check_graph).                            *)
(***************************************************************************)
GatedByItsBranches ==
  verdict = "Checked" =>
    \A n \in Node :
      IF exclusiveTo[n] = Free
      THEN \A d \in Decision, l \in Labels : n \notin Side(d, l)
      ELSE n \in Side(exclusiveTo[n].decision, exclusiveTo[n].label)

(***************************************************************************)
(* When no node is downstream of two decisions and no branch target is     *)
(* downstream of another, the check is the rule it implements: exclusive   *)
(* to a label is downstream of its target, and the graph is refused        *)
(* exactly when a node is downstream of two labels (dag.rs:526-530).       *)
(***************************************************************************)
Independent ==
  \A c, d \in Decision, k, l \in Labels : c # d => Side(c, k) \cap Side(d, l) = {}

NeedsTwoLabels ==
  \E d \in Decision, k, l \in Labels : k # l /\ Side(d, k) \cap Side(d, l) # {}

\* No seed is overwritten, by another seed or by propagation.
TargetsApart ==
  \A i, j \in DOMAIN graph.branches :
    graph.branches[i].target \in Downstream({graph.branches[j].target}) => i = j

RuleImplemented ==
  /\ verdict = "Checked" /\ Independent /\ TargetsApart =>
       /\ ~NeedsTwoLabels
       /\ \A n \in Node, d \in Decision, l \in Labels :
            n \in Side(d, l) <=> exclusiveTo[n] = [decision |-> d, label |-> l]
  /\ verdict = "ConflictingBranchFanIn" /\ Independent /\ TargetsApart => NeedsTwoLabels

\* What a node's input is when its references returned `outs`.
EvaluateInput(n, outs) ==
  CASE graph.shape[n] = "bare" -> outs[1]
    [] graph.shape[n] = "list" -> [json |-> "array", items |-> outs]
    [] graph.shape[n] = "record" -> [json |-> "object", fields |-> Record(outs)]

\* A node returns what it declares, or the job fails there.
Declared(n) ==
  IF Declares[graph.block[n]] = Undeclared THEN Permissive ELSE Declares[graph.block[n]]

Promised(n) == IF n \in graph.over THEN FanoutCollection ELSE Declared(n).output

Fits(n) ==
  LET refs == graph.refs[n]
      promised == {outs \in [DOMAIN refs -> Small] :
                     \A i \in DOMAIN refs : MatchesValue[Promised(refs[i])][outs[i]]}
  IN \/ Declared(n).input = Simple("json")
     \/ \A outs \in promised : MatchesValue[Declared(n).input][EvaluateInput(n, outs)]

\* All items of a list are of the type of the first.
Uniform(n) ==
  graph.shape[n] = "list" =>
    \A i \in DOMAIN graph.refs[n] : Promised(graph.refs[n][i]) = Promised(graph.refs[n][1])

(***************************************************************************)
(* An accepted graph hands every node an input of the type it declares,    *)
(* whatever outputs of their declared types it is composed of.             *)
(***************************************************************************)
SeamsSound == verdict = "Checked" => \A n \in Node : HasInput(n) /\ Uniform(n) => Fits(n)

(***************************************************************************)
(* What check_graph answers of a graph's shape is what the graph is: its   *)
(* order respects the inputs, a cycle is reported when there is one, the   *)
(* gating of an accepted graph is that of its branches, and a fan-in is    *)
(* refused by the rule.                                                    *)
(***************************************************************************)
VerdictSound == OrderRespectsInputs /\ CyclesReported /\ GatedByItsBranches /\ RuleImplemented

(***************************************************************************)
(* check_graph returns when no name is declared twice: the rounds run out  *)
(* of nodes, and the passes stop although two seeds may go on replacing    *)
(* each other.                                                             *)
(***************************************************************************)
Distinct == IsInjective(graph.declared)

CheckReturns == Distinct ~> (phase = "done")

-----------------------------------------------------------------------------
(***************************************************************************)
(* What comments say and the code does not do                              *)
(***************************************************************************)

\* The labels run_job derives for d from exclusive_to.
ValidLabels(d) ==
  {exclusiveTo[n].label : n \in {k \in Node : exclusiveTo[k] # Free
                                              /\ exclusiveTo[k].decision = d}}

\* The labels `branches` declares for d.
DeclaredLabels(d) ==
  {graph.branches[i].label : i \in {j \in DOMAIN graph.branches :
                                      graph.branches[j].decision = d}}

(***************************************************************************)
(* dag.rs:409-414: when the order is short, some node could not be         *)
(* ordered, and unwrap() finds it.                                         *)
(***************************************************************************)
StuckNodeFound == phase # "panicked"

(***************************************************************************)
(* runner.rs:921-925: the labels across exclusive_to are a decision's      *)
(* full, valid label set.                                                  *)
(***************************************************************************)
LabelSetsFull == verdict = "Checked" => \A d \in Decision : ValidLabels(d) = DeclaredLabels(d)

(***************************************************************************)
(* runner.rs:752-753: the branching node is always topologically before    *)
(* the nodes exclusive to its labels.                                      *)
(***************************************************************************)
DecisionsOrderedFirst ==
  verdict = "Checked" =>
    \A i \in DOMAIN order :
      exclusiveTo[order[i]] # Free => exclusiveTo[order[i]].decision \in Earlier(i)

(***************************************************************************)
(* dag.rs:526-530: a node that would be exclusive to two labels of the     *)
(* same decision at once is a build-time error.                            *)
(***************************************************************************)
FanInRefused == verdict = "Checked" => ~NeedsTwoLabels

(***************************************************************************)
(* dag.rs:458-462: a list item that disagrees with the first falls through *)
(* to a SeamMismatch.                                                      *)
(***************************************************************************)
ListsAgree == verdict = "Checked" => \A n \in Node : HasInput(n) => Fits(n)
=============================================================================
