------------------------------ MODULE Dag_proofs ------------------------------
(***************************************************************************)
(* Proofs about Dag's order, cycles and gating, for every graph.           *)
(***************************************************************************)
EXTENDS Dag, FiniteSetTheorems, WellFoundedInduction, TLAPS

(***************************************************************************)
(* Kahn's invariant.  A node waits only for what earlier rounds have not   *)
(* ordered, so a ready node's dependencies all come before its round.      *)
(***************************************************************************)
RoundInv ==
  /\ phase # "placing" => ready = {}
  /\ phase = "placing" => \A n \in ready : remaining[n] = {}
  /\ phase \in {"rounds", "placing"} =>
       \A n \in Node : Dependencies(n) \subseteq remaining[n] \cup (Ordered \ ready)

PlacedInv == \A i \in DOMAIN order : Dependencies(order[i]) \subseteq Earlier(i)

OrderInv ==
  /\ graph \in Graphs
  /\ order \in Seq(Node)
  /\ phase = "dependencies" => order = <<>>
  /\ remaining \in [Node -> SUBSET Node]
  /\ ready \subseteq Node
  /\ RoundInv
  /\ PlacedInv

\* The loops after the rounds leave the order alone.
Later == UNCHANGED <<graph, sorting>> /\ phase' \notin {"dependencies", "rounds", "placing"}

LEMMA LaterStep == OrderInv /\ phase # "placing" /\ Later => OrderInv'
<1> SUFFICES ASSUME OrderInv, phase # "placing", Later PROVE OrderInv'
  OBVIOUS
<1>1. /\ graph' = graph /\ order' = order /\ remaining' = remaining /\ ready' = ready
      /\ ready = {} /\ phase' \notin {"dependencies", "rounds", "placing"}
  BY DEF Later, sorting, OrderInv, RoundInv
<1>2. RoundInv'
  BY <1>1 DEF RoundInv
<1>3. PlacedInv'
  <2>1. \A i : Earlier(i)' = Earlier(i)
    BY <1>1 DEF Earlier
  <2>2. \A n : Dependencies(n)' = Dependencies(n)
    BY <1>1 DEF Dependencies, References
  <2> QED
    BY <1>1, <2>1, <2>2 DEF OrderInv, PlacedInv
<1> QED
  BY <1>1, <1>2, <1>3 DEF OrderInv

\* A node goes to the end of the order, and is before nothing there yet.
LEMMA AppendOrder ==
  ASSUME order \in Seq(Node), NEW n \in Node, order' = Append(order, n)
  PROVE  /\ order' \in Seq(Node)
         /\ Ordered' = Ordered \cup {n}
         /\ DOMAIN order' = DOMAIN order \cup {Len(order) + 1}
         /\ \A i \in DOMAIN order : order'[i] = order[i] /\ Earlier(i)' = Earlier(i)
         /\ \A i : i = Len(order) + 1 => order'[i] = n /\ Earlier(i)' = Ordered
<1>1. /\ order' \in Seq(Node)
      /\ Len(order) \in Nat /\ Len(order') = Len(order) + 1
      /\ DOMAIN order = 1..Len(order) /\ DOMAIN order' = 1..(Len(order) + 1)
      /\ \A i \in 1..Len(order) : order'[i] = order[i]
      /\ order'[Len(order) + 1] = n
  OBVIOUS
<1>2. DOMAIN order' = DOMAIN order \cup {Len(order) + 1}
  BY <1>1
<1>3. Ordered' = Ordered \cup {n}
  BY <1>1, <1>2 DEF Ordered
<1>4. \A i \in DOMAIN order : Earlier(i)' = Earlier(i)
  BY <1>1 DEF Earlier
<1>5. ASSUME NEW i, i = Len(order) + 1 PROVE Earlier(i)' = Ordered
  <2>1. 1..(i - 1) = DOMAIN order
    BY <1>1, <1>5
  <2> QED
    BY <1>1, <2>1 DEF Earlier, Ordered
<1> QED
  BY <1>1, <1>2, <1>3, <1>4, <1>5

LEMMA InitOrder == Init => OrderInv
BY DEF Init, OrderInv, RoundInv, PlacedInv, Ordered

LEMMA OrderStep == OrderInv /\ [Next]_vars => OrderInv'
<1> SUFFICES ASSUME OrderInv, [Next]_vars PROVE OrderInv'
  OBVIOUS
<1>1. CASE CollectDependencies
  <2>1. \A n \in Node : References(n) \subseteq Node
    BY <1>1, GraphAssumption DEF CollectDependencies, References, OrderInv
  <2>2. \A n \in Node : Dependencies(n) \subseteq Node /\ Dependencies(n)' = Dependencies(n)
    BY <1>1, <2>1 DEF CollectDependencies, Dependencies, References
  <2>3. remaining' = [n \in Node |-> Dependencies(n)]
    BY <1>1 DEF CollectDependencies
  <2>4. UNCHANGED <<graph, order, ready>> /\ phase' = "rounds" /\ ready = {} /\ order = <<>>
    BY <1>1 DEF CollectDependencies, OrderInv, RoundInv
  <2> QED
    BY <2>2, <2>3, <2>4 DEF OrderInv, RoundInv, PlacedInv
<1>2. CASE BeginRound
  <2>1. UNCHANGED <<graph, order, remaining>> /\ phase' = "placing" /\ ready' = Unblocked
    BY <1>2 DEF BeginRound
  <2>2. phase = "rounds" /\ ready = {}
    BY <1>2 DEF BeginRound, OrderInv, RoundInv
  <2>3. \A n \in Node : Dependencies(n)' = Dependencies(n)
    BY <2>1 DEF Dependencies, References
  <2>4. Ordered' = Ordered /\ Unblocked \cap Ordered = {}
    BY <2>1 DEF Ordered, Unblocked
  <2>5. RoundInv'
    BY <2>1, <2>2, <2>3, <2>4 DEF OrderInv, RoundInv, Unblocked
  <2>6. PlacedInv'
    BY <2>1, <2>3 DEF OrderInv, PlacedInv, Earlier
  <2> QED
    BY <2>1, <2>5, <2>6 DEF OrderInv, Unblocked
<1>3. CASE Place
  <2>1. PICK n \in ready \ Ordered : order' = Append(order, n)
    BY <1>3 DEF Place
  <2>2. n \in Node /\ phase = "placing" /\ UNCHANGED <<graph, phase, remaining, ready>>
    BY <1>3 DEF Place, OrderInv
  <2>3. \A m : Dependencies(m)' = Dependencies(m)
    BY <2>2 DEF Dependencies, References
  <2>4. Dependencies(n) \subseteq Ordered
    BY <2>2 DEF OrderInv, RoundInv
  <2>5. order' \in Seq(Node) /\ Ordered' = Ordered \cup {n}
    BY <2>1, <2>2, AppendOrder DEF OrderInv
  <2>6. PlacedInv'
    <3> SUFFICES ASSUME NEW i \in DOMAIN order' PROVE Dependencies(order'[i]) \subseteq Earlier(i)'
      BY <2>3 DEF PlacedInv
    <3>1. CASE i \in DOMAIN order
      BY <2>1, <2>2, <3>1, AppendOrder DEF OrderInv, PlacedInv
    <3>2. CASE i = Len(order) + 1
      <4>1. order'[i] = n /\ Earlier(i)' = Ordered
        BY <2>1, <2>2, <3>2, AppendOrder DEF OrderInv
      <4> QED
        BY <2>4, <4>1
    <3> QED
      BY <2>1, <2>2, <3>1, <3>2, AppendOrder DEF OrderInv
  <2>7. RoundInv'
    BY <2>2, <2>3, <2>5 DEF OrderInv, RoundInv
  <2> QED
    BY <2>2, <2>5, <2>6, <2>7 DEF OrderInv
<1>4. CASE EndRound
  <2>1. /\ UNCHANGED <<graph, order>> /\ phase = "placing" /\ phase' = "rounds" /\ ready' = {}
        /\ ready \subseteq Ordered /\ remaining' = [n \in Node |-> remaining[n] \ ready]
    BY <1>4 DEF EndRound
  <2>2. \A n : Dependencies(n)' = Dependencies(n)
    BY <2>1 DEF Dependencies, References
  <2>3. Ordered' = Ordered
    BY <2>1 DEF Ordered
  <2>4. RoundInv'
    BY <2>1, <2>2, <2>3 DEF OrderInv, RoundInv
  <2>5. PlacedInv'
    BY <2>1, <2>2 DEF OrderInv, PlacedInv, Earlier
  <2> QED
    BY <2>1, <2>4, <2>5 DEF OrderInv
<1>5. CASE Uninspectable \/ UnknownReference \/ UnmarkedCycle \/ Panic \/ EndOrder
  BY <1>5, LaterStep DEF Uninspectable, UnknownReference, UnmarkedCycle, Panic, EndOrder,
    Return, Later, sorting
<1>6. CASE UnknownTarget \/ SeedTarget \/ EndTargets
  BY <1>6, LaterStep DEF UnknownTarget, SeedTarget, EndTargets, Return, Later, sorting
<1>7. CASE ConflictingFanIn \/ PassOver \/ Propagate \/ NextPass \/ EndPasses
  BY <1>7, LaterStep DEF ConflictingFanIn, PassOver, Propagate, NextPass, EndPasses, Return,
    Later, sorting
<1>8. CASE SeamMismatch \/ Accept
  BY <1>8, LaterStep DEF SeamMismatch, Accept, Return, Later, sorting
<1>9. CASE UNCHANGED vars
  <2>1. UNCHANGED <<graph, phase, order, remaining, ready>>
    BY <1>9 DEF vars, sorting
  <2>2. \A n : Dependencies(n)' = Dependencies(n)
    BY <2>1 DEF Dependencies, References
  <2>3. RoundInv'
    BY <2>1, <2>2 DEF OrderInv, RoundInv, Ordered
  <2>4. PlacedInv'
    BY <2>1, <2>2 DEF OrderInv, PlacedInv, Earlier
  <2> QED
    BY <2>1, <2>3, <2>4 DEF OrderInv
<1> QED
  BY <1>1, <1>2, <1>3, <1>4, <1>5, <1>6, <1>7, <1>8, <1>9 DEF Next

(***************************************************************************)
(* Whatever topological_order has placed comes after everything its input  *)
(* references, for every graph, loops and cycles included.                 *)
(***************************************************************************)
THEOREM OrderSound == Spec => []OrderRespectsInputs
<1>1. OrderInv => OrderRespectsInputs
  BY DEF OrderInv, PlacedInv, OrderRespectsInputs, Dependencies
<1>2. Init => OrderInv
  BY InitOrder
<1>3. OrderInv /\ [Next]_vars => OrderInv'
  BY OrderStep
<1> QED
  BY <1>1, <1>2, <1>3, PTL DEF Spec
-----------------------------------------------------------------------------
(***************************************************************************)
(* Types                                                                   *)
(***************************************************************************)

LEMMA NaturalOrder == IsWellFoundedOn({p \in Nat \X Nat : p[1] < p[2]}, Nat)
BY NatLessThanWellFounded, Zenon DEF OpToRel

\* Every set of numbers has a least one.
LEMMA Least ==
  ASSUME NEW S \in SUBSET Nat, S # {}
  PROVE  \E i \in S : \A j \in S : i <= j
<1> DEFINE R == {p \in Nat \X Nat : p[1] < p[2]}
<1>1. IsWellFoundedOn(R, Nat)
  BY NaturalOrder
<1>2. \A i, j \in S : j < i => <<j, i>> \in R
  OBVIOUS
<1> HIDE DEF R
<1>3. PICK i \in S : \A j \in S : ~(<<j, i>> \in R)
  BY <1>1, WFMin
<1>4. \A j \in S : ~(j < i)
  BY <1>2, <1>3
<1>5. i \in Nat /\ \A j \in S : j \in Nat
  OBVIOUS
<1> QED
  BY <1>4, <1>5

LEMMA MinBelongs ==
  ASSUME NEW S \in SUBSET Nat, S # {}
  PROVE  Min(S) \in S
BY Least DEF Min

LEMMA GraphKept == [Next]_vars => graph' = graph
BY DEF Next, vars, sorting, propagating, Return, Uninspectable, UnknownReference,
  CollectDependencies, BeginRound, Place, EndRound, UnmarkedCycle, Panic, EndOrder, UnknownTarget,
  SeedTarget, EndTargets, ConflictingFanIn, PassOver, Propagate, NextPass, EndPasses,
  SeamMismatch, Accept

\* What each definition says of the graph alone.
LEMMA SameGraph ==
  ASSUME graph' = graph
  PROVE  /\ \A n : References(n)' = References(n) /\ Dependencies(n)' = Dependencies(n)
         /\ \A S : Downstream(S)' = Downstream(S)
         /\ \A d, l : Targets(d, l)' = Targets(d, l) /\ Side(d, l)' = Side(d, l)
         /\ Cyclic' = Cyclic
         /\ Independent' = Independent /\ TargetsApart' = TargetsApart
         /\ NeedsTwoLabels' = NeedsTwoLabels
<1>1. \A n : References(n)' = References(n) /\ Dependencies(n)' = Dependencies(n)
  BY DEF References, Dependencies
<1>2. \A S : Downstream(S)' = Downstream(S)
  BY DEF References, Downstream
<1>3. \A d, l : Targets(d, l)' = Targets(d, l) /\ Side(d, l)' = Side(d, l)
  BY DEF Targets, Side, Downstream, References
<1>4. Cyclic' = Cyclic
  BY DEF Cyclic, References
<1>5. Independent' = Independent /\ NeedsTwoLabels' = NeedsTwoLabels
  BY DEF Independent, NeedsTwoLabels, Targets, Side, Downstream, References
<1>6. TargetsApart' = TargetsApart
  BY DEF TargetsApart, Downstream, References
<1> QED
  BY <1>1, <1>2, <1>3, <1>4, <1>5, <1>6

(***************************************************************************)
(* Past the first check every reference is to a node, so every lookup in   *)
(* exclusive_to is of one.                                                 *)
(***************************************************************************)
Known == phase \notin {"dependencies", "done"} => \A n \in Node : References(n) \subseteq Node

\* Past topological_order no name is declared twice.
DeclaredOnce == phase \in {"targets", "passes", "seams"} => Len(graph.declared) = N

TypeInv ==
  /\ graph \in Graphs
  /\ TypeOK
  /\ cursor # 0
  /\ Known
  /\ DeclaredOnce
  /\ phase # "done" => verdict = NoVerdict

\* The places of n's references, and what is found there.
LEMMA Referenced ==
  ASSUME TypeInv, NEW n \in Node, phase = "passes"
  PROVE  /\ ExclusiveReferences(n) \subseteq Nat
         /\ \A r \in References(n) : r \in Node
         /\ \A i \in ExclusiveReferences(n) :
              graph.refs[n][i] \in References(n) /\ exclusiveTo[graph.refs[n][i]] # Free
         /\ \A r \in References(n) : exclusiveTo[r] # Free =>
              \E i \in ExclusiveReferences(n) : graph.refs[n][i] = r
         /\ ExclusiveReferences(n) # {} =>
              /\ Min(ExclusiveReferences(n)) \in ExclusiveReferences(n)
              /\ Found(n) \in Exclusivity
<1>1. graph.refs[n] \in Seq(Node \cup {Unknown})
  BY GraphAssumption DEF TypeInv
<1>2. DOMAIN graph.refs[n] = 1..Len(graph.refs[n]) /\ Len(graph.refs[n]) \in Nat
  BY <1>1
<1>3. ExclusiveReferences(n) \subseteq DOMAIN graph.refs[n]
  BY DEF ExclusiveReferences
<1>4. ExclusiveReferences(n) \subseteq Nat
  BY <1>2, <1>3
<1>5. \A r \in References(n) : r \in Node
  BY DEF TypeInv, Known
<1>6. \A i \in ExclusiveReferences(n) :
        graph.refs[n][i] \in References(n) /\ exclusiveTo[graph.refs[n][i]] # Free
  BY DEF ExclusiveReferences, References
<1>7. \A r \in References(n) : exclusiveTo[r] # Free =>
        \E i \in ExclusiveReferences(n) : graph.refs[n][i] = r
  BY DEF ExclusiveReferences, References
<1>8. ASSUME ExclusiveReferences(n) # {}
      PROVE  /\ Min(ExclusiveReferences(n)) \in ExclusiveReferences(n)
             /\ Found(n) \in Exclusivity
  <2>1. Min(ExclusiveReferences(n)) \in ExclusiveReferences(n)
    BY <1>4, <1>8, MinBelongs
  <2>2. PICK i \in ExclusiveReferences(n) : i = Min(ExclusiveReferences(n))
    BY <2>1
  <2>3. graph.refs[n][i] \in Node /\ exclusiveTo[graph.refs[n][i]] # Free
    BY <1>5, <1>6
  <2>4. exclusiveTo[graph.refs[n][i]] \in Exclusivity
    BY <2>3 DEF TypeInv, TypeOK
  <2> QED
    BY <2>1, <2>2, <2>4 DEF Found
<1> QED
  BY <1>4, <1>5, <1>6, <1>7, <1>8

LEMMA InitTypes == Init => TypeInv
<1> SUFFICES ASSUME Init PROVE TypeInv
  OBVIOUS
<1>1. graph \in Graphs /\ Known /\ DeclaredOnce /\ cursor # 0 /\ verdict = NoVerdict
  BY DEF Init, Known, DeclaredOnce
<1>2. order \in Seq(Node) /\ \A i, j \in DOMAIN order : order[i] = order[j] => i = j
  BY DEF Init
<1>3. phase = "dependencies" /\ ready \subseteq Node /\ cursor \in Nat /\ changed \in BOOLEAN
  BY DEF Init
<1>4. remaining \in [Node -> SUBSET Node] /\ exclusiveTo \in [Node -> Exclusivity \cup {Free}]
  BY DEF Init
<1>5. TypeOK
  BY <1>2, <1>3, <1>4 DEF TypeOK
<1> QED
  BY <1>1, <1>5 DEF TypeInv

\* The answer changes nothing else.
LEMMA ReturnTypes == ASSUME TypeInv, NEW v, Return(v) PROVE TypeInv'
BY DEF TypeInv, TypeOK, Known, DeclaredOnce, Return, sorting, propagating

LEMMA Numbered ==
  ASSUME NEW k \in Nat
  PROVE  IsFiniteSet(1..k) /\ Cardinality(1..k) = k
<1>1. 1 \in Int /\ k \in Int
  OBVIOUS
<1>2. IsFiniteSet(1..k) /\ Cardinality(1..k) = IF 1 > k THEN 0 ELSE k - 1 + 1
  BY <1>1, FS_Interval
<1> QED
  BY <1>2

LEMMA NodesNumbered == N \in Nat /\ IsFiniteSet(Node) /\ Cardinality(Node) = N
<1>1. N \in Nat
  BY GraphAssumption
<1> QED
  BY <1>1, Numbered DEF Node

\* The order is no longer than N, and as long when it holds every node.
LEMMA AllOrdered ==
  ASSUME TypeInv
  PROVE  Len(order) <= N /\ (Len(order) = N <=> Ordered = Node)
<1>1. order \in Seq(Node) /\ \A i, j \in DOMAIN order : order[i] = order[j] => i = j
  BY DEF TypeInv, TypeOK
<1>2. Len(order) \in Nat /\ DOMAIN order = 1..Len(order) /\ order \in [1..Len(order) -> Node]
  BY <1>1
<1>3. order \in Injection(1..Len(order), Node)
  BY <1>1, <1>2 DEF Injection, IsInjective
<1>4. Cardinality(1..Len(order)) = Len(order)
  BY <1>2, Numbered
<1>5. Len(order) <= N /\ (Len(order) = N <=> order \in Surjection(1..Len(order), Node))
  BY <1>3, <1>4, NodesNumbered, FS_Injection
<1>6. order \in Surjection(1..Len(order), Node) <=> Ordered = Node
  <2>1. Ordered \subseteq Node
    BY <1>2 DEF Ordered
  <2> QED
    BY <1>2, <2>1 DEF Ordered, Surjection
<1> QED
  BY <1>5, <1>6

\* Every node is declared: there are at least N declarations.
LEMMA Declarations ==
  ASSUME TypeInv
  PROVE  /\ graph.declared \in Seq(Node) /\ Len(graph.declared) \in Nat
         /\ N <= Len(graph.declared)
         /\ \A n \in Node : \E j \in 1..Len(graph.declared) : graph.declared[j] = n
<1> DEFINE k == Len(graph.declared)
<1>1. graph.declared \in Seq(Node) /\ ToSet(graph.declared) = Node
  BY GraphAssumption, SignatureAssumption DEF TypeInv
<1>2. k \in Nat /\ DOMAIN graph.declared = 1..k /\ graph.declared \in [1..k -> Node]
  BY <1>1
<1>3. \A n \in Node : \E j \in 1..k : graph.declared[j] = n
  BY <1>1, <1>2 DEF ToSet
<1> HIDE DEF k
<1>4. graph.declared \in Surjection(1..k, Node)
  BY <1>2, <1>3 DEF Surjection
<1>5. IsFiniteSet(1..k) /\ Cardinality(1..k) = k
  BY <1>2, Numbered
<1>6. N <= k
  BY <1>4, <1>5, NodesNumbered, FS_Surjection
<1> QED
  BY <1>1, <1>2, <1>3, <1>6 DEF k

\* The node of this turn of a pass.
LEMMA Turn ==
  ASSUME TypeInv, cursor <= N
  PROVE  graph.declared[cursor] \in Node /\ cursor \in 1..N
<1>1. /\ graph.declared \in Seq(Node) /\ N \in Nat
      /\ Len(graph.declared) \in Nat /\ N <= Len(graph.declared)
  BY Declarations, GraphAssumption
<1>2. cursor \in 1..N
  BY GraphAssumption DEF TypeInv, TypeOK
<1>3. cursor \in 1..Len(graph.declared)
  BY <1>1, <1>2
<1> QED
  BY <1>1, <1>2, <1>3

LEMMA TypeStep == TypeInv /\ [Next]_vars => TypeInv'
<1> SUFFICES ASSUME TypeInv, [Next]_vars PROVE TypeInv'
  OBVIOUS
<1>1. CASE Uninspectable \/ UnknownReference \/ UnmarkedCycle \/ UnknownTarget
  BY <1>1, ReturnTypes DEF Uninspectable, UnknownReference, UnmarkedCycle, UnknownTarget
<1>2. CASE ConflictingFanIn \/ SeamMismatch \/ Accept
  BY <1>2, ReturnTypes DEF ConflictingFanIn, SeamMismatch, Accept
<1>3. CASE CollectDependencies
  <2>1. /\ graph' = graph /\ phase = "dependencies" /\ phase' = "rounds"
        /\ remaining' = [n \in Node |-> Dependencies(n)]
        /\ UNCHANGED <<order, ready, exclusiveTo, cursor, changed, verdict>>
    BY <1>3 DEF CollectDependencies, propagating
  <2>2. \A n \in Node : References(n) \subseteq Node
    BY <1>3, GraphAssumption DEF CollectDependencies, References, TypeInv
  <2>3. remaining' \in [Node -> SUBSET Node]
    BY <2>1, <2>2 DEF Dependencies
  <2>4. Known' /\ DeclaredOnce'
    BY <2>1, <2>2, SameGraph DEF Known, DeclaredOnce
  <2>5. TypeOK'
    BY <2>1, <2>3 DEF TypeInv, TypeOK
  <2> QED
    BY <2>1, <2>4, <2>5 DEF TypeInv
<1>4. CASE BeginRound \/ EndRound \/ Panic \/ EndOrder
  <2>1. /\ graph' = graph /\ phase \in {"rounds", "placing"}
        /\ phase' \in {"rounds", "placing", "panicked", "targets"}
        /\ phase' = "targets" => Len(order) = Len(graph.declared)
        /\ UNCHANGED <<order, exclusiveTo, cursor, changed, verdict>>
        /\ remaining' = remaining \/ remaining' = [n \in Node |-> remaining[n] \ ready]
        /\ ready' = ready \/ ready' = Unblocked \/ ready' = {}
    BY <1>4 DEF BeginRound, EndRound, Panic, EndOrder, propagating, sorting
  <2>2. remaining' \in [Node -> SUBSET Node] /\ ready' \subseteq Node
    BY <2>1 DEF TypeInv, TypeOK, Unblocked
  <2>3. TypeOK'
    BY <2>1, <2>2 DEF TypeInv, TypeOK
  <2>4. Known'
    BY <2>1, SameGraph DEF TypeInv, Known
  <2>5. DeclaredOnce'
    BY <2>1, AllOrdered, Declarations, NodesNumbered DEF DeclaredOnce, TypeInv, TypeOK
  <2> QED
    BY <2>1, <2>3, <2>4, <2>5 DEF TypeInv
<1>5. CASE Place
  <2>1. PICK n \in ready \ Ordered : order' = Append(order, n)
    BY <1>5 DEF Place
  <2>2. /\ n \in Node /\ graph' = graph /\ phase' = phase
        /\ UNCHANGED <<remaining, ready, exclusiveTo, cursor, changed, verdict>>
    BY <1>5 DEF Place, propagating, TypeInv, TypeOK
  <2>3. /\ order' \in Seq(Node) /\ DOMAIN order' = DOMAIN order \cup {Len(order) + 1}
        /\ \A i \in DOMAIN order : order'[i] = order[i]
        /\ order'[Len(order) + 1] = n
    BY <2>1, <2>2, AppendOrder DEF TypeInv, TypeOK
  <2>4. \A i \in DOMAIN order : order[i] # n
    BY <2>1 DEF Ordered
  <2>5. \A i, j \in DOMAIN order' : order'[i] = order'[j] => i = j
    BY <2>3, <2>4 DEF TypeInv, TypeOK
  <2>6. TypeOK'
    BY <2>2, <2>3, <2>5 DEF TypeInv, TypeOK
  <2>7. Known' /\ DeclaredOnce'
    BY <2>2, SameGraph DEF TypeInv, Known, DeclaredOnce
  <2> QED
    BY <2>2, <2>6, <2>7 DEF TypeInv
<1>6. CASE SeedTarget
  <2> DEFINE b == graph.branches[cursor]
  <2>1. /\ graph' = graph /\ phase' = phase /\ phase = "targets" /\ cursor' = cursor + 1
        /\ UNCHANGED <<order, remaining, ready, changed, verdict>>
        /\ cursor <= Len(graph.branches) /\ b.target # Unknown
        /\ exclusiveTo' =
             [exclusiveTo EXCEPT ![b.target] = [decision |-> b.decision, label |-> b.label]]
    BY <1>6 DEF SeedTarget, sorting
  <2>2. b \in Branch
    <3>1. graph.branches \in Seq(Branch) /\ cursor \in Nat \ {0}
      BY GraphAssumption DEF TypeInv, TypeOK
    <3> QED
      BY <2>1, <3>1
  <2>3. [decision |-> b.decision, label |-> b.label] \in Exclusivity
    BY <2>2 DEF Branch, Exclusivity
  <2>4. exclusiveTo' \in [Node -> Exclusivity \cup {Free}]
    BY <2>1, <2>3 DEF TypeInv, TypeOK
  <2>5. TypeOK' /\ cursor' # 0
    BY <2>1, <2>4 DEF TypeInv, TypeOK
  <2>6. Known' /\ DeclaredOnce'
    BY <2>1, SameGraph DEF TypeInv, Known, DeclaredOnce
  <2> QED
    BY <2>1, <2>5, <2>6 DEF TypeInv
<1>7. CASE Propagate
  <2> DEFINE n == graph.declared[cursor]
  <2>1. /\ graph' = graph /\ phase' = phase /\ phase = "passes" /\ cursor' = cursor + 1
        /\ UNCHANGED <<order, remaining, ready, verdict>>
        /\ cursor <= N /\ ExclusiveReferences(n) # {}
        /\ exclusiveTo' = [exclusiveTo EXCEPT ![n] = Found(n)]
        /\ changed' = (changed \/ Gains(n))
    BY <1>7 DEF Propagate, sorting, TypeInv, DeclaredOnce
  <2>2. n \in Node
    BY <2>1, Turn
  <2>3. Found(n) \in Exclusivity
    BY <2>1, <2>2, Referenced
  <2>4. exclusiveTo' \in [Node -> Exclusivity \cup {Free}]
    BY <2>1, <2>3 DEF TypeInv, TypeOK
  <2>5. changed' \in BOOLEAN
    BY <2>1 DEF TypeInv, TypeOK, Gains
  <2>6. TypeOK' /\ cursor' # 0
    BY <2>1, <2>4, <2>5 DEF TypeInv, TypeOK
  <2>7. Known' /\ DeclaredOnce'
    BY <2>1, SameGraph DEF TypeInv, Known, DeclaredOnce
  <2> QED
    BY <2>1, <2>6, <2>7 DEF TypeInv
<1>8. CASE EndTargets \/ PassOver \/ NextPass \/ EndPasses
  <2>1. /\ graph' = graph /\ phase \in {"targets", "passes"} /\ phase' \in {"passes", "seams"}
        /\ UNCHANGED <<order, remaining, ready, exclusiveTo, verdict>>
        /\ cursor' = 1 \/ cursor' = cursor \/ cursor' = cursor + 1
        /\ changed' = changed \/ changed' = FALSE
    BY <1>8 DEF EndTargets, PassOver, NextPass, EndPasses, sorting, propagating
  <2>2. changed' \in BOOLEAN
    BY <2>1 DEF TypeInv, TypeOK
  <2>3. cursor' \in Nat \ {0}
    BY <2>1 DEF TypeInv, TypeOK
  <2>4. TypeOK' /\ cursor' # 0
    BY <2>1, <2>2, <2>3 DEF TypeInv, TypeOK
  <2>5. Known' /\ DeclaredOnce'
    BY <2>1, SameGraph DEF TypeInv, Known, DeclaredOnce
  <2> QED
    BY <2>1, <2>4, <2>5 DEF TypeInv
<1>9. CASE UNCHANGED vars
  BY <1>9 DEF vars, sorting, propagating, TypeInv, TypeOK, Known, DeclaredOnce, References
<1> QED
  BY <1>1, <1>2, <1>3, <1>4, <1>5, <1>6, <1>7, <1>8, <1>9 DEF Next

(***************************************************************************)
(* The loops of check_graph keep their types: no node is ordered twice,    *)
(* and exclusive_to only ever holds a decision and a label of the graph.   *)
(***************************************************************************)
THEOREM TypeCorrect == Spec => []TypeOK
<1>1. TypeInv => TypeOK
  BY DEF TypeInv
<1> QED
  BY <1>1, InitTypes, TypeStep, PTL DEF Spec
-----------------------------------------------------------------------------
(***************************************************************************)
(* Cycles                                                                  *)
(***************************************************************************)

(***************************************************************************)
(* What is left when nothing is unblocked: each node waits for one of the  *)
(* others, or for itself.                                                  *)
(***************************************************************************)
WaitsExactly ==
  phase \in {"rounds", "placing"} =>
    \A n \in Node : remaining[n] = Dependencies(n) \ (Ordered \ ready)

LEMMA StuckIsCyclic ==
  ASSUME TypeInv, OrderInv, WaitsExactly, phase = "rounds", Unblocked = {}, Ordered # Node
  PROVE  Cyclic
<1> DEFINE S == Node \ Ordered
<1>1. S \in (SUBSET Node) \ {{}}
  <2>1. Ordered \subseteq Node
    BY DEF TypeInv, TypeOK, Ordered
  <2> QED
    BY <2>1
<1>2. ASSUME NEW n \in S
      PROVE  \E m \in References(n) \cap S : m # n \/ n \notin graph.looping
  <2>1. remaining[n] # {}
    BY DEF Unblocked
  <2>2. remaining[n] = Dependencies(n) \ Ordered
    BY DEF WaitsExactly, OrderInv, RoundInv
  <2>3. PICK m \in Dependencies(n) : m \notin Ordered
    BY <2>1, <2>2
  <2>4. m \in References(n) /\ (m # n \/ n \notin graph.looping)
    BY <2>3 DEF Dependencies
  <2>5. m \in Node
    BY <2>4 DEF TypeInv, Known
  <2> QED
    BY <2>3, <2>4, <2>5
<1> QED
  BY <1>1, <1>2 DEF Cyclic

(***************************************************************************)
(* In a cycle, the node ordered first has an edge to one ordered before.   *)
(***************************************************************************)
LEMMA OrderedIsAcyclic ==
  ASSUME TypeInv, OrderInv, Ordered = Node
  PROVE  ~Cyclic
<1> SUFFICES ASSUME NEW S \in SUBSET Node, S # {},
                    \A n \in S : \E m \in References(n) \cap S : m # n \/ n \notin graph.looping
             PROVE  FALSE
  BY DEF Cyclic
<1> DEFINE places == {i \in DOMAIN order : order[i] \in S}
<1>1. DOMAIN order \subseteq Nat
  BY DEF TypeInv, TypeOK
<1>2. places \in SUBSET Nat /\ places # {}
  BY <1>1 DEF Ordered
<1>3. PICK i \in places : \A j \in places : i <= j
  <2> HIDE DEF places
  <2> QED
    BY <1>2, Least
<1>4. PICK m \in References(order[i]) \cap S : m # order[i] \/ order[i] \notin graph.looping
  OBVIOUS
<1>5. m \in Dependencies(order[i])
  BY <1>4 DEF Dependencies
<1>6. m \in Earlier(i)
  BY <1>5 DEF OrderInv, PlacedInv
<1>7. PICK j \in 1..(i - 1) : m = order[j]
  BY <1>6 DEF Earlier
<1>8. i \in 1..Len(order) /\ j \in 1..Len(order) /\ DOMAIN order = 1..Len(order) /\ j < i
  BY <1>7 DEF TypeInv, TypeOK
<1>9. j \in places
  BY <1>4, <1>7, <1>8
<1> QED
  BY <1>3, <1>8, <1>9

CycleInv == TypeInv /\ OrderInv /\ WaitsExactly /\ CyclesReported

LEMMA InitCycles == Init => CycleInv
<1> SUFFICES ASSUME Init PROVE CycleInv
  OBVIOUS
<1>1. WaitsExactly /\ phase = "dependencies" /\ verdict = NoVerdict
  BY DEF Init, WaitsExactly
<1>2. CyclesReported
  BY <1>1, VerdictAssumption DEF CyclesReported
<1> QED
  BY <1>1, <1>2, InitTypes, InitOrder DEF CycleInv

LEMMA WaitsStep ==
  ASSUME CycleInv, [Next]_vars
  PROVE  WaitsExactly'
<1>1. graph' = graph
  BY GraphKept
<1>2. \A n : Dependencies(n)' = Dependencies(n)
  BY <1>1, SameGraph
<1>3. phase # "placing" => ready = {}
  BY DEF CycleInv, OrderInv, RoundInv
<1>4. CASE CollectDependencies
  <2>1. /\ remaining' = [n \in Node |-> Dependencies(n)] /\ order' = order /\ ready' = ready
        /\ order = <<>>
    BY <1>4 DEF CollectDependencies, CycleInv, OrderInv
  <2>2. Ordered' = {}
    BY <2>1 DEF Ordered
  <2> QED
    BY <1>2, <2>1, <2>2 DEF WaitsExactly
<1>5. CASE BeginRound
  <2>1. /\ remaining' = remaining /\ order' = order /\ ready' = Unblocked /\ phase = "rounds"
        /\ Ordered' = Ordered
    BY <1>5 DEF BeginRound, Ordered
  <2>2. Ordered \ ready' = Ordered /\ Ordered \ ready = Ordered
    BY <1>3, <2>1 DEF Unblocked
  <2> QED
    BY <1>2, <2>1, <2>2 DEF CycleInv, WaitsExactly
<1>6. CASE Place
  <2>1. PICK n \in ready \ Ordered : order' = Append(order, n)
    BY <1>6 DEF Place
  <2>2. Ordered' = Ordered \cup {n}
    BY <2>1, AppendOrder DEF CycleInv, OrderInv
  <2>3. Ordered' \ ready = Ordered \ ready
    BY <2>1, <2>2
  <2>4. remaining' = remaining /\ ready' = ready /\ phase' = phase
    BY <1>6 DEF Place
  <2> QED
    BY <1>2, <2>3, <2>4 DEF CycleInv, WaitsExactly
<1>7. CASE EndRound
  <2>1. /\ remaining' = [n \in Node |-> remaining[n] \ ready] /\ ready' = {} /\ order' = order
        /\ ready \subseteq Ordered /\ phase = "placing" /\ Ordered' = Ordered
    BY <1>7 DEF EndRound, Ordered
  <2>2. \A n \in Node : remaining'[n] = Dependencies(n) \ Ordered
    BY <2>1 DEF CycleInv, WaitsExactly
  <2> QED
    BY <1>2, <2>1, <2>2 DEF WaitsExactly
<1>8. CASE UNCHANGED vars
  BY <1>2, <1>8 DEF vars, sorting, CycleInv, WaitsExactly, Ordered
<1>9. ASSUME ~(CollectDependencies \/ BeginRound \/ Place \/ EndRound), Next
      PROVE  phase' \notin {"rounds", "placing"}
  BY <1>9 DEF Next, Return, Uninspectable, UnknownReference, UnmarkedCycle, Panic, EndOrder,
    UnknownTarget, SeedTarget, EndTargets, ConflictingFanIn, PassOver, Propagate, NextPass,
    EndPasses, SeamMismatch, Accept
<1>10. phase' \notin {"rounds", "placing"} => WaitsExactly'
  BY DEF WaitsExactly
<1> QED
  BY <1>4, <1>5, <1>6, <1>7, <1>8, <1>9, <1>10

LEMMA CyclesStep ==
  ASSUME CycleInv, [Next]_vars
  PROVE  CyclesReported'
<1>1. Cyclic' = Cyclic
  BY GraphKept, SameGraph
<1>2. phase # "done" => verdict # "UnmarkedCycle"
  BY VerdictAssumption DEF CycleInv, TypeInv
<1>3. CASE UnmarkedCycle
  <2>1. Cyclic
    BY <1>3, StuckIsCyclic DEF UnmarkedCycle, CycleInv
  <2>2. phase' = "done"
    BY <1>3 DEF UnmarkedCycle, Return
  <2> QED
    BY <1>1, <2>1, <2>2 DEF CyclesReported
<1>4. CASE EndOrder
  <2>1. /\ Len(order) = Len(graph.declared)
        /\ phase = "rounds" /\ verdict' = verdict /\ order' = order
    BY <1>4 DEF EndOrder, sorting
  <2>5. Ordered = Node
    BY <2>1, AllOrdered, Declarations, NodesNumbered DEF CycleInv
  <2>2. ~Cyclic
    BY <2>5, OrderedIsAcyclic DEF CycleInv
  <2>3. verdict' # "UnmarkedCycle"
    BY <1>2, <2>1
  <2>4. Ordered' = Node
    BY <2>1, <2>5 DEF Ordered
  <2> QED
    BY <1>1, <2>2, <2>3, <2>4 DEF CyclesReported
<1>5. CASE Uninspectable \/ UnknownReference \/ UnknownTarget \/ ConflictingFanIn
  <2>1. phase' = "done" /\ verdict' # "UnmarkedCycle"
    BY <1>5 DEF Uninspectable, UnknownReference, UnknownTarget, ConflictingFanIn, Return
  <2> QED
    BY <2>1 DEF CyclesReported
<1>6. CASE SeamMismatch \/ Accept
  <2>1. phase' = "done" /\ verdict' # "UnmarkedCycle"
    BY <1>6 DEF SeamMismatch, Accept, Return
  <2> QED
    BY <2>1 DEF CyclesReported
<1>7. CASE CollectDependencies \/ BeginRound \/ Place \/ EndRound \/ Panic
  <2>1. /\ phase' \in {"rounds", "placing", "panicked"} /\ phase # "done"
        /\ verdict' = verdict
    BY <1>7 DEF CollectDependencies, BeginRound, Place, EndRound, Panic
  <2> QED
    BY <1>2, <2>1 DEF CyclesReported
<1>8. CASE SeedTarget \/ EndTargets \/ PassOver \/ Propagate \/ NextPass \/ EndPasses
  <2>1. phase \in {"targets", "passes", "seams"} /\ verdict' = verdict /\ order' = order
    BY <1>8 DEF SeedTarget, EndTargets, PassOver, Propagate, NextPass, EndPasses, sorting
  <2>2. ~Cyclic /\ Ordered = Node
    BY <2>1 DEF CycleInv, CyclesReported
  <2>3. verdict' # "UnmarkedCycle" /\ Ordered' = Node
    BY <1>2, <2>1, <2>2 DEF Ordered
  <2> QED
    BY <1>1, <2>2, <2>3 DEF CyclesReported
<1>9. CASE UNCHANGED vars
  <2>1. UNCHANGED <<phase, verdict, order>> /\ Ordered' = Ordered
    BY <1>9 DEF vars, sorting, Ordered
  <2> QED
    BY <1>1, <2>1 DEF CycleInv, CyclesReported
<1> QED
  BY <1>3, <1>4, <1>5, <1>6, <1>7, <1>8, <1>9 DEF Next

LEMMA CycleStep == CycleInv /\ [Next]_vars => CycleInv'
BY TypeStep, OrderStep, WaitsStep, CyclesStep DEF CycleInv

(***************************************************************************)
(* check_graph refuses a graph for an unmarked cycle when it has one and   *)
(* only then: a graph that passes topological_order has every node in its  *)
(* order and no set of nodes that wait for one another.                    *)
(***************************************************************************)
THEOREM CyclesAreReported == Spec => []CyclesReported
<1>1. CycleInv => CyclesReported
  BY DEF CycleInv
<1> QED
  BY <1>1, InitCycles, CycleStep, PTL DEF Spec

-----------------------------------------------------------------------------
(***************************************************************************)
(* Gating                                                                  *)
(***************************************************************************)

\* S and everything below it.
LEMMA DownstreamHolds ==
  ASSUME NEW S, NEW s \in S, s \in Node
  PROVE  s \in Downstream(S)
BY DEF Downstream

LEMMA DownstreamClosed ==
  ASSUME NEW S, NEW n \in Node, NEW r \in References(n), r \in Downstream(S)
  PROVE  n \in Downstream(S)
BY DEF Downstream

LEMMA DownstreamGrows ==
  ASSUME NEW S, NEW T, S \subseteq T
  PROVE  Downstream(S) \subseteq Downstream(T)
BY DEF Downstream

\* The least such set: whatever holds S and is closed holds it too.
LEMMA DownstreamLeast ==
  ASSUME NEW S, NEW T \in SUBSET Node, S \subseteq T,
         \A n \in Node : \A r \in References(n) : r \in T => n \in T
  PROVE  Downstream(S) \subseteq T
<1>1. \A n \in Node : References(n) \cap T # {} => n \in T
  OBVIOUS
<1> QED
  BY <1>1 DEF Downstream

\* The branches, by their places: what each makes exclusive to what.
Places == DOMAIN graph.branches
Target(i) == graph.branches[i].target
Ex(i) == [decision |-> graph.branches[i].decision, label |-> graph.branches[i].label]

(***************************************************************************)
(* Every entry of exclusive_to is that of a branch whose target leads      *)
(* there.                                                                  *)
(***************************************************************************)
Explained ==
  \A n \in Node : exclusiveTo[n] # Free =>
    \E i \in Places : exclusiveTo[n] = Ex(i) /\ n \in Downstream({Target(i)})

\* Targets get an entry and keep one.
SeedsGated ==
  \A i \in Places : phase \in {"passes", "seams"} \/ (phase = "targets" /\ i < cursor) =>
    Target(i) \in Node /\ exclusiveTo[Target(i)] # Free

\* n has an entry if a node it references has.
Closed(n) == (\E r \in References(n) : exclusiveTo[r] # Free) => exclusiveTo[n] # Free

(***************************************************************************)
(* While a pass has given no node its first entry, the nodes it has been   *)
(* to are closed: when it ends so, all are.                                *)
(***************************************************************************)
PassesClose ==
  /\ phase = "passes" /\ ~changed => \A j \in 1..N : j < cursor => Closed(graph.declared[j])
  /\ phase = "seams" => \A n \in Node : Closed(n)

\* The exclusivity pass begins with nothing.
Unseeded ==
  /\ phase \in {"dependencies", "rounds", "placing"} =>
       cursor = 1 /\ \A n \in Node : exclusiveTo[n] = Free
  /\ phase \notin {"passes", "seams", "done"} => ~changed

GateInv ==
  TypeInv /\ Explained /\ SeedsGated /\ PassesClose /\ Unseeded /\ GatedByItsBranches

LEMMA PlaceNumbers ==
  ASSUME TypeInv
  PROVE  Places = 1..Len(graph.branches) /\ Places \subseteq Nat \ {0} /\ cursor \in Nat \ {0}
<1>1. graph.branches \in Seq(Branch) /\ cursor \in Nat \ {0}
  BY GraphAssumption DEF TypeInv, TypeOK
<1>2. Places = 1..Len(graph.branches) /\ Len(graph.branches) \in Nat
  BY <1>1 DEF Places
<1> QED
  BY <1>1, <1>2

LEMMA BranchOf ==
  ASSUME TypeInv, NEW i \in Places
  PROVE  /\ Ex(i) \in Exclusivity /\ Ex(i).decision \in Decision /\ Ex(i).label \in Labels
         /\ Target(i) \in Node \cup {Unknown}
         /\ Target(i) \in Targets(Ex(i).decision, Ex(i).label)
         /\ Downstream({Target(i)}) \subseteq Side(Ex(i).decision, Ex(i).label)
<1>1. graph.branches[i] \in Branch
  <2>1. graph.branches \in Seq(Branch)
    BY GraphAssumption DEF TypeInv
  <2> QED
    BY <2>1 DEF Places
<1>2. /\ Ex(i) \in Exclusivity /\ Ex(i).decision \in Decision /\ Ex(i).label \in Labels
      /\ Target(i) \in Node \cup {Unknown}
  BY <1>1 DEF Branch, Ex, Exclusivity, Target
<1>3. Target(i) \in Targets(Ex(i).decision, Ex(i).label)
  BY DEF Targets, Target, Ex, Places
<1>4. Downstream({Target(i)}) \subseteq Side(Ex(i).decision, Ex(i).label)
  BY <1>3, DownstreamGrows DEF Side
<1> QED
  BY <1>2, <1>3, <1>4

\* A node with an entry is on the side the entry names.
LEMMA OnItsSide ==
  ASSUME TypeInv, Explained, NEW n \in Node, exclusiveTo[n] # Free
  PROVE  /\ exclusiveTo[n] \in Exclusivity
         /\ exclusiveTo[n].decision \in Decision /\ exclusiveTo[n].label \in Labels
         /\ n \in Side(exclusiveTo[n].decision, exclusiveTo[n].label)
<1>1. PICK i \in Places : exclusiveTo[n] = Ex(i) /\ n \in Downstream({Target(i)})
  BY DEF Explained
<1> QED
  BY <1>1, BranchOf

(***************************************************************************)
(* What a turn of a pass finds is the entry of a node referenced, whose    *)
(* branch leads here too.                                                  *)
(***************************************************************************)
LEMMA FoundThere ==
  ASSUME TypeInv, Explained, phase = "passes", NEW n \in Node, ExclusiveReferences(n) # {}
  PROVE  /\ \E r \in References(n) : exclusiveTo[r] = Found(n)
         /\ Found(n) # Free
         /\ \E i \in Places : Found(n) = Ex(i) /\ n \in Downstream({Target(i)})
<1>1. PICK k \in ExclusiveReferences(n) : k = Min(ExclusiveReferences(n))
  BY Referenced
<1>2. PICK r \in References(n) :
        r \in Node /\ r = graph.refs[n][k] /\ exclusiveTo[r] = Found(n) /\ exclusiveTo[r] # Free
  BY <1>1, Referenced DEF Found
<1>3. PICK i \in Places : exclusiveTo[r] = Ex(i) /\ r \in Downstream({Target(i)})
  BY <1>2 DEF Explained
<1>4. n \in Downstream({Target(i)})
  BY <1>3, DownstreamClosed
<1> QED
  BY <1>2, <1>3, <1>4

(***************************************************************************)
(* A turn of a pass, without its cursor: exclusive_to before and after.    *)
(***************************************************************************)
LEMMA PropagateTurn ==
  ASSUME TypeInv, Propagate
  PROVE  \E n \in Node :
           /\ n = graph.declared[cursor] /\ cursor \in 1..N /\ cursor' = cursor + 1
           /\ ExclusiveReferences(n) # {} /\ ~Conflicts(n)
           /\ exclusiveTo'[n] = Found(n)
           /\ \A m \in Node : m # n => exclusiveTo'[m] = exclusiveTo[m]
           /\ changed' = (changed \/ exclusiveTo[n] = Free)
           /\ phase = "passes" /\ phase' = phase /\ graph' = graph /\ verdict' = verdict
<1> DEFINE n == graph.declared[cursor]
<1>1. /\ cursor <= N /\ cursor' = cursor + 1
      /\ ExclusiveReferences(n) # {} /\ ~Conflicts(n)
      /\ exclusiveTo' = [exclusiveTo EXCEPT ![n] = Found(n)]
      /\ changed' = (changed \/ Gains(n))
      /\ phase = "passes" /\ phase' = phase /\ graph' = graph /\ verdict' = verdict
  BY DEF Propagate, sorting, TypeInv, DeclaredOnce
<1>2. n \in Node /\ cursor \in 1..N
  BY <1>1, Turn
<1>3. exclusiveTo \in [Node -> Exclusivity \cup {Free}]
  BY DEF TypeInv, TypeOK
<1>4. exclusiveTo'[n] = Found(n) /\ \A m \in Node : m # n => exclusiveTo'[m] = exclusiveTo[m]
  BY <1>1, <1>2, <1>3
<1> QED
  BY <1>1, <1>2, <1>4 DEF Gains

LEMMA SeedTurn ==
  ASSUME TypeInv, SeedTarget
  PROVE  /\ cursor \in Places /\ cursor' = cursor + 1 /\ Target(cursor) \in Node
         /\ exclusiveTo'[Target(cursor)] = Ex(cursor)
         /\ \A m \in Node : m # Target(cursor) => exclusiveTo'[m] = exclusiveTo[m]
         /\ phase = "targets" /\ UNCHANGED <<graph, phase, changed, verdict>>
<1>1. /\ cursor <= Len(graph.branches) /\ cursor' = cursor + 1
      /\ Target(cursor) # Unknown /\ exclusiveTo' = [exclusiveTo EXCEPT ![Target(cursor)] = Ex(cursor)]
      /\ phase = "targets" /\ UNCHANGED <<graph, phase, changed, verdict>>
  BY DEF SeedTarget, Target, Ex
<1>2. cursor \in Places
  <2>1. graph.branches \in Seq(Branch) /\ cursor \in Nat \ {0}
    BY GraphAssumption DEF TypeInv, TypeOK
  <2> QED
    BY <1>1, <2>1 DEF Places
<1>3. Target(cursor) \in Node
  BY <1>1, <1>2, BranchOf
<1>4. exclusiveTo \in [Node -> Exclusivity \cup {Free}]
  BY DEF TypeInv, TypeOK
<1> QED
  BY <1>1, <1>2, <1>3, <1>4

LEMMA SameBranches ==
  ASSUME graph' = graph
  PROVE  /\ Places' = Places
         /\ \A i : /\ Ex(i)' = Ex(i) /\ Target(i)' = Target(i)
                   /\ Downstream({Target(i)})' = Downstream({Target(i)})
<1>1. Places' = Places /\ \A i : Ex(i)' = Ex(i) /\ Target(i)' = Target(i)
  BY DEF Places, Ex, Target
<1>2. \A i : Downstream({Target(i)})' = Downstream({Target(i)})
  BY DEF Target, Downstream, References
<1> QED
  BY <1>1, <1>2

LEMMA InitGates == Init => GateInv
<1> SUFFICES ASSUME Init PROVE GateInv
  OBVIOUS
<1>1. /\ phase = "dependencies" /\ cursor = 1 /\ ~changed /\ \A n \in Node : exclusiveTo[n] = Free
      /\ verdict = NoVerdict
  BY DEF Init
<1>2. GatedByItsBranches
  BY <1>1, VerdictAssumption DEF GatedByItsBranches
<1> QED
  BY <1>1, <1>2, InitTypes DEF GateInv, Explained, SeedsGated, PassesClose, Unseeded

LEMMA ExplainedStep ==
  ASSUME GateInv, [Next]_vars
  PROVE  Explained'
<1>1. graph' = graph
  BY GraphKept
<1>2. TypeInv /\ Explained
  BY DEF GateInv
<1>3. CASE SeedTarget
  <2> SUFFICES ASSUME NEW n \in Node, exclusiveTo'[n] # Free
               PROVE  \E i \in Places : exclusiveTo'[n] = Ex(i) /\ n \in Downstream({Target(i)})
    BY <1>1, SameBranches DEF Explained
  <2>1. CASE n = Target(cursor)
    BY <1>2, <1>3, <2>1, SeedTurn, DownstreamHolds
  <2>2. CASE n # Target(cursor)
    BY <1>2, <1>3, <2>2, SeedTurn DEF Explained
  <2> QED
    BY <2>1, <2>2
<1>4. CASE Propagate
  <2> SUFFICES ASSUME NEW n \in Node, exclusiveTo'[n] # Free
               PROVE  \E i \in Places : exclusiveTo'[n] = Ex(i) /\ n \in Downstream({Target(i)})
    BY <1>1, SameBranches DEF Explained
  <2>1. PICK t \in Node :
          /\ ExclusiveReferences(t) # {} /\ phase = "passes" /\ exclusiveTo'[t] = Found(t)
          /\ \A m \in Node : m # t => exclusiveTo'[m] = exclusiveTo[m]
    BY <1>2, <1>4, PropagateTurn
  <2>2. CASE n = t
    BY <1>2, <2>1, <2>2, FoundThere
  <2>3. CASE n # t
    BY <1>2, <2>1, <2>3 DEF Explained
  <2> QED
    BY <2>2, <2>3
<1>5. ASSUME ~SeedTarget, ~Propagate PROVE exclusiveTo' = exclusiveTo
  BY <1>5 DEF Next, vars, sorting, propagating, Return, Uninspectable, UnknownReference,
    CollectDependencies, BeginRound, Place, EndRound, UnmarkedCycle, Panic, EndOrder, UnknownTarget,
    EndTargets, ConflictingFanIn, PassOver, NextPass, EndPasses, SeamMismatch, Accept
<1>6. exclusiveTo' = exclusiveTo => Explained'
  BY <1>1, <1>2, SameBranches DEF Explained
<1> QED
  BY <1>3, <1>4, <1>5, <1>6

LEMMA SeedsStep ==
  ASSUME GateInv, [Next]_vars
  PROVE  SeedsGated'
<1>1. graph' = graph
  BY GraphKept
<1>2. TypeInv /\ Explained /\ SeedsGated
  BY DEF GateInv
<1>3. Places \subseteq Nat \ {0} /\ cursor \in Nat \ {0}
  BY <1>2, PlaceNumbers
<1>4. CASE SeedTarget
  <2> SUFFICES ASSUME NEW i \in Places, i < cursor + 1
               PROVE  Target(i) \in Node /\ exclusiveTo'[Target(i)] # Free
    BY <1>1, <1>2, <1>4, SeedTurn, SameBranches DEF SeedsGated
  <2>1. Ex(cursor) # Free
    BY <1>2, <1>4, SeedTurn, BranchOf, GraphAssumption
  <2>2. CASE i = cursor
    BY <1>2, <1>4, <2>1, <2>2, SeedTurn
  <2>3. CASE i # cursor
    <3>1. i < cursor
      BY <1>3, <2>3
    <3>2. Target(i) \in Node /\ exclusiveTo[Target(i)] # Free
      BY <1>2, <1>4, <3>1, SeedTurn DEF SeedsGated
    <3> QED
      BY <1>2, <1>4, <2>1, <3>2, SeedTurn
  <2> QED
    BY <2>2, <2>3
<1>5. CASE EndTargets
  <2>1. phase = "targets" /\ cursor > Len(graph.branches) /\ exclusiveTo' = exclusiveTo
    BY <1>5 DEF EndTargets
  <2>2. \A i \in Places : i < cursor
    <3>1. graph.branches \in Seq(Branch)
      BY GraphAssumption, <1>2 DEF TypeInv
    <3> QED
      BY <1>3, <2>1, <3>1 DEF Places
  <2> QED
    BY <1>1, <1>2, <2>1, <2>2, SameBranches DEF SeedsGated
<1>6. CASE Propagate
  <2>1. PICK t \in Node :
          /\ ExclusiveReferences(t) # {} /\ phase = "passes" /\ exclusiveTo'[t] = Found(t)
          /\ \A m \in Node : m # t => exclusiveTo'[m] = exclusiveTo[m]
    BY <1>2, <1>6, PropagateTurn
  <2>2. Found(t) # Free
    BY <1>2, <2>1, FoundThere
  <2> QED
    BY <1>1, <1>2, <2>1, <2>2, SameBranches DEF SeedsGated
<1>7. CASE PassOver \/ NextPass \/ EndPasses
  <2>1. phase = "passes" /\ exclusiveTo' = exclusiveTo
    BY <1>7 DEF PassOver, NextPass, EndPasses, propagating
  <2> QED
    BY <1>1, <1>2, <2>1, SameBranches DEF SeedsGated
<1>8. CASE EndOrder
  <2>1. phase' = "targets" /\ cursor' = 1
    BY <1>8 DEF EndOrder, propagating, GateInv, Unseeded
  <2>2. \A i \in Places : ~(i < 1)
    BY <1>3
  <2> QED
    BY <1>1, <2>1, <2>2, SameBranches DEF SeedsGated
<1>9. CASE CollectDependencies \/ BeginRound \/ Place \/ EndRound \/ Panic
  <2>1. phase' \in {"rounds", "placing", "panicked"}
    BY <1>9 DEF CollectDependencies, BeginRound, Place, EndRound, Panic
  <2> QED
    BY <2>1 DEF SeedsGated
<1>10. CASE \/ Uninspectable \/ UnknownReference \/ UnmarkedCycle \/ UnknownTarget
            \/ ConflictingFanIn \/ SeamMismatch \/ Accept
  <2>1. phase' = "done"
    BY <1>10 DEF Uninspectable, UnknownReference, UnmarkedCycle, UnknownTarget, ConflictingFanIn,
      SeamMismatch, Accept, Return
  <2> QED
    BY <2>1 DEF SeedsGated
<1>11. CASE UNCHANGED vars
  BY <1>1, <1>2, <1>11, SameBranches DEF SeedsGated, vars, propagating
<1> QED
  BY <1>4, <1>5, <1>6, <1>7, <1>8, <1>9, <1>10, <1>11 DEF Next

\* Every node has its turn in a pass.
LEMMA EveryTurn ==
  ASSUME TypeInv, phase = "passes", NEW n \in Node
  PROVE  \E j \in 1..N : graph.declared[j] = n
BY Declarations DEF TypeInv, DeclaredOnce

LEMMA PassesStep ==
  ASSUME GateInv, [Next]_vars
  PROVE  PassesClose'
<1>1. graph' = graph /\ \A n : References(n)' = References(n)
  BY GraphKept, SameGraph
<1>2. TypeInv /\ Explained /\ PassesClose
  BY DEF GateInv
<1>3. N \in Nat /\ cursor \in Nat \ {0}
  BY <1>2, GraphAssumption DEF TypeInv, TypeOK
<1>4. \A j \in 1..N : graph.declared[j] \in Node
  <2>1. graph.declared \in Seq(Node) /\ N <= Len(graph.declared)
    BY <1>2, Declarations
  <2> QED
    BY <1>3, <2>1
<1>5. CASE PassOver
  <2> DEFINE n == graph.declared[cursor]
  <2>1. /\ phase = "passes" /\ phase' = "passes" /\ cursor <= N /\ ExclusiveReferences(n) = {}
        /\ cursor' = cursor + 1 /\ UNCHANGED <<exclusiveTo, changed>>
    BY <1>2, <1>5 DEF PassOver, TypeInv, DeclaredOnce
  <2>2. n \in Node
    BY <1>2, <2>1, Turn
  <2>3. Closed(n)
    BY <1>2, <2>1, <2>2, Referenced DEF Closed
  <2>4. ASSUME ~changed, NEW j \in 1..N, j < cursor + 1 PROVE Closed(graph.declared[j])
    <3>1. CASE j = cursor
      BY <2>3, <3>1
    <3>2. CASE j < cursor
      BY <1>2, <2>1, <2>4, <3>2 DEF PassesClose
    <3> QED
      BY <1>3, <2>4, <3>1, <3>2
  <2> QED
    BY <1>1, <2>1, <2>4 DEF PassesClose, Closed
<1>6. CASE Propagate
  <2>1. PICK t \in Node :
          /\ t = graph.declared[cursor] /\ cursor \in 1..N /\ cursor' = cursor + 1
          /\ ExclusiveReferences(t) # {} /\ exclusiveTo'[t] = Found(t)
          /\ \A m \in Node : m # t => exclusiveTo'[m] = exclusiveTo[m]
          /\ changed' = (changed \/ exclusiveTo[t] = Free)
          /\ phase = "passes" /\ phase' = phase
    BY <1>2, <1>6, PropagateTurn
  <2>2. Found(t) # Free
    BY <1>2, <2>1, FoundThere
  <2> SUFFICES ASSUME ~changed', NEW j \in 1..N, j < cursor + 1,
                      NEW r \in References(graph.declared[j]), exclusiveTo'[r] # Free
               PROVE  exclusiveTo'[graph.declared[j]] # Free
    BY <1>1, <2>1 DEF PassesClose, Closed
  <2>3. ~changed /\ exclusiveTo[t] # Free
    BY <2>1
  <2>4. graph.declared[j] \in Node /\ r \in Node
    BY <1>2, <1>4, <2>1, Referenced
  <2>5. CASE j = cursor
    BY <2>1, <2>2, <2>5
  <2>6. CASE j < cursor
    <3>1. exclusiveTo[r] # Free
      BY <2>1, <2>3, <2>4
    <3>2. exclusiveTo[graph.declared[j]] # Free
      BY <1>2, <2>1, <2>3, <2>6, <3>1 DEF PassesClose, Closed
    <3> QED
      BY <2>1, <2>2, <2>4, <3>2
  <2> QED
    BY <1>3, <2>5, <2>6
<1>7. CASE EndPasses
  <2>1. phase = "passes" /\ phase' = "seams" /\ cursor > N /\ ~changed /\ exclusiveTo' = exclusiveTo
    BY <1>2, <1>7 DEF EndPasses, propagating, TypeInv, DeclaredOnce
  <2>2. ASSUME NEW n \in Node PROVE Closed(n)
    <3>1. PICK j \in 1..N : graph.declared[j] = n
      BY <1>2, <2>1, EveryTurn
    <3>2. j < cursor
      BY <1>3, <2>1
    <3> QED
      BY <1>2, <2>1, <3>1, <3>2 DEF PassesClose
  <2> QED
    BY <1>1, <2>1, <2>2 DEF PassesClose, Closed
<1>8. CASE NextPass \/ EndTargets
  <2>1. phase' = "passes" /\ cursor' = 1
    BY <1>8 DEF NextPass, EndTargets
  <2>2. \A j \in 1..N : ~(j < 1)
    BY <1>3
  <2> QED
    BY <2>1, <2>2 DEF PassesClose
<1>9. CASE CollectDependencies \/ BeginRound \/ Place \/ EndRound \/ Panic \/ EndOrder \/ SeedTarget
  <2>1. phase' \in {"rounds", "placing", "panicked", "targets"}
    BY <1>9 DEF CollectDependencies, BeginRound, Place, EndRound, Panic, EndOrder, SeedTarget
  <2> QED
    BY <2>1 DEF PassesClose
<1>10. CASE \/ Uninspectable \/ UnknownReference \/ UnmarkedCycle \/ UnknownTarget
            \/ ConflictingFanIn \/ SeamMismatch \/ Accept
  <2>1. phase' = "done"
    BY <1>10 DEF Uninspectable, UnknownReference, UnmarkedCycle, UnknownTarget, ConflictingFanIn,
      SeamMismatch, Accept, Return
  <2> QED
    BY <2>1 DEF PassesClose
<1>11. CASE UNCHANGED vars
  BY <1>1, <1>2, <1>11 DEF PassesClose, Closed, vars, propagating
<1> QED
  BY <1>5, <1>6, <1>7, <1>8, <1>9, <1>10, <1>11 DEF Next

LEMMA UnseededStep == GateInv /\ [Next]_vars => Unseeded'
<1> SUFFICES ASSUME GateInv, [Next]_vars PROVE Unseeded'
  OBVIOUS
<1>1. CASE CollectDependencies \/ BeginRound \/ Place \/ EndRound \/ Panic \/ EndOrder
  BY <1>1 DEF CollectDependencies, BeginRound, Place, EndRound, Panic, EndOrder, propagating, GateInv,
    Unseeded
<1>2. CASE SeedTarget \/ EndTargets \/ PassOver \/ Propagate \/ NextPass \/ EndPasses
  BY <1>2 DEF SeedTarget, EndTargets, PassOver, Propagate, NextPass, EndPasses, propagating,
    GateInv, Unseeded
<1>3. CASE \/ Uninspectable \/ UnknownReference \/ UnmarkedCycle \/ UnknownTarget
            \/ ConflictingFanIn \/ SeamMismatch \/ Accept
  <2>1. phase' = "done"
    BY <1>3 DEF Uninspectable, UnknownReference, UnmarkedCycle, UnknownTarget, ConflictingFanIn,
      SeamMismatch, Accept, Return
  <2> QED
    BY <2>1 DEF Unseeded
<1>4. CASE UNCHANGED vars
  BY <1>4 DEF vars, propagating, GateInv, Unseeded
<1> QED
  BY <1>1, <1>2, <1>3, <1>4 DEF Next

(***************************************************************************)
(* When the passes have ended, the nodes with an entry are closed and hold *)
(* every target: no side of a decision reaches further.                    *)
(***************************************************************************)
LEMMA SidesGated ==
  ASSUME GateInv, phase = "seams", NEW d \in Decision, NEW l \in Labels
  PROVE  \A n \in Side(d, l) : n \in Node /\ exclusiveTo[n] # Free
<1> DEFINE Gated == {n \in Node : exclusiveTo[n] # Free}
<1>1. Targets(d, l) \subseteq Gated
  BY DEF GateInv, SeedsGated, Targets, Target, Places
<1>2. \A n \in Node : \A r \in References(n) : r \in Gated => n \in Gated
  BY DEF GateInv, PassesClose, Closed
<1>3. Gated \in SUBSET Node
  OBVIOUS
<1> HIDE DEF Gated
<1>4. Side(d, l) \subseteq Gated
  BY <1>1, <1>2, <1>3, DownstreamLeast DEF Side
<1> QED
  BY <1>4 DEF Gated

LEMMA GatedStep ==
  ASSUME GateInv, [Next]_vars
  PROVE  GatedByItsBranches'
<1>1. graph' = graph /\ \A d, l : Side(d, l)' = Side(d, l)
  BY GraphKept, SameGraph
<1>2. phase # "done" => verdict # "Checked"
  BY VerdictAssumption DEF GateInv, TypeInv
<1>3. CASE Accept
  <2>1. phase = "seams" /\ exclusiveTo' = exclusiveTo
    BY <1>3 DEF Accept, Return, propagating
  <2>2. ASSUME NEW n \in Node
        PROVE  IF exclusiveTo[n] = Free
               THEN \A d \in Decision, l \in Labels : n \notin Side(d, l)
               ELSE n \in Side(exclusiveTo[n].decision, exclusiveTo[n].label)
    BY <2>1, SidesGated, OnItsSide DEF GateInv
  <2> QED
    BY <1>1, <2>1, <2>2 DEF GatedByItsBranches
<1>4. CASE \/ Uninspectable \/ UnknownReference \/ UnmarkedCycle \/ UnknownTarget
           \/ ConflictingFanIn \/ SeamMismatch
  <2>1. verdict' # "Checked"
    BY <1>4 DEF Uninspectable, UnknownReference, UnmarkedCycle, UnknownTarget, ConflictingFanIn,
      SeamMismatch, Return
  <2> QED
    BY <2>1 DEF GatedByItsBranches
<1>5. CASE \/ CollectDependencies \/ BeginRound \/ Place \/ EndRound \/ Panic \/ EndOrder
           \/ SeedTarget \/ EndTargets \/ PassOver \/ Propagate \/ NextPass \/ EndPasses
  <2>1. verdict' = verdict /\ phase # "done"
    BY <1>5 DEF CollectDependencies, BeginRound, Place, EndRound, Panic, EndOrder, SeedTarget,
      EndTargets, PassOver, Propagate, NextPass, EndPasses
  <2> QED
    BY <1>2, <2>1 DEF GatedByItsBranches
<1>6. CASE UNCHANGED vars
  BY <1>1, <1>6 DEF GateInv, GatedByItsBranches, vars, propagating
<1> QED
  BY <1>3, <1>4, <1>5, <1>6 DEF Next

LEMMA GateStep == GateInv /\ [Next]_vars => GateInv'
BY TypeStep, ExplainedStep, SeedsStep, PassesStep, UnseededStep, GatedStep DEF GateInv

(***************************************************************************)
(* In an accepted graph exactly the nodes downstream of branch targets are *)
(* gated, each by a label that leads to it, for every graph, nested and    *)
(* shared decisions included.                                              *)
(***************************************************************************)
THEOREM GatingFollowsBranches == Spec => []GatedByItsBranches
<1>1. GateInv => GatedByItsBranches
  BY DEF GateInv
<1> QED
  BY <1>1, InitGates, GateStep, PTL DEF Spec

-----------------------------------------------------------------------------
(***************************************************************************)
(* The rule                                                                *)
(***************************************************************************)

\* No two decisions meet and no target leads to another.
Plain == Independent /\ TargetsApart

\* Targets keep the entry they were seeded with.
SeedsKept ==
  \A i \in Places : phase \in {"passes", "seams"} \/ (phase = "targets" /\ i < cursor) =>
    exclusiveTo[Target(i)] = Ex(i)

\* Any other entry is that of a node referenced.
Traced ==
  \A n \in Node : exclusiveTo[n] # Free =>
    \/ \E i \in Places : n = Target(i)
    \/ phase # "targets" /\ \E r \in References(n) : exclusiveTo[r] = exclusiveTo[n]

\* The entries among n's references are n's own.
Settled(n) ==
  \A r \in References(n) : exclusiveTo[r] # Free => exclusiveTo[r] = exclusiveTo[n]

(***************************************************************************)
(* While a pass has given no node its first entry it has changed nothing,  *)
(* and the nodes it has been to are settled: when it ends so, all are.     *)
(***************************************************************************)
PassesSettle ==
  /\ phase = "passes" /\ ~changed => \A j \in 1..N : j < cursor => Settled(graph.declared[j])
  /\ phase = "seams" => \A n \in Node : Settled(n)

RuleInv ==
  GateInv /\ RuleImplemented /\ (Plain /\ phase # "done" => SeedsKept /\ Traced /\ PassesSettle)

\* Entries of one node's references that do not conflict are the same entry.
LEMMA OneEntry ==
  ASSUME GateInv, Independent, phase = "passes", NEW n \in Node,
         ExclusiveReferences(n) # {}, ~Conflicts(n),
         NEW r \in References(n), exclusiveTo[r] # Free
  PROVE  exclusiveTo[r] = Found(n)
<1>1. TypeInv /\ Explained /\ r \in Node
  BY Referenced DEF GateInv
<1>2. PICK q \in References(n) : exclusiveTo[q] = Found(n) /\ exclusiveTo[q] # Free /\ q \in Node
  BY <1>1, FoundThere, Referenced
<1>3. /\ exclusiveTo[r] \in Exclusivity /\ exclusiveTo[q] \in Exclusivity
      /\ exclusiveTo[r].decision \in Decision /\ exclusiveTo[r].label \in Labels
      /\ exclusiveTo[q].decision \in Decision /\ exclusiveTo[q].label \in Labels
      /\ n \in Side(exclusiveTo[r].decision, exclusiveTo[r].label)
      /\ n \in Side(exclusiveTo[q].decision, exclusiveTo[q].label)
  BY <1>1, <1>2, OnItsSide, DownstreamClosed DEF Side
<1>4. exclusiveTo[r].decision = exclusiveTo[q].decision
  BY <1>3 DEF Independent
<1>5. PICK i \in ExclusiveReferences(n) : graph.refs[n][i] = r
  BY <1>1, Referenced
<1>6. exclusiveTo[r].label = exclusiveTo[q].label
  BY <1>2, <1>4, <1>5 DEF Conflicts
<1> QED
  BY <1>2, <1>3, <1>4, <1>6 DEF Exclusivity

\* A turn of a pass gives a node that has an entry the entry it has.
LEMMA SameEntry ==
  ASSUME GateInv, Plain, SeedsKept, Traced, phase = "passes", NEW n \in Node,
         ExclusiveReferences(n) # {}, ~Conflicts(n), exclusiveTo[n] # Free
  PROVE  exclusiveTo[n] = Found(n)
<1>1. CASE \E r \in References(n) : exclusiveTo[r] = exclusiveTo[n]
  BY <1>1, OneEntry DEF Plain
<1>2. CASE \E i \in Places : n = Target(i)
  <2>1. PICK i \in Places : n = Target(i)
    BY <1>2
  <2>2. PICK j \in Places : Found(n) = Ex(j) /\ n \in Downstream({Target(j)})
    BY FoundThere DEF GateInv
  <2>3. i = j
    BY <2>1, <2>2 DEF Plain, TargetsApart, Target, Places
  <2> QED
    BY <2>1, <2>2, <2>3 DEF SeedsKept
<1> QED
  BY <1>1, <1>2 DEF Traced

\* So a turn changes an entry only when it gives the first one.
LEMMA RuleTurn ==
  ASSUME GateInv, Plain, SeedsKept, Traced, Propagate
  PROVE  \E n \in Node :
           /\ n = graph.declared[cursor] /\ cursor \in 1..N /\ cursor' = cursor + 1
           /\ \A m \in Node : exclusiveTo[m] # Free => exclusiveTo'[m] = exclusiveTo[m]
           /\ \A m \in Node : m # n => exclusiveTo'[m] = exclusiveTo[m]
           /\ exclusiveTo'[n] # Free
           /\ \A r \in References(n) :
                r \in Node /\ (exclusiveTo[r] # Free => exclusiveTo[r] = exclusiveTo'[n])
           /\ \E r \in References(n) : exclusiveTo[r] # Free
           /\ changed' = (changed \/ exclusiveTo[n] = Free)
           /\ phase = "passes" /\ phase' = phase
<1>1. TypeInv /\ Explained
  BY DEF GateInv
<1>2. PICK n \in Node :
        /\ n = graph.declared[cursor] /\ cursor \in 1..N /\ cursor' = cursor + 1
        /\ ExclusiveReferences(n) # {} /\ ~Conflicts(n) /\ exclusiveTo'[n] = Found(n)
        /\ \A m \in Node : m # n => exclusiveTo'[m] = exclusiveTo[m]
        /\ changed' = (changed \/ exclusiveTo[n] = Free)
        /\ phase = "passes" /\ phase' = phase
  BY <1>1, PropagateTurn
<1>3. exclusiveTo[n] # Free => exclusiveTo[n] = Found(n)
  BY <1>2, SameEntry
<1>4. Found(n) # Free /\ \E r \in References(n) : exclusiveTo[r] = Found(n)
  BY <1>1, <1>2, FoundThere
<1>5. \A r \in References(n) : r \in Node /\ (exclusiveTo[r] # Free => exclusiveTo[r] = Found(n))
  BY <1>1, <1>2, OneEntry, Referenced DEF Plain
<1> QED
  BY <1>2, <1>3, <1>4, <1>5

LEMMA SeedsKeptStep ==
  ASSUME RuleInv, Plain, phase # "done", [Next]_vars
  PROVE  SeedsKept'
<1>1. graph' = graph
  BY GraphKept
<1>2. TypeInv /\ GateInv /\ SeedsGated /\ SeedsKept /\ Traced
  BY DEF RuleInv, GateInv
<1>3. Places = 1..Len(graph.branches) /\ Places \subseteq Nat \ {0} /\ cursor \in Nat \ {0}
  BY <1>2, PlaceNumbers
<1>4. CASE SeedTarget
  <2> SUFFICES ASSUME NEW i \in Places, i < cursor + 1 PROVE exclusiveTo'[Target(i)] = Ex(i)
    BY <1>1, <1>2, <1>4, SeedTurn, SameBranches DEF SeedsKept
  <2>1. CASE i = cursor
    BY <1>2, <1>4, <2>1, SeedTurn
  <2>2. CASE i # cursor
    <3>1. i < cursor /\ cursor \in Places /\ phase = "targets"
      BY <1>2, <1>3, <1>4, <2>2, SeedTurn
    <3>2. Target(i) \in Node /\ exclusiveTo[Target(i)] = Ex(i)
      BY <1>2, <3>1 DEF SeedsGated, SeedsKept
    <3>3. Target(i) # Target(cursor)
      <4>1. Target(i) \in Downstream({Target(i)})
        BY <3>2, DownstreamHolds
      <4> QED
        BY <2>2, <3>1, <4>1 DEF Plain, TargetsApart, Target, Places
    <3> QED
      BY <1>2, <1>4, <3>2, <3>3, SeedTurn
  <2> QED
    BY <2>1, <2>2
<1>5. CASE EndTargets
  <2>1. phase = "targets" /\ cursor > Len(graph.branches) /\ exclusiveTo' = exclusiveTo
    BY <1>5 DEF EndTargets
  <2>2. Len(graph.branches) \in Nat
    <3>1. graph.branches \in Seq(Branch)
      BY <1>2, GraphAssumption DEF TypeInv
    <3> QED
      BY <3>1
  <2>3. \A i \in Places : i < cursor
    BY <1>3, <2>1, <2>2
  <2> QED
    BY <1>1, <1>2, <2>1, <2>3, SameBranches DEF SeedsKept
<1>6. CASE Propagate
  <2>1. /\ \A m \in Node : exclusiveTo[m] # Free => exclusiveTo'[m] = exclusiveTo[m]
        /\ phase = "passes"
    BY <1>2, <1>6, RuleTurn
  <2>2. \A i \in Places : Target(i) \in Node /\ exclusiveTo[Target(i)] # Free
    BY <1>2, <2>1 DEF SeedsGated
  <2> QED
    BY <1>1, <1>2, <2>1, <2>2, SameBranches DEF SeedsKept
<1>7. CASE PassOver \/ NextPass \/ EndPasses
  <2>1. phase = "passes" /\ exclusiveTo' = exclusiveTo
    BY <1>7 DEF PassOver, NextPass, EndPasses, propagating
  <2> QED
    BY <1>1, <1>2, <2>1, SameBranches DEF SeedsKept
<1>8. CASE EndOrder
  <2>1. phase' = "targets" /\ cursor' = 1
    BY <1>2, <1>8 DEF EndOrder, propagating, GateInv, Unseeded
  <2>2. \A i \in Places : ~(i < 1)
    BY <1>3
  <2> QED
    BY <1>1, <2>1, <2>2, SameBranches DEF SeedsKept
<1>9. CASE CollectDependencies \/ BeginRound \/ Place \/ EndRound \/ Panic
  <2>1. phase' \in {"rounds", "placing", "panicked"}
    BY <1>9 DEF CollectDependencies, BeginRound, Place, EndRound, Panic
  <2> QED
    BY <2>1 DEF SeedsKept
<1>10. CASE \/ Uninspectable \/ UnknownReference \/ UnmarkedCycle \/ UnknownTarget
            \/ ConflictingFanIn \/ SeamMismatch \/ Accept
  <2>1. phase' = "done"
    BY <1>10 DEF Uninspectable, UnknownReference, UnmarkedCycle, UnknownTarget, ConflictingFanIn,
      SeamMismatch, Accept, Return
  <2> QED
    BY <2>1 DEF SeedsKept
<1>11. CASE UNCHANGED vars
  BY <1>1, <1>2, <1>11, SameBranches DEF SeedsKept, vars, propagating
<1> QED
  BY <1>4, <1>5, <1>6, <1>7, <1>8, <1>9, <1>10, <1>11 DEF Next

LEMMA TracedStep ==
  ASSUME RuleInv, Plain, phase # "done", [Next]_vars
  PROVE  Traced'
<1>1. graph' = graph /\ \A n : References(n)' = References(n)
  BY GraphKept, SameGraph
<1>2. TypeInv /\ GateInv /\ Traced /\ SeedsKept
  BY DEF RuleInv, GateInv
<1>3. CASE SeedTarget
  <2> SUFFICES ASSUME NEW n \in Node, exclusiveTo'[n] # Free PROVE \E i \in Places : n = Target(i)
    BY <1>1, SameBranches DEF Traced
  <2>1. CASE n = Target(cursor)
    BY <1>2, <1>3, <2>1, SeedTurn
  <2>2. CASE n # Target(cursor)
    BY <1>2, <1>3, <2>2, SeedTurn DEF Traced
  <2> QED
    BY <2>1, <2>2
<1>4. CASE Propagate
  <2>1. PICK t \in Node :
          /\ \A m \in Node : exclusiveTo[m] # Free => exclusiveTo'[m] = exclusiveTo[m]
          /\ \A m \in Node : m # t => exclusiveTo'[m] = exclusiveTo[m]
          /\ \A r \in References(t) :
               r \in Node /\ (exclusiveTo[r] # Free => exclusiveTo[r] = exclusiveTo'[t])
          /\ \E r \in References(t) : exclusiveTo[r] # Free
          /\ phase = "passes" /\ phase' = phase
    BY <1>2, <1>4, RuleTurn
  <2> SUFFICES ASSUME NEW n \in Node, exclusiveTo'[n] # Free
               PROVE  \/ \E i \in Places : n = Target(i)
                      \/ \E r \in References(n) : exclusiveTo'[r] = exclusiveTo'[n]
    <3>1. Places' = Places /\ \A i : Target(i)' = Target(i)
      BY <1>1, SameBranches
    <3>2. phase' # "targets"
      BY <2>1
    <3> QED
      BY <1>1, <3>1, <3>2, Zenon DEF Traced
  <2>2. CASE exclusiveTo[n] = Free
    <3>1. n = t
      BY <2>1, <2>2
    <3>2. PICK r \in References(t) : exclusiveTo[r] # Free
      BY <2>1
    <3> QED
      BY <2>1, <3>1, <3>2
  <2>3. CASE exclusiveTo[n] # Free
    <3>1. ASSUME NEW r \in References(n), exclusiveTo[r] = exclusiveTo[n]
          PROVE  exclusiveTo'[r] = exclusiveTo'[n]
      <4>1. r \in Node
        BY <1>2, <2>1, Referenced
      <4> QED
        BY <2>1, <2>3, <3>1, <4>1
    <3> QED
      BY <1>2, <2>3, <3>1 DEF Traced
  <2> QED
    BY <2>2, <2>3
<1>5. CASE EndTargets \/ PassOver \/ NextPass \/ EndPasses
  <2>1. exclusiveTo' = exclusiveTo /\ phase' # "targets"
    BY <1>5 DEF EndTargets, PassOver, NextPass, EndPasses, propagating
  <2> QED
    BY <1>1, <1>2, <2>1, SameBranches DEF Traced
<1>6. CASE CollectDependencies \/ BeginRound \/ Place \/ EndRound \/ Panic \/ EndOrder
  <2>1. exclusiveTo' = exclusiveTo /\ phase \in {"dependencies", "rounds", "placing"}
    BY <1>6 DEF CollectDependencies, BeginRound, Place, EndRound, Panic, EndOrder, propagating
  <2>2. \A n \in Node : exclusiveTo'[n] = Free
    BY <1>2, <2>1 DEF GateInv, Unseeded
  <2> QED
    BY <2>2 DEF Traced
<1>7. CASE \/ Uninspectable \/ UnknownReference \/ UnmarkedCycle \/ UnknownTarget
           \/ ConflictingFanIn \/ SeamMismatch \/ Accept
  <2>1. exclusiveTo' = exclusiveTo /\ phase' # "targets"
    BY <1>7 DEF Uninspectable, UnknownReference, UnmarkedCycle, UnknownTarget, ConflictingFanIn,
      SeamMismatch, Accept, Return, propagating
  <2> QED
    BY <1>1, <1>2, <2>1, SameBranches DEF Traced
<1>8. CASE UNCHANGED vars
  BY <1>1, <1>2, <1>8, SameBranches DEF Traced, vars, propagating
<1> QED
  BY <1>3, <1>4, <1>5, <1>6, <1>7, <1>8 DEF Next

LEMMA SettleStep ==
  ASSUME RuleInv, Plain, phase # "done", [Next]_vars
  PROVE  PassesSettle'
<1>1. graph' = graph /\ \A n : References(n)' = References(n)
  BY GraphKept, SameGraph
<1>2. TypeInv /\ GateInv /\ Traced /\ SeedsKept /\ PassesSettle
  BY DEF RuleInv, GateInv
<1>3. N \in Nat /\ cursor \in Nat \ {0}
  BY <1>2, GraphAssumption DEF TypeInv, TypeOK
<1>4. \A j \in 1..N : graph.declared[j] \in Node
  <2>1. graph.declared \in Seq(Node) /\ N <= Len(graph.declared)
    BY <1>2, Declarations
  <2> QED
    BY <1>3, <2>1
<1>5. CASE PassOver
  <2> DEFINE n == graph.declared[cursor]
  <2>1. /\ phase = "passes" /\ phase' = "passes" /\ cursor <= N /\ ExclusiveReferences(n) = {}
        /\ cursor' = cursor + 1 /\ UNCHANGED <<exclusiveTo, changed>>
    BY <1>2, <1>5 DEF PassOver, TypeInv, DeclaredOnce
  <2>2. n \in Node
    BY <1>2, <2>1, Turn
  <2>3. Settled(n)
    BY <1>2, <2>1, <2>2, Referenced DEF Settled
  <2>4. ASSUME ~changed, NEW j \in 1..N, j < cursor + 1 PROVE Settled(graph.declared[j])
    <3>1. CASE j = cursor
      BY <2>3, <3>1
    <3>2. CASE j < cursor
      BY <1>2, <2>1, <2>4, <3>2 DEF PassesSettle
    <3> QED
      BY <1>3, <2>4, <3>1, <3>2
  <2> QED
    BY <1>1, <2>1, <2>4 DEF PassesSettle, Settled
<1>6. CASE Propagate
  <2>1. PICK t \in Node :
          /\ t = graph.declared[cursor] /\ cursor \in 1..N /\ cursor' = cursor + 1
          /\ \A m \in Node : exclusiveTo[m] # Free => exclusiveTo'[m] = exclusiveTo[m]
          /\ \A m \in Node : m # t => exclusiveTo'[m] = exclusiveTo[m]
          /\ \A r \in References(t) :
               r \in Node /\ (exclusiveTo[r] # Free => exclusiveTo[r] = exclusiveTo'[t])
          /\ changed' = (changed \/ exclusiveTo[t] = Free)
          /\ phase = "passes" /\ phase' = phase
    BY <1>2, <1>6, RuleTurn
  <2> SUFFICES ASSUME ~changed', NEW j \in 1..N, j < cursor + 1,
                      NEW r \in References(graph.declared[j]), exclusiveTo'[r] # Free
               PROVE  exclusiveTo'[r] = exclusiveTo'[graph.declared[j]]
    BY <1>1, <2>1 DEF PassesSettle, Settled
  <2>2. ~changed /\ \A m \in Node : exclusiveTo'[m] = exclusiveTo[m]
    BY <2>1
  <2>3. graph.declared[j] \in Node /\ r \in Node
    BY <1>2, <1>4, <2>1, Referenced
  <2>4. CASE j = cursor
    BY <2>1, <2>2, <2>3, <2>4
  <2>5. CASE j < cursor
    <3>1. exclusiveTo[r] = exclusiveTo[graph.declared[j]]
      BY <1>2, <2>1, <2>2, <2>3, <2>5 DEF PassesSettle, Settled
    <3> QED
      BY <2>2, <2>3, <3>1
  <2> QED
    BY <1>3, <2>4, <2>5
<1>7. CASE EndPasses
  <2>1. phase = "passes" /\ phase' = "seams" /\ cursor > N /\ ~changed /\ exclusiveTo' = exclusiveTo
    BY <1>2, <1>7 DEF EndPasses, propagating, TypeInv, DeclaredOnce
  <2>2. ASSUME NEW n \in Node PROVE Settled(n)
    <3>1. PICK j \in 1..N : graph.declared[j] = n
      BY <1>2, <2>1, EveryTurn
    <3>2. j < cursor
      BY <1>3, <2>1
    <3> QED
      BY <1>2, <2>1, <3>1, <3>2 DEF PassesSettle
  <2> QED
    BY <1>1, <2>1, <2>2 DEF PassesSettle, Settled
<1>8. CASE NextPass \/ EndTargets
  <2>1. phase' = "passes" /\ cursor' = 1
    BY <1>8 DEF NextPass, EndTargets
  <2>2. \A j \in 1..N : ~(j < 1)
    BY <1>3
  <2> QED
    BY <2>1, <2>2 DEF PassesSettle
<1>9. CASE CollectDependencies \/ BeginRound \/ Place \/ EndRound \/ Panic \/ EndOrder \/ SeedTarget
  <2>1. phase' \in {"rounds", "placing", "panicked", "targets"}
    BY <1>9 DEF CollectDependencies, BeginRound, Place, EndRound, Panic, EndOrder, SeedTarget
  <2> QED
    BY <2>1 DEF PassesSettle
<1>10. CASE \/ Uninspectable \/ UnknownReference \/ UnmarkedCycle \/ UnknownTarget
            \/ ConflictingFanIn \/ SeamMismatch \/ Accept
  <2>1. phase' = "done"
    BY <1>10 DEF Uninspectable, UnknownReference, UnmarkedCycle, UnknownTarget, ConflictingFanIn,
      SeamMismatch, Accept, Return
  <2> QED
    BY <2>1 DEF PassesSettle
<1>11. CASE UNCHANGED vars
  BY <1>1, <1>2, <1>11 DEF PassesSettle, Settled, vars, propagating
<1> QED
  BY <1>5, <1>6, <1>7, <1>8, <1>9, <1>10, <1>11 DEF Next

\* At the end of the passes a node is on a side exactly when its entry says so.
LEMMA SidesAreEntries ==
  ASSUME RuleInv, Plain, phase = "seams"
  PROVE  /\ ~NeedsTwoLabels
         /\ \A n \in Node, d \in Decision, l \in Labels :
              n \in Side(d, l) <=> exclusiveTo[n] = [decision |-> d, label |-> l]
<1>1. TypeInv /\ GateInv /\ Explained /\ SeedsGated /\ SeedsKept /\ PassesSettle
  BY DEF RuleInv, GateInv
<1>2. ASSUME NEW d \in Decision, NEW l \in Labels
      PROVE  \A n \in Side(d, l) : n \in Node /\ exclusiveTo[n] = [decision |-> d, label |-> l]
  <2> DEFINE e == [decision |-> d, label |-> l]
             T == {m \in Node : exclusiveTo[m] = e}
  <2>1. e # Free
    BY GraphAssumption DEF Exclusivity
  <2>2. Targets(d, l) \subseteq T
    BY <1>1 DEF SeedsGated, SeedsKept, Targets, Target, Places, Ex
  <2>3. \A n \in Node : \A r \in References(n) : r \in T => n \in T
    BY <1>1, <2>1 DEF PassesSettle, Settled
  <2>4. T \in SUBSET Node
    OBVIOUS
  <2> HIDE DEF T
  <2>5. Side(d, l) \subseteq T
    BY <2>2, <2>3, <2>4, DownstreamLeast DEF Side
  <2> QED
    BY <2>5 DEF T
<1>3. ASSUME NEW n \in Node, NEW d \in Decision, NEW l \in Labels,
             exclusiveTo[n] = [decision |-> d, label |-> l]
      PROVE  n \in Side(d, l)
  <2>1. exclusiveTo[n] # Free
    BY <1>3, GraphAssumption DEF Exclusivity
  <2>2. exclusiveTo[n].decision = d /\ exclusiveTo[n].label = l
    BY <1>3
  <2> QED
    BY <1>1, <2>1, <2>2, OnItsSide
<1>4. ~NeedsTwoLabels
  <2> SUFFICES ASSUME NEW d \in Decision, NEW k \in Labels, NEW l \in Labels, k # l,
                      NEW n \in Side(d, k), n \in Side(d, l)
               PROVE  FALSE
    BY DEF NeedsTwoLabels
  <2>1. [decision |-> d, label |-> k] = [decision |-> d, label |-> l]
    BY <1>2
  <2> QED
    BY <2>1
<1> QED
  BY <1>2, <1>3, <1>4

\* Two entries that conflict at a node name two labels that lead there.
LEMMA ConflictNeedsTwo ==
  ASSUME GateInv, phase = "passes", NEW n \in Node, Conflicts(n)
  PROVE  NeedsTwoLabels
<1>1. TypeInv /\ Explained
  BY DEF GateInv
<1>2. PICK i \in ExclusiveReferences(n) :
        /\ exclusiveTo[graph.refs[n][i]].decision = Found(n).decision
        /\ exclusiveTo[graph.refs[n][i]].label # Found(n).label
  BY DEF Conflicts
<1>3. PICK r \in References(n) : r \in Node /\ r = graph.refs[n][i] /\ exclusiveTo[r] # Free
  BY <1>1, Referenced
<1>4. PICK q \in References(n) : exclusiveTo[q] = Found(n) /\ exclusiveTo[q] # Free /\ q \in Node
  BY <1>1, <1>2, FoundThere, Referenced
<1>5. /\ exclusiveTo[q].decision \in Decision
      /\ exclusiveTo[r].label \in Labels /\ exclusiveTo[q].label \in Labels
      /\ n \in Side(exclusiveTo[r].decision, exclusiveTo[r].label)
      /\ n \in Side(exclusiveTo[q].decision, exclusiveTo[q].label)
  BY <1>1, <1>3, <1>4, OnItsSide, DownstreamClosed DEF Side
<1>6. /\ exclusiveTo[r].decision = exclusiveTo[q].decision
      /\ exclusiveTo[r].label # exclusiveTo[q].label
  BY <1>2, <1>3, <1>4
<1> QED
  BY <1>5, <1>6 DEF NeedsTwoLabels

LEMMA RuleStep == RuleInv /\ [Next]_vars => RuleInv'
<1> SUFFICES ASSUME RuleInv, [Next]_vars PROVE RuleInv'
  OBVIOUS
<1>1. graph' = graph /\ \A d, l : Side(d, l)' = Side(d, l)
  BY GraphKept, SameGraph
<1>2. Independent' = Independent /\ TargetsApart' = TargetsApart /\ NeedsTwoLabels' = NeedsTwoLabels
  BY GraphKept, SameGraph
<1>3. Plain' = Plain
  BY <1>2 DEF Plain
<1>4. GateInv'
  BY GateStep DEF RuleInv
<1>5. phase' # "done" => phase # "done"
  BY DEF Next, Return, Uninspectable, UnknownReference, CollectDependencies, BeginRound, Place,
    EndRound, UnmarkedCycle, Panic, EndOrder, UnknownTarget, SeedTarget, EndTargets, ConflictingFanIn,
    PassOver, Propagate, NextPass, EndPasses, SeamMismatch, Accept, vars
<1>6. Plain' /\ phase' # "done" => SeedsKept' /\ Traced' /\ PassesSettle'
  BY <1>3, <1>5, SeedsKeptStep, TracedStep, SettleStep
<1>7. phase # "done" => verdict \notin {"Checked", "ConflictingBranchFanIn"}
  BY VerdictAssumption DEF RuleInv, GateInv, TypeInv
<1>8. RuleImplemented'
  <2>1. CASE Accept
    <3>1. phase = "seams" /\ exclusiveTo' = exclusiveTo /\ verdict' = "Checked"
      BY <2>1 DEF Accept, Return, propagating
    <3>2. Plain => /\ ~NeedsTwoLabels
                   /\ \A n \in Node, d \in Decision, l \in Labels :
                        n \in Side(d, l) <=> exclusiveTo[n] = [decision |-> d, label |-> l]
      BY <3>1, SidesAreEntries
    <3>3. Independent /\ TargetsApart => Plain
      BY DEF Plain
    <3> QED
      BY <1>1, <1>2, <3>1, <3>2, <3>3 DEF RuleImplemented
  <2>2. CASE ConflictingFanIn
    <3>1. /\ phase = "passes" /\ cursor <= N /\ Conflicts(graph.declared[cursor])
          /\ verdict' = "ConflictingBranchFanIn"
      BY <2>2 DEF ConflictingFanIn, Return, RuleInv, GateInv, TypeInv, DeclaredOnce
    <3>2. NeedsTwoLabels
      BY <3>1, Turn, ConflictNeedsTwo DEF RuleInv, GateInv
    <3> QED
      BY <1>2, <3>1, <3>2 DEF RuleImplemented
  <2>3. CASE \/ Uninspectable \/ UnknownReference \/ UnmarkedCycle \/ UnknownTarget
             \/ SeamMismatch
    <3>1. verdict' \notin {"Checked", "ConflictingBranchFanIn"}
      BY <2>3 DEF Uninspectable, UnknownReference, UnmarkedCycle, UnknownTarget, SeamMismatch,
        Return
    <3> QED
      BY <3>1 DEF RuleImplemented
  <2>4. CASE \/ CollectDependencies \/ BeginRound \/ Place \/ EndRound \/ Panic \/ EndOrder
             \/ SeedTarget \/ EndTargets \/ PassOver \/ Propagate \/ NextPass \/ EndPasses
    <3>1. verdict' = verdict /\ phase # "done"
      BY <2>4 DEF CollectDependencies, BeginRound, Place, EndRound, Panic, EndOrder, SeedTarget,
        EndTargets, PassOver, Propagate, NextPass, EndPasses
    <3> QED
      BY <1>7, <3>1 DEF RuleImplemented
  <2>5. CASE UNCHANGED vars
    <3>1. exclusiveTo' = exclusiveTo /\ verdict' = verdict
      BY <2>5 DEF vars, propagating
    <3> QED
      BY <1>1, <1>2, <3>1 DEF RuleInv, RuleImplemented
  <2> QED
    BY <2>1, <2>2, <2>3, <2>4, <2>5 DEF Next
<1> QED
  BY <1>4, <1>6, <1>8 DEF RuleInv

LEMMA InitRule == Init => RuleInv
<1> SUFFICES ASSUME Init PROVE RuleInv
  OBVIOUS
<1>1. phase = "dependencies" /\ verdict = NoVerdict /\ \A n \in Node : exclusiveTo[n] = Free
  BY DEF Init
<1>2. RuleImplemented
  BY <1>1, VerdictAssumption DEF RuleImplemented
<1>3. SeedsKept /\ Traced /\ PassesSettle
  BY <1>1 DEF SeedsKept, Traced, PassesSettle
<1> QED
  BY <1>2, <1>3, InitGates DEF RuleInv

(***************************************************************************)
(* Where decisions do not meet and no target leads to another, check_graph *)
(* implements its rule: exclusive to a label is downstream of its target,  *)
(* and a graph is refused for a fan-in only when a node needs two labels.  *)
(***************************************************************************)
THEOREM RuleIsImplemented == Spec => []RuleImplemented
<1>1. RuleInv => RuleImplemented
  BY DEF RuleInv
<1> QED
  BY <1>1, InitRule, RuleStep, PTL DEF Spec

(***************************************************************************)
(* What check_graph answers of a graph's shape, its order included, is     *)
(* what the graph is, for every number of nodes, labels and branches.      *)
(***************************************************************************)
THEOREM ShapeJudged == Spec => []VerdictSound
<1>1. CycleInv /\ GateInv /\ RuleInv /\ OrderRespectsInputs => VerdictSound
  BY DEF CycleInv, GateInv, RuleInv, VerdictSound
<1>2. Init => CycleInv /\ GateInv /\ RuleInv
  BY InitCycles, InitGates, InitRule
<1>3. CycleInv /\ GateInv /\ RuleInv /\ [Next]_vars => CycleInv' /\ GateInv' /\ RuleInv'
  BY CycleStep, GateStep, RuleStep
<1> QED
  BY <1>1, <1>2, <1>3, OrderSound, PTL DEF Spec
-----------------------------------------------------------------------------
(***************************************************************************)
(* The seams.  Types and values are defined by levels, and what compares   *)
(* them by recursion on a type: each recursive function is first shown to  *)
(* satisfy its equation, by building it level by level; the rule for types *)
(* is then shown sound by induction on the level.                          *)
(***************************************************************************)

\* What zero has and each number hands on, all have.
LEMMA UpTo ==
  ASSUME NEW n \in Nat, NEW S, 0 \in S, \A d \in 1..n : d - 1 \in S => d \in S
  PROVE  0..n \subseteq S
<1> DEFINE T == {d \in 0..n : d \notin S}
<1> SUFFICES ASSUME T # {} PROVE FALSE
  OBVIOUS
<1>1. T \in SUBSET Nat
  OBVIOUS
<1>2. PICK i \in T : \A j \in T : i <= j
  <2> HIDE DEF T
  <2> QED
    BY <1>1, Least
<1>3. i \in 0..n /\ i \notin S /\ i # 0
  OBVIOUS
<1>4. i \in 1..n /\ i - 1 \in 0..n /\ ~(i <= i - 1)
  BY <1>3
<1>5. i - 1 \in S
  BY <1>2, <1>4
<1> QED
  BY <1>3, <1>4, <1>5

\* The types one level above S.
Above(S) == {ListOf(t) : t \in S} \cup {RecordOf(f) : f \in Partial(S)}
Simples == {Simple(k) : k \in Kinds}

\* Every level of types is made of the one below.
LEMMA TypesByLevel ==
  ASSUME TypesAssumption
  PROVE  TyTo = [d \in 0..Depth |-> Simples \cup IF d = 0 THEN {} ELSE Above(TyTo[d - 1])]
<1> DEFINE Body(f, d) == Simples \cup IF d = 0 THEN {} ELSE Above(f[d - 1])
           Has(n) == \E f : f = [d \in 0..n |-> Body(f, d)]
           S == {n \in 0..Depth : Has(n)}
<1>0. Depth \in Nat
  BY DEF TypesAssumption
<1>1. Has(0)
  <2> DEFINE f == [d \in 0..0 |-> Simples]
  <2>1. f = [d \in 0..0 |-> Body(f, d)]
    <3>1. \A d \in 0..0 : d = 0
      OBVIOUS
    <3> QED
      BY <3>1
  <2> QED
    BY <2>1, Zenon
<1>2. ASSUME NEW n \in 1..Depth, Has(n - 1) PROVE Has(n)
  <2>1. PICK f : f = [d \in 0..(n - 1) |-> Body(f, d)]
    BY <1>2
  <2> DEFINE g == [d \in 0..n |-> Body(f, d)]
  <2>2. \A d \in 0..(n - 1) : g[d] = f[d]
    <3> SUFFICES ASSUME NEW d \in 0..(n - 1) PROVE g[d] = f[d]
      OBVIOUS
    <3>1. f[d] = Body(f, d)
      <4> HIDE DEF Body
      <4> QED
        BY <2>1
    <3>2. d \in 0..n
      BY <1>0
    <3> HIDE DEF Body
    <3> QED
      BY <3>1, <3>2
  <2>3. \A d \in 0..n : Body(f, d) = Body(g, d)
    <3> SUFFICES ASSUME NEW d \in 0..n PROVE Body(f, d) = Body(g, d)
      OBVIOUS
    <3>1. CASE d = 0
      BY <3>1
    <3>2. CASE d # 0
      <4>1. d - 1 \in 0..(n - 1)
        BY <1>0, <3>2
      <4>2. g[d - 1] = f[d - 1]
        BY <2>2, <4>1
      <4> HIDE DEF g
      <4> QED
        BY <4>2
    <3> QED
      BY <3>1, <3>2
  <2>4. g = [d \in 0..n |-> Body(g, d)]
    <3> HIDE DEF Body
    <3> QED
      BY <2>3
  <2> HIDE DEF g
  <2> QED
    BY <2>4, Zenon
<1>3. Has(Depth)
  <2> HIDE DEF Has
  <2>1. 0 \in S /\ \A d \in 1..Depth : d - 1 \in S => d \in S
    <3>1. 0 \in 0..Depth /\ \A d \in 1..Depth : d \in 0..Depth
      BY <1>0
    <3> QED
      BY <1>1, <1>2, <3>1
  <2> HIDE DEF S
  <2>2. 0..Depth \subseteq S
    BY <1>0, <2>1, UpTo
  <2>3. Depth \in 0..Depth
    BY <1>0
  <2> QED
    BY <2>2, <2>3 DEF S
<1>4. TyTo = CHOOSE f : f = [d \in 0..Depth |-> Body(f, d)]
  BY DEF TyTo, Above, Simples
<1> HIDE DEF Body
<1> QED
  BY <1>3, <1>4, Zenon DEF Body

\* The members of Partial, and that it grows with what they map to.
LEMMA PartialMember ==
  ASSUME NEW S, NEW f
  PROVE  f \in Partial(S) <=> DOMAIN f \subseteq ToSet(Fields) /\ f \in [DOMAIN f -> S]
BY DEF Partial

LEMMA PartialGrows ==
  ASSUME NEW S, NEW T, S \subseteq T
  PROVE  Partial(S) \subseteq Partial(T)
<1> SUFFICES ASSUME NEW f \in Partial(S) PROVE f \in Partial(T)
  OBVIOUS
<1>1. DOMAIN f \subseteq ToSet(Fields) /\ f \in [DOMAIN f -> S]
  BY PartialMember
<1>2. f \in [DOMAIN f -> T]
  BY <1>1
<1> QED
  BY <1>1, <1>2, PartialMember

\* The levels of types one by one, each within the next.
LEMMA TypesGrow ==
  ASSUME TypesAssumption
  PROVE  /\ TyTo[0] = Simples
         /\ \A d \in 1..Depth : TyTo[d] = Simples \cup Above(TyTo[d - 1])
         /\ \A d \in 1..Depth : TyTo[d - 1] \subseteq TyTo[d]
<1>0. Depth \in Nat
  BY DEF TypesAssumption
<1>1. TyTo[0] = Simples
  <2>1. 0 \in 0..Depth
    BY <1>0
  <2> QED
    BY <2>1, TypesByLevel
<1>2. ASSUME NEW d \in 1..Depth PROVE TyTo[d] = Simples \cup Above(TyTo[d - 1])
  <2>1. d \in 0..Depth /\ d # 0
    BY <1>0
  <2> QED
    BY <2>1, TypesByLevel
<1> DEFINE S == {d \in 0..Depth : d # 0 => TyTo[d - 1] \subseteq TyTo[d]}
<1>3. ASSUME NEW d \in 1..Depth, d - 1 \in S PROVE TyTo[d - 1] \subseteq TyTo[d]
  <2>1. CASE d = 1
    BY <1>1, <1>2, <2>1
  <2>2. CASE d # 1
    <3>1. d - 1 \in 1..Depth
      BY <1>0, <2>2
    <3>2. TyTo[d - 1 - 1] \subseteq TyTo[d - 1]
      BY <1>3, <3>1
    <3>3. Above(TyTo[d - 1 - 1]) \subseteq Above(TyTo[d - 1])
      BY <3>2, PartialGrows DEF Above
    <3>4. TyTo[d - 1] = Simples \cup Above(TyTo[d - 1 - 1])
      BY <1>2, <3>1
    <3>5. TyTo[d] = Simples \cup Above(TyTo[d - 1])
      BY <1>2
    <3> QED
      BY <3>3, <3>4, <3>5
  <2> QED
    BY <2>1, <2>2
<1>4. 0..Depth \subseteq S
  <2>1. 0 \in S /\ \A d \in 1..Depth : d - 1 \in S => d \in S
    <3>1. 0 \in 0..Depth /\ \A d \in 1..Depth : d \in 0..Depth
      BY <1>0
    <3> QED
      BY <1>3, <3>1
  <2> HIDE DEF S
  <2> QED
    BY <1>0, <2>1, UpTo
<1>5. ASSUME NEW d \in 1..Depth PROVE TyTo[d - 1] \subseteq TyTo[d]
  <2>1. d \in 0..Depth /\ d # 0
    BY <1>0
  <2> QED
    BY <1>4, <2>1
<1> QED
  BY <1>1, <1>2, <1>5

\* What a type of some level is made of.
LEMMA TypeCases ==
  ASSUME TypesAssumption, NEW d \in 0..Depth, NEW t \in TyTo[d]
  PROVE  \/ t.kind \in SimpleKinds /\ t = Simple(t.kind)
         \/ d # 0 /\ t.kind = "list" /\ t.of \in TyTo[d - 1] /\ t = ListOf(t.of)
         \/ /\ d # 0 /\ t.kind = "record" /\ t.fields \in Partial(TyTo[d - 1])
            /\ t = RecordOf(t.fields)
<1>1. t \in Simples \/ (d # 0 /\ t \in Above(TyTo[d - 1]))
  <2>1. d = 0 \/ d \in 1..Depth
    BY DEF TypesAssumption
  <2> QED
    BY <2>1, TypesGrow
<1>2. CASE t \in Simples
  BY <1>2 DEF Simples, Simple, TypesAssumption
<1>3. CASE d # 0 /\ t \in {ListOf(s) : s \in TyTo[d - 1]}
  BY <1>3 DEF ListOf
<1>4. CASE d # 0 /\ t \in {RecordOf(f) : f \in Partial(TyTo[d - 1])}
  BY <1>4 DEF RecordOf
<1> QED
  BY <1>1, <1>2, <1>3, <1>4 DEF Above

\* One step of comparing two types, f telling of those below.
AssignBody(f, have, need) ==
  \/ need.kind = "json"
  \/ have.kind = "list" /\ need.kind = "list" /\ f[have.of][need.of]
  \/ /\ have.kind = "record" /\ need.kind = "record"
     /\ \A n \in DOMAIN need.fields :
          n \in DOMAIN have.fields /\ f[have.fields[n]][need.fields[n]]
  \/ have = need

\* The body only asks about a level below.
LEMMA AssignBodyBelow ==
  ASSUME TypesAssumption, NEW d \in 0..Depth, NEW have \in TyTo[d], NEW need \in TyTo[d],
         NEW f, NEW g,
         d # 0 => \A s, t \in TyTo[d - 1] : f[s][t] = g[s][t]
  PROVE  AssignBody(f, have, need) = AssignBody(g, have, need)
<1>1. CASE have.kind = "list" /\ need.kind = "list"
  <2>1. d # 0 /\ have.of \in TyTo[d - 1] /\ need.of \in TyTo[d - 1]
    BY <1>1, TypeCases DEF SimpleKinds, Unchecked
  <2>2. f[have.of][need.of] = g[have.of][need.of]
    BY <2>1
  <2> QED
    BY <1>1, <2>2 DEF AssignBody
<1>2. CASE have.kind = "record" /\ need.kind = "record"
  <2>1. d # 0 /\ have.fields \in Partial(TyTo[d - 1]) /\ need.fields \in Partial(TyTo[d - 1])
    BY <1>2, TypeCases DEF SimpleKinds, Unchecked
  <2>2. \A n \in DOMAIN need.fields : n \in DOMAIN have.fields =>
          f[have.fields[n]][need.fields[n]] = g[have.fields[n]][need.fields[n]]
    <3>1. \A n \in DOMAIN need.fields : need.fields[n] \in TyTo[d - 1]
      BY <2>1, PartialMember
    <3>2. \A n \in DOMAIN have.fields : have.fields[n] \in TyTo[d - 1]
      BY <2>1, PartialMember
    <3> QED
      BY <2>1, <3>1, <3>2
  <2> QED
    BY <1>2, <2>2 DEF AssignBody
<1>3. CASE ~(have.kind = "list" /\ need.kind = "list")
           /\ ~(have.kind = "record" /\ need.kind = "record")
  BY <1>3 DEF AssignBody
<1> QED
  BY <1>1, <1>2, <1>3

\* AssignableTo is what its definition says of it.
LEMMA AssignableEquation ==
  ASSUME TypesAssumption
  PROVE  AssignableTo = [have \in Ty |-> [need \in Ty |-> AssignBody(AssignableTo, have, need)]]
<1> DEFINE Table(f, d) == [have \in TyTo[d] |-> [need \in TyTo[d] |-> AssignBody(f, have, need)]]
           Has(d) == \E f : f = Table(f, d)
           S == {d \in 0..Depth : Has(d)}
<1>0. Depth \in Nat
  BY DEF TypesAssumption
<1>1. ASSUME NEW d \in 0..Depth, NEW f, d # 0 => f = Table(f, d - 1) PROVE Has(d)
  <2> DEFINE g == Table(f, d)
  <2>1. ASSUME d # 0, NEW s \in TyTo[d - 1], NEW t \in TyTo[d - 1] PROVE f[s][t] = g[s][t]
    <3>1. f[s][t] = AssignBody(f, s, t)
      <4>1. f = Table(f, d - 1)
        BY <1>1, <2>1
      <4> QED
        BY <2>1, <4>1
    <3>2. s \in TyTo[d] /\ t \in TyTo[d]
      BY <1>0, <2>1, TypesGrow
    <3> QED
      BY <3>1, <3>2
  <2> HIDE DEF g
  <2>2. ASSUME NEW have \in TyTo[d], NEW need \in TyTo[d]
        PROVE  AssignBody(f, have, need) = AssignBody(g, have, need)
    <3>1. d # 0 => \A s, t \in TyTo[d - 1] : f[s][t] = g[s][t]
      BY <2>1
    <3> HIDE DEF Table
    <3> QED
      BY <3>1, AssignBodyBelow, ZenonT(60)
  <2>3. Table(f, d) = Table(g, d)
    BY <2>2
  <2>4. g = Table(g, d)
    BY <2>3 DEF g
  <2> HIDE DEF Table
  <2> QED
    BY <2>4, Zenon
<1> HIDE DEF Table
<1>2. Has(0)
  BY <1>0, <1>1
<1>3. ASSUME NEW d \in 1..Depth, Has(d - 1) PROVE Has(d)
  <2>1. PICK f : f = Table(f, d - 1)
    BY <1>3
  <2>2. d \in 0..Depth
    BY <1>0
  <2> HIDE DEF Has
  <2> QED
    BY <1>1, <2>1, <2>2
<1> HIDE DEF Has
<1>4. Has(Depth)
  <2>1. 0 \in S /\ \A d \in 1..Depth : d - 1 \in S => d \in S
    <3>1. 0 \in 0..Depth /\ \A d \in 1..Depth : d \in 0..Depth
      BY <1>0
    <3> QED
      BY <1>2, <1>3, <3>1
  <2> HIDE DEF S
  <2>2. 0..Depth \subseteq S
    BY <1>0, <2>1, UpTo
  <2>3. Depth \in 0..Depth
    BY <1>0
  <2> QED
    BY <2>2, <2>3 DEF S
<1>5. AssignableTo = CHOOSE f : f = Table(f, Depth)
  BY DEF AssignableTo, AssignBody, Table, Ty
<1>6. AssignableTo = Table(AssignableTo, Depth)
  BY <1>4, <1>5, Zenon DEF Has
<1> QED
  BY <1>6 DEF Table, Ty

-----------------------------------------------------------------------------
\* The values one level above S.
AboveValues(S) ==
  [json : {"array"}, items : UNION {[1..n -> S] : n \in 0..Width}]
    \cup [json : {"object"}, fields : Partial(S)]

\* Every level of values is made of the one below.
LEMMA ValuesByLevel ==
  ASSUME TypesAssumption
  PROVE  ValueTo =
           [d \in 0..Depth |->
              [json : Scalars] \cup IF d = 0 THEN {} ELSE AboveValues(ValueTo[d - 1])]
<1> DEFINE Body(f, d) == [json : Scalars] \cup IF d = 0 THEN {} ELSE AboveValues(f[d - 1])
           Has(n) == \E f : f = [d \in 0..n |-> Body(f, d)]
           S == {n \in 0..Depth : Has(n)}
<1>0. Depth \in Nat
  BY DEF TypesAssumption
<1>1. Has(0)
  <2> DEFINE f == [d \in 0..0 |-> [json : Scalars]]
  <2>1. f = [d \in 0..0 |-> Body(f, d)]
    <3>1. \A d \in 0..0 : d = 0
      OBVIOUS
    <3> QED
      BY <3>1
  <2> QED
    BY <2>1, Zenon
<1>2. ASSUME NEW n \in 1..Depth, Has(n - 1) PROVE Has(n)
  <2>1. PICK f : f = [d \in 0..(n - 1) |-> Body(f, d)]
    BY <1>2
  <2> DEFINE g == [d \in 0..n |-> Body(f, d)]
  <2>2. \A d \in 0..(n - 1) : g[d] = f[d]
    <3> SUFFICES ASSUME NEW d \in 0..(n - 1) PROVE g[d] = f[d]
      OBVIOUS
    <3>1. f[d] = Body(f, d)
      <4> HIDE DEF Body
      <4> QED
        BY <2>1
    <3>2. d \in 0..n
      BY <1>0
    <3> HIDE DEF Body
    <3> QED
      BY <3>1, <3>2
  <2>3. \A d \in 0..n : Body(f, d) = Body(g, d)
    <3> SUFFICES ASSUME NEW d \in 0..n PROVE Body(f, d) = Body(g, d)
      OBVIOUS
    <3>1. CASE d = 0
      BY <3>1
    <3>2. CASE d # 0
      <4>1. d - 1 \in 0..(n - 1)
        BY <1>0, <3>2
      <4>2. g[d - 1] = f[d - 1]
        BY <2>2, <4>1
      <4> HIDE DEF g
      <4> QED
        BY <4>2
    <3> QED
      BY <3>1, <3>2
  <2>4. g = [d \in 0..n |-> Body(g, d)]
    <3> HIDE DEF Body
    <3> QED
      BY <2>3
  <2> HIDE DEF g
  <2> QED
    BY <2>4, Zenon
<1>3. Has(Depth)
  <2> HIDE DEF Has
  <2>1. 0 \in S /\ \A d \in 1..Depth : d - 1 \in S => d \in S
    <3>1. 0 \in 0..Depth /\ \A d \in 1..Depth : d \in 0..Depth
      BY <1>0
    <3> QED
      BY <1>1, <1>2, <3>1
  <2> HIDE DEF S
  <2>2. 0..Depth \subseteq S
    BY <1>0, <2>1, UpTo
  <2>3. Depth \in 0..Depth
    BY <1>0
  <2> QED
    BY <2>2, <2>3 DEF S
<1>4. ValueTo = CHOOSE f : f = [d \in 0..Depth |-> Body(f, d)]
  BY DEF ValueTo, AboveValues
<1> HIDE DEF Body
<1> QED
  BY <1>3, <1>4, Zenon DEF Body

\* The levels of values one by one, each within the next.
LEMMA ValuesGrow ==
  ASSUME TypesAssumption
  PROVE  /\ ValueTo[0] = [json : Scalars]
         /\ \A d \in 1..Depth : ValueTo[d] = [json : Scalars] \cup AboveValues(ValueTo[d - 1])
         /\ \A d \in 1..Depth : ValueTo[d - 1] \subseteq ValueTo[d]
<1>0. Depth \in Nat
  BY DEF TypesAssumption
<1>1. ValueTo[0] = [json : Scalars]
  <2>1. 0 \in 0..Depth
    BY <1>0
  <2> QED
    BY <2>1, ValuesByLevel
<1>2. ASSUME NEW d \in 1..Depth PROVE ValueTo[d] = [json : Scalars] \cup AboveValues(ValueTo[d - 1])
  <2>1. d \in 0..Depth /\ d # 0
    BY <1>0
  <2> QED
    BY <2>1, ValuesByLevel
<1> DEFINE S == {d \in 0..Depth : d # 0 => ValueTo[d - 1] \subseteq ValueTo[d]}
<1>3. ASSUME NEW d \in 1..Depth, d - 1 \in S PROVE ValueTo[d - 1] \subseteq ValueTo[d]
  <2>1. CASE d = 1
    <3>1. d - 1 = 0 /\ ValueTo[d] = [json : Scalars] \cup AboveValues(ValueTo[d - 1])
      BY <1>2, <2>1
    <3> QED
      BY <1>1, <3>1, Zenon
  <2>2. CASE d # 1
    <3>1. d - 1 \in 1..Depth
      BY <1>0, <2>2
    <3>2. ValueTo[d - 1 - 1] \subseteq ValueTo[d - 1]
      BY <1>3, <3>1
    <3>3. AboveValues(ValueTo[d - 1 - 1]) \subseteq AboveValues(ValueTo[d - 1])
      <4> DEFINE A == ValueTo[d - 1 - 1]
                 B == ValueTo[d - 1]
      <4>1. A \subseteq B
        BY <3>2
      <4> HIDE DEF A, B
      <4>2. Partial(A) \subseteq Partial(B)
        BY <4>1, PartialGrows
      <4>3. UNION {[1..n -> A] : n \in 0..Width} \subseteq UNION {[1..n -> B] : n \in 0..Width}
        BY <4>1
      <4>4. AboveValues(A) \subseteq AboveValues(B)
        BY <4>2, <4>3 DEF AboveValues
      <4> QED
        BY <4>4 DEF A, B
    <3>4. ValueTo[d - 1] = [json : Scalars] \cup AboveValues(ValueTo[d - 1 - 1])
      BY <1>2, <3>1
    <3>5. ValueTo[d] = [json : Scalars] \cup AboveValues(ValueTo[d - 1])
      BY <1>2
    <3> QED
      BY <3>3, <3>4, <3>5
  <2> QED
    BY <2>1, <2>2
<1>4. 0..Depth \subseteq S
  <2>1. 0 \in S /\ \A d \in 1..Depth : d - 1 \in S => d \in S
    <3>1. 0 \in 0..Depth /\ \A d \in 1..Depth : d \in 0..Depth
      BY <1>0
    <3> QED
      BY <1>3, <3>1
  <2> HIDE DEF S
  <2> QED
    BY <1>0, <2>1, UpTo
<1>5. ASSUME NEW d \in 1..Depth PROVE ValueTo[d - 1] \subseteq ValueTo[d]
  <2>1. d \in 0..Depth /\ d # 0
    BY <1>0
  <2> QED
    BY <1>4, <2>1
<1> QED
  BY <1>1, <1>2, <1>5

\* What is in a value is a value.
LEMMA ValueParts ==
  ASSUME TypesAssumption, NEW v \in Values
  PROVE  /\ v.json = "array" => \A i \in DOMAIN v.items : v.items[i] \in Values
         /\ v.json = "object" => \A n \in DOMAIN v.fields : v.fields[n] \in Values
<1>0. Depth \in Nat
  BY DEF TypesAssumption
<1>1. CASE Depth = 0
  <2>1. v \in [json : Scalars]
    BY <1>1, ValuesGrow DEF Values
  <2> QED
    BY <2>1 DEF TypesAssumption
<1>2. CASE Depth # 0
  <2>1. Depth \in 1..Depth
    BY <1>0, <1>2
  <2>2. v \in [json : Scalars] \cup AboveValues(ValueTo[Depth - 1])
    BY <2>1, ValuesGrow DEF Values
  <2>3. ValueTo[Depth - 1] \subseteq Values
    BY <2>1, ValuesGrow DEF Values
  <2>4. CASE v \in [json : Scalars]
    BY <2>4 DEF TypesAssumption
  <2>5. CASE v \in [json : {"array"}, items : UNION {[1..n -> ValueTo[Depth - 1]] : n \in 0..Width}]
    BY <2>3, <2>5
  <2>6. CASE v \in [json : {"object"}, fields : Partial(ValueTo[Depth - 1])]
    <3>1. v.fields \in Partial(ValueTo[Depth - 1]) /\ v.json = "object"
      BY <2>6
    <3>2. \A n \in DOMAIN v.fields : v.fields[n] \in ValueTo[Depth - 1]
      BY <3>1, PartialMember
    <3> QED
      BY <2>3, <3>1, <3>2
  <2> QED
    BY <2>2, <2>4, <2>5, <2>6 DEF AboveValues
<1> QED
  BY <1>1, <1>2

\* One step of matching a value, f telling of the types below.
MatchBody(f, t, v) ==
  \/ t.kind \in Unchecked
  \/ t.kind = "text" /\ v.json = "string"
  \/ t.kind = "number" /\ v.json = "number"
  \/ t.kind = "bool" /\ v.json = "boolean"
  \/ /\ t.kind = "list" /\ v.json = "array"
     /\ \A i \in DOMAIN v.items : f[t.of][v.items[i]]
  \/ /\ t.kind = "record" /\ v.json = "object"
     /\ \A n \in DOMAIN t.fields : n \in DOMAIN v.fields /\ f[t.fields[n]][v.fields[n]]

\* It only asks about a level below.
LEMMA MatchBodyBelow ==
  ASSUME TypesAssumption, NEW d \in 0..Depth, NEW t \in TyTo[d], NEW v \in Values,
         NEW f, NEW g,
         d # 0 => \A s \in TyTo[d - 1], w \in Values : f[s][w] = g[s][w]
  PROVE  MatchBody(f, t, v) = MatchBody(g, t, v)
<1>1. CASE t.kind = "list"
  <2>1. d # 0 /\ t.of \in TyTo[d - 1]
    BY <1>1, TypeCases DEF SimpleKinds, Unchecked
  <2>2. v.json = "array" => \A i \in DOMAIN v.items : f[t.of][v.items[i]] = g[t.of][v.items[i]]
    BY <2>1, ValueParts
  <2> QED
    BY <1>1, <2>2 DEF MatchBody, Unchecked
<1>2. CASE t.kind = "record"
  <2>1. d # 0 /\ t.fields \in Partial(TyTo[d - 1])
    BY <1>2, TypeCases DEF SimpleKinds, Unchecked
  <2>2. \A n \in DOMAIN t.fields : t.fields[n] \in TyTo[d - 1]
    BY <2>1, PartialMember
  <2>3. v.json = "object" =>
          \A n \in DOMAIN t.fields : n \in DOMAIN v.fields =>
            f[t.fields[n]][v.fields[n]] = g[t.fields[n]][v.fields[n]]
    BY <2>1, <2>2, ValueParts
  <2> QED
    BY <1>2, <2>3 DEF MatchBody, Unchecked
<1>3. CASE t.kind \in SimpleKinds
  BY <1>3 DEF MatchBody, SimpleKinds, Unchecked
<1> QED
  BY <1>1, <1>2, <1>3, TypeCases

\* MatchesValue is what its definition says of it.
LEMMA MatchesEquation ==
  ASSUME TypesAssumption
  PROVE  MatchesValue = [t \in Ty |-> [v \in Values |-> MatchBody(MatchesValue, t, v)]]
<1> DEFINE Table(f, d) == [t \in TyTo[d] |-> [v \in Values |-> MatchBody(f, t, v)]]
           Has(d) == \E f : f = Table(f, d)
           S == {d \in 0..Depth : Has(d)}
<1>0. Depth \in Nat
  BY DEF TypesAssumption
<1>1. ASSUME NEW d \in 0..Depth, NEW f, d # 0 => f = Table(f, d - 1) PROVE Has(d)
  <2> DEFINE g == Table(f, d)
  <2>1. ASSUME d # 0, NEW s \in TyTo[d - 1], NEW v \in Values PROVE f[s][v] = g[s][v]
    <3>1. f[s][v] = MatchBody(f, s, v)
      <4>1. f = Table(f, d - 1)
        BY <1>1, <2>1
      <4> QED
        BY <2>1, <4>1
    <3>2. s \in TyTo[d]
      BY <1>0, <2>1, TypesGrow
    <3> QED
      BY <3>1, <3>2
  <2> HIDE DEF g
  <2>2. ASSUME NEW t \in TyTo[d], NEW v \in Values
        PROVE  MatchBody(f, t, v) = MatchBody(g, t, v)
    <3>1. d # 0 => \A s \in TyTo[d - 1], w \in Values : f[s][w] = g[s][w]
      BY <2>1
    <3> HIDE DEF Table
    <3> QED
      BY <3>1, MatchBodyBelow, ZenonT(60)
  <2>3. Table(f, d) = Table(g, d)
    BY <2>2
  <2>4. g = Table(g, d)
    BY <2>3 DEF g
  <2> HIDE DEF Table
  <2> QED
    BY <2>4, Zenon
<1> HIDE DEF Table
<1>2. Has(0)
  BY <1>0, <1>1
<1>3. ASSUME NEW d \in 1..Depth, Has(d - 1) PROVE Has(d)
  <2>1. PICK f : f = Table(f, d - 1)
    BY <1>3
  <2>2. d \in 0..Depth
    BY <1>0
  <2> HIDE DEF Has
  <2> QED
    BY <1>1, <2>1, <2>2
<1> HIDE DEF Has
<1>4. Has(Depth)
  <2>1. 0 \in S /\ \A d \in 1..Depth : d - 1 \in S => d \in S
    <3>1. 0 \in 0..Depth /\ \A d \in 1..Depth : d \in 0..Depth
      BY <1>0
    <3> QED
      BY <1>2, <1>3, <3>1
  <2> HIDE DEF S
  <2>2. 0..Depth \subseteq S
    BY <1>0, <2>1, UpTo
  <2>3. Depth \in 0..Depth
    BY <1>0
  <2> QED
    BY <2>2, <2>3 DEF S
<1>5. MatchesValue = CHOOSE f : f = Table(f, Depth)
  BY DEF MatchesValue, MatchBody, Table, Ty
<1>6. MatchesValue = Table(MatchesValue, Depth)
  BY <1>4, <1>5, Zenon DEF Has
<1> QED
  BY <1>6 DEF Table, Ty

\* Types of any level are types.
LEMMA LevelsAreTypes ==
  ASSUME TypesAssumption
  PROVE  \A d \in 0..Depth : TyTo[d] \subseteq Ty
<1> DEFINE S == {e \in 0..Depth : TyTo[Depth - e] \subseteq Ty}
<1>0. Depth \in Nat
  BY DEF TypesAssumption
<1>1. 0 \in S
  BY <1>0 DEF Ty
<1>2. ASSUME NEW e \in 1..Depth, e - 1 \in S PROVE e \in S
  <2>1. Depth - (e - 1) \in 1..Depth /\ Depth - (e - 1) - 1 = Depth - e /\ e \in 0..Depth
    BY <1>0
  <2>2. TyTo[Depth - (e - 1)] \subseteq Ty
    BY <1>2
  <2>3. TyTo[Depth - (e - 1) - 1] \subseteq TyTo[Depth - (e - 1)]
    BY <2>1, TypesGrow
  <2> QED
    BY <2>1, <2>2, <2>3
<1>3. 0..Depth \subseteq S
  <2> HIDE DEF S
  <2> QED
    BY <1>0, <1>1, <1>2, UpTo
<1>4. ASSUME NEW d \in 0..Depth PROVE TyTo[d] \subseteq Ty
  <2>1. Depth - d \in 0..Depth /\ Depth - (Depth - d) = d
    BY <1>0
  <2> QED
    BY <1>3, <2>1
<1> QED
  BY <1>4

\* Both at two types, and at a type and a value.
LEMMA Assignable ==
  ASSUME TypesAssumption, NEW have \in Ty, NEW need \in Ty
  PROVE  AssignableTo[have][need] <=> AssignBody(AssignableTo, have, need)
<1> DEFINE f == AssignableTo
<1>1. f = [h \in Ty |-> [n \in Ty |-> AssignBody(f, h, n)]]
  BY AssignableEquation
<1> HIDE DEF f
<1>2. f[have][need] = AssignBody(f, have, need)
  BY <1>1
<1> QED
  BY <1>2 DEF f

LEMMA Matches ==
  ASSUME TypesAssumption, NEW t \in Ty, NEW v \in Values
  PROVE  MatchesValue[t][v] = MatchBody(MatchesValue, t, v)
<1> DEFINE f == MatchesValue
<1>1. f = [s \in Ty |-> [w \in Values |-> MatchBody(f, s, w)]]
  BY MatchesEquation
<1> HIDE DEF f
<1>2. f[t][v] = MatchBody(f, t, v)
  BY <1>1
<1> QED
  BY <1>2 DEF f

(***************************************************************************)
(* Whatever is of a type that may go where another is required is of the   *)
(* other too: assignable_to, which the graph checker decides by, agrees    *)
(* with matches_value, which the host checks by as the job runs.           *)
(***************************************************************************)
THEOREM AssignableIsSound ==
  ASSUME TypesAssumption, NEW have \in Ty, NEW need \in Ty, NEW v \in Values,
         AssignableTo[have][need], MatchesValue[have][v]
  PROVE  MatchesValue[need][v]
<1> DEFINE Sound(h, n) == \A w \in Values :
             AssignableTo[h][n] /\ MatchesValue[h][w] => MatchesValue[n][w]
           S == {d \in 0..Depth : \A h, n \in TyTo[d] : Sound(h, n)}
<1>0. Depth \in Nat
  BY DEF TypesAssumption
<1>1. ASSUME NEW d \in 0..Depth, d # 0 => d - 1 \in S PROVE d \in S
  <2> SUFFICES ASSUME NEW h \in TyTo[d], NEW n \in TyTo[d], NEW w \in Values,
                      AssignableTo[h][n], MatchesValue[h][w]
               PROVE  MatchesValue[n][w]
    OBVIOUS
  <2>1. h \in Ty /\ n \in Ty
    BY LevelsAreTypes
  <2>2. MatchBody(MatchesValue, h, w)
    BY <2>1, Matches
  <2>3. SUFFICES MatchBody(MatchesValue, n, w)
    BY <2>1, Matches
  <2>4. AssignBody(AssignableTo, h, n)
    BY <2>1, Assignable
  <2>5. CASE n.kind = "json"
    BY <2>5 DEF MatchBody, Unchecked
  <2>6. CASE h = n
    BY <2>2, <2>6
  <2>7. CASE h.kind = "list" /\ n.kind = "list" /\ AssignableTo[h.of][n.of]
    <3>1. d # 0 /\ h.of \in TyTo[d - 1] /\ n.of \in TyTo[d - 1]
      BY <2>7, TypeCases DEF SimpleKinds, Unchecked
    <3>2. Sound(h.of, n.of)
      BY <1>1, <3>1
    <3>3. w.json = "array" /\ \A i \in DOMAIN w.items : MatchesValue[h.of][w.items[i]]
      BY <2>2, <2>7 DEF MatchBody, Unchecked
    <3>4. \A i \in DOMAIN w.items : MatchesValue[n.of][w.items[i]]
      BY <2>7, <3>2, <3>3, ValueParts
    <3> QED
      BY <2>7, <3>3, <3>4 DEF MatchBody, Unchecked
  <2>8. CASE /\ h.kind = "record" /\ n.kind = "record"
             /\ \A k \in DOMAIN n.fields :
                  k \in DOMAIN h.fields /\ AssignableTo[h.fields[k]][n.fields[k]]
    <3>1. d # 0 /\ h.fields \in Partial(TyTo[d - 1]) /\ n.fields \in Partial(TyTo[d - 1])
      BY <2>8, TypeCases DEF SimpleKinds, Unchecked
    <3>2. /\ w.json = "object"
          /\ \A k \in DOMAIN h.fields :
                k \in DOMAIN w.fields /\ MatchesValue[h.fields[k]][w.fields[k]]
      BY <2>2, <2>8 DEF MatchBody, Unchecked
    <3>3. ASSUME NEW k \in DOMAIN n.fields
          PROVE  k \in DOMAIN w.fields /\ MatchesValue[n.fields[k]][w.fields[k]]
      <4>1. k \in DOMAIN h.fields /\ AssignableTo[h.fields[k]][n.fields[k]]
        BY <2>8
      <4>2. h.fields[k] \in TyTo[d - 1] /\ n.fields[k] \in TyTo[d - 1]
        BY <3>1, <4>1, PartialMember
      <4>3. Sound(h.fields[k], n.fields[k])
        BY <1>1, <3>1, <4>2
      <4>4. w.fields[k] \in Values
        BY <3>2, <4>1, ValueParts
      <4> QED
        BY <3>2, <4>1, <4>3, <4>4
    <3> QED
      BY <2>8, <3>2, <3>3 DEF MatchBody, Unchecked
  <2> QED
    BY <2>4, <2>5, <2>6, <2>7, <2>8 DEF AssignBody
<1>2. 0 \in S /\ \A d \in 1..Depth : d - 1 \in S => d \in S
  <2>1. 0 \in 0..Depth /\ \A d \in 1..Depth : d \in 0..Depth
    BY <1>0
  <2> QED
    BY <1>1, <2>1
<1>3. Depth \in S
  <2> HIDE DEF S
  <2>1. 0..Depth \subseteq S
    BY <1>0, <1>2, UpTo
  <2> QED
    BY <1>0, <2>1
<1> QED
  BY <1>3 DEF Ty

-----------------------------------------------------------------------------
(***************************************************************************)
(* What has been checked of the graph so far.  All of it is about the      *)
(* graph alone, which no step changes.                                     *)
(***************************************************************************)
SeamInv ==
  /\ TypeInv
  /\ phase \notin {"dependencies", "done"} => \A n \in Node : Readable(n)
  /\ verdict = "Checked" =>
       Mismatched = {} /\ \A n \in Node : Readable(n) /\ References(n) \subseteq Node

\* What each definition says of the graph alone.
LEMMA SameSeams ==
  ASSUME graph' = graph
  PROVE  /\ Mismatched' = Mismatched
         /\ \A n : Readable(n)' = Readable(n) /\ References(n)' = References(n)
<1>1. \A n : Readable(n)' = Readable(n) /\ References(n)' = References(n)
  BY DEF Readable, References
<1>2. \A n : ReadSignature(n)' = ReadSignature(n)
  BY DEF ReadSignature
<1>3. \A n : OutputTy(n)' = OutputTy(n)
  BY <1>2 DEF OutputTy
<1>4. \A n : EvaluateExprTy(n)' = EvaluateExprTy(n) /\ HasInput(n)' = HasInput(n)
  BY <1>3 DEF EvaluateExprTy, HasInput
<1> QED
  BY <1>1, <1>2, <1>4 DEF Mismatched

\* It holds at the start, and every step keeps it.
LEMMA InitSeams == Init => SeamInv
<1> SUFFICES ASSUME Init PROVE SeamInv
  OBVIOUS
<1>1. phase = "dependencies" /\ verdict = NoVerdict
  BY DEF Init
<1> QED
  BY <1>1, InitTypes, VerdictAssumption DEF SeamInv

LEMMA SeamStep == SeamInv /\ [Next]_vars => SeamInv'
<1> SUFFICES ASSUME SeamInv, [Next]_vars PROVE SeamInv'
  OBVIOUS
<1>1. TypeInv'
  BY TypeStep DEF SeamInv
<1>2. /\ Mismatched' = Mismatched
      /\ \A n : Readable(n)' = Readable(n) /\ References(n)' = References(n)
  BY GraphKept, SameSeams
<1>3. CASE CollectDependencies
  <2>1. phase' = "rounds" /\ verdict' = verdict /\ verdict = NoVerdict
        /\ \A n \in Node : Readable(n)
    BY <1>3 DEF CollectDependencies, SeamInv, TypeInv
  <2> QED
    BY <1>1, <1>2, <2>1, VerdictAssumption DEF SeamInv
<1>4. CASE Uninspectable \/ UnknownReference \/ UnmarkedCycle \/ UnknownTarget
           \/ ConflictingFanIn \/ SeamMismatch
  <2>1. phase' = "done" /\ verdict' # "Checked"
    BY <1>4 DEF Uninspectable, UnknownReference, UnmarkedCycle, UnknownTarget,
      ConflictingFanIn, SeamMismatch, Return
  <2> QED
    BY <1>1, <2>1 DEF SeamInv
<1>5. CASE Accept
  <2>1. phase = "seams" /\ Mismatched = {} /\ phase' = "done"
    BY <1>5 DEF Accept, Return
  <2>2. \A n \in Node : Readable(n) /\ References(n) \subseteq Node
    BY <2>1 DEF SeamInv, TypeInv, Known
  <2> QED
    BY <1>1, <1>2, <2>1, <2>2 DEF SeamInv
<1>6. CASE BeginRound \/ Place \/ EndRound \/ Panic \/ EndOrder \/ SeedTarget
           \/ EndTargets \/ PassOver \/ Propagate \/ NextPass \/ EndPasses
  <2>1. phase \notin {"dependencies", "done"} /\ verdict' = verdict
    BY <1>6 DEF BeginRound, Place, EndRound, Panic, EndOrder, SeedTarget, EndTargets,
      PassOver, Propagate, NextPass, EndPasses
  <2>2. verdict' = NoVerdict
    BY <2>1 DEF SeamInv, TypeInv
  <2> QED
    BY <1>1, <1>2, <2>1, <2>2, VerdictAssumption DEF SeamInv
<1>7. CASE UNCHANGED vars
  BY <1>1, <1>2, <1>7 DEF vars, SeamInv
<1> QED
  BY <1>3, <1>4, <1>5, <1>6, <1>7 DEF Next

\* A checked node's signature is the declared one, and its parts are types.
LEMMA DeclaredTypes ==
  ASSUME SignaturesRead, SeamInv, NEW n \in Node, Readable(n)
  PROVE  /\ ReadSignature(n) = Declared(n) /\ Declared(n).input \in Ty
         /\ OutputTy(n) = Promised(n) /\ Promised(n) \in TyTo[Depth - 1]
<1> DEFINE b == graph.block[n]
<1>1. b \in DOMAIN Declares /\ Declares[b] # NotATy /\ Declares[b] \in Signature \cup {Undeclared}
  <2>1. graph.block[n] \in DOMAIN Declares
    BY SignatureAssumption DEF SeamInv, TypeInv
  <2> QED
    BY <2>1, SignatureAssumption DEF Readable
<1>2. ReadSignature(n) = Declared(n)
  <2>1. ReadSignature(n) = IF Declares[b] = Undeclared THEN Permissive
                           ELSE ParseSignature(DescribeSignature(Declares[b]))
    BY <1>1 DEF ReadSignature, ReadSignatures
  <2>2. Declares[b] # Undeclared => ParseSignature(DescribeSignature(Declares[b])) = Declares[b]
    BY <1>1 DEF SignaturesRead
  <2> QED
    BY <2>1, <2>2 DEF Declared
<1>3. Depth \in 1..Depth /\ Depth \in Nat /\ Ty = TyTo[Depth]
  BY BoundsAssumption, TypesAssumption DEF Ty
<1>4. TyTo[Depth - 1] \subseteq Ty
  BY <1>3, TypesAssumption, TypesGrow
<1>5. CASE Declares[b] = Undeclared
  <2>1. Declared(n) = Permissive /\ Permissive.output \in TyTo[Depth - 1]
    BY <1>5, BoundsAssumption DEF Declared
  <2>2. Permissive.input = Permissive.output
    BY DEF Permissive
  <2>3. Promised(n) \in TyTo[Depth - 1]
    BY <2>1, BoundsAssumption DEF Promised
  <2> QED
    BY <1>2, <1>4, <2>1, <2>2, <2>3 DEF OutputTy, Promised
<1>6. CASE Declares[b] # Undeclared
  <2>1. Declared(n) = Declares[b] /\ Declares[b] \in Signature
    BY <1>1, <1>6 DEF Declared
  <2>2. Declares[b].output \in TyTo[Depth - 1] /\ Declares[b].input \in Ty
    BY <1>1, <2>1, BoundsAssumption DEF Signature
  <2>3. Promised(n) \in TyTo[Depth - 1]
    BY <2>1, <2>2, BoundsAssumption DEF Promised
  <2> QED
    BY <1>2, <2>1, <2>2, <2>3 DEF OutputTy, Promised
<1> QED
  BY <1>5, <1>6

\* There is room for a list or a record of what nodes hand on.
LEMMA RoomAbove ==
  /\ Above(TyTo[Depth - 1]) \subseteq Ty /\ TyTo[Depth - 1] \subseteq Ty
  /\ AboveValues(Small) \subseteq Values /\ Small \subseteq Values
<1>1. Depth \in 1..Depth /\ Depth # 0
  BY BoundsAssumption, TypesAssumption
<1>2. Small = ValueTo[Depth - 1]
  BY <1>1 DEF Small
<1> QED
  BY <1>1, <1>2, TypesAssumption, TypesGrow, ValuesGrow DEF Ty, Values

\* A record composed of values of types is of the record of the types.
LEMMA RecordMatches ==
  ASSUME NEW n \in Nat, n <= Len(Fields), NEW types, DOMAIN types = 1..n,
         \A i \in 1..n : types[i] \in TyTo[Depth - 1],
         NEW outs \in [1..n -> Small], \A i \in 1..n : MatchesValue[types[i]][outs[i]]
  PROVE  /\ RecordOf(Record(types)) \in Ty
         /\ [json |-> "object", fields |-> Record(outs)] \in Values
         /\ MatchesValue[RecordOf(Record(types))][[json |-> "object", fields |-> Record(outs)]]
<1> DEFINE names(S) == {Fields[i] : i \in S}
           place(S, f) == CHOOSE i \in S : Fields[i] = f
           D == names(1..n)
<1>1. D \subseteq ToSet(Fields)
  BY TypesAssumption DEF ToSet
<1>2. \A f \in D : place(1..n, f) \in 1..n
  OBVIOUS
<1>3. \A s : Record(s) = [f \in names(DOMAIN s) |-> s[place(DOMAIN s, f)]]
  BY DEF Record
<1>4. DOMAIN outs = 1..n
  OBVIOUS
<1> HIDE DEF names, place
<1>5. /\ Record(types) = [f \in D |-> types[place(1..n, f)]]
      /\ Record(outs) = [f \in D |-> outs[place(1..n, f)]]
  BY <1>3, <1>4, Zenon
<1> HIDE DEF D
<1>6. Record(types) \in [D -> TyTo[Depth - 1]] /\ Record(outs) \in [D -> Small]
  BY <1>2, <1>5
<1>7. Record(types) \in Partial(TyTo[Depth - 1]) /\ Record(outs) \in Partial(Small)
  BY <1>1, <1>6 DEF Partial
<1>8. RecordOf(Record(types)) \in Ty
  BY <1>7, RoomAbove DEF Above
<1>9. [json |-> "object", fields |-> Record(outs)] \in Values
  BY <1>7, RoomAbove DEF AboveValues
<1> DEFINE t == RecordOf(Record(types))
           v == [json |-> "object", fields |-> Record(outs)]
<1>10. t.kind = "record" /\ t.fields = Record(types) /\ v.json = "object" /\ v.fields = Record(outs)
  BY DEF RecordOf
<1>11. t \in Ty /\ v \in Values
  BY <1>8, <1>9
<1> HIDE DEF t, v
<1>12. \A f \in DOMAIN t.fields : f \in DOMAIN v.fields /\ MatchesValue[t.fields[f]][v.fields[f]]
  BY <1>2, <1>5, <1>10
<1>13. MatchBody(MatchesValue, t, v)
  BY <1>10, <1>12 DEF MatchBody
<1>14. MatchesValue[t][v]
  BY <1>11, <1>13, Matches, TypesAssumption
<1> QED
  BY <1>11, <1>14 DEF t, v

\* A list of values of a type is of the list type.
LEMMA ListMatches ==
  ASSUME NEW n \in 0..Width, NEW type \in TyTo[Depth - 1],
         NEW outs \in [1..n -> Small], \A i \in 1..n : MatchesValue[type][outs[i]]
  PROVE  /\ ListOf(type) \in Ty
         /\ [json |-> "array", items |-> outs] \in Values
         /\ MatchesValue[ListOf(type)][[json |-> "array", items |-> outs]]
<1> DEFINE t == ListOf(type)
           v == [json |-> "array", items |-> outs]
<1>1. t \in Ty
  BY RoomAbove DEF Above
<1>2. v \in Values
  <2>1. outs \in UNION {[1..k -> Small] : k \in 0..Width}
    OBVIOUS
  <2> QED
    BY <2>1, RoomAbove DEF AboveValues
<1>3. t.kind = "list" /\ t.of = type /\ v.json = "array" /\ v.items = outs
  BY DEF ListOf
<1> HIDE DEF t, v
<1>4. \A i \in DOMAIN v.items : MatchesValue[t.of][v.items[i]]
  BY <1>3
<1>5. MatchBody(MatchesValue, t, v)
  BY <1>3, <1>4 DEF MatchBody
<1>6. MatchesValue[t][v]
  BY <1>1, <1>2, <1>5, Matches, TypesAssumption
<1> QED
  BY <1>1, <1>2, <1>6 DEF t, v

\* What the input is composed of is of the type composed for it.
LEMMA InputMatches ==
  ASSUME SignaturesRead, SeamInv, verdict = "Checked", NEW n \in Node, HasInput(n), Uniform(n),
         EvaluateExprTy(n) # NotATy,
         NEW outs \in [DOMAIN graph.refs[n] -> Small],
         \A i \in DOMAIN graph.refs[n] : MatchesValue[Promised(graph.refs[n][i])][outs[i]]
  PROVE  /\ EvaluateExprTy(n) \in Ty /\ EvaluateInput(n, outs) \in Values
         /\ MatchesValue[EvaluateExprTy(n)][EvaluateInput(n, outs)]
<1> DEFINE refs == graph.refs[n]
           types == [i \in DOMAIN refs |-> OutputTy(refs[i])]
<1>1. PICK k \in Nat : k = Len(refs) /\ DOMAIN refs = 1..k
  BY GraphAssumption DEF SeamInv, TypeInv
<1>2. \A i \in 1..k : refs[i] \in Node
  BY <1>1 DEF SeamInv, References
<1>3. \A i \in 1..k : OutputTy(refs[i]) = Promised(refs[i]) /\ Promised(refs[i]) \in TyTo[Depth - 1]
  <2> SUFFICES ASSUME NEW i \in 1..k
               PROVE  /\ OutputTy(refs[i]) = Promised(refs[i])
                      /\ Promised(refs[i]) \in TyTo[Depth - 1]
    OBVIOUS
  <2>1. PICK m \in Node : m = refs[i]
    BY <1>2
  <2>2. Readable(m)
    BY DEF SeamInv
  <2>3. OutputTy(m) = Promised(m) /\ Promised(m) \in TyTo[Depth - 1]
    BY <2>2, DeclaredTypes
  <2> QED
    BY <2>1, <2>3
<1>4. /\ DOMAIN types = 1..k
      /\ \A i \in 1..k : types[i] = Promised(refs[i]) /\ types[i] \in TyTo[Depth - 1]
  BY <1>1, <1>3
<1>5. outs \in [1..k -> Small] /\ \A i \in 1..k : MatchesValue[types[i]][outs[i]]
  BY <1>1, <1>4
<1>6. EvaluateExprTy(n) = CASE graph.shape[n] = "record" -> RecordOf(Record(types))
                            [] types = <<>> -> NotATy
                            [] graph.shape[n] = "bare" -> types[1]
                            [] OTHER -> ListOf(types[1])
  BY DEF EvaluateExprTy
<1>7. /\ graph.shape[n] \in Shape
      /\ graph.shape[n] = "bare" => k < 2
      /\ graph.shape[n] = "record" => k <= Len(Fields)
      /\ graph.shape[n] = "list" => k <= Width
  BY <1>1, SignatureAssumption, BoundsAssumption DEF SeamInv, TypeInv
<1> HIDE DEF types
<1>8. CASE graph.shape[n] = "record"
  <2>1. EvaluateExprTy(n) = RecordOf(Record(types))
    BY <1>6, <1>8
  <2>2. EvaluateInput(n, outs) = [json |-> "object", fields |-> Record(outs)]
    BY <1>8 DEF EvaluateInput
  <2> QED
    BY <1>4, <1>5, <1>7, <1>8, <2>1, <2>2, RecordMatches
<1>9. CASE graph.shape[n] # "record"
  <2>1. k # 0
    <3>1. graph.shape[n] = "bare" => refs # <<>>
      BY DEF HasInput
    <3>2. graph.shape[n] = "list" => types # <<>>
      BY <1>6
    <3> QED
      BY <1>1, <1>4, <1>7, <1>9, <3>1, <3>2 DEF Shape
  <2>2. types # <<>>
    BY <1>4, <2>1
  <2>3. 1 \in 1..k
    BY <2>1
  <2>4. CASE graph.shape[n] = "bare"
    <3>1. EvaluateExprTy(n) = types[1]
      BY <1>6, <2>2, <2>4
    <3>2. EvaluateInput(n, outs) = outs[1]
      BY <2>4 DEF EvaluateInput
    <3> QED
      BY <1>4, <1>5, <2>3, <3>1, <3>2, RoomAbove
  <2>5. CASE graph.shape[n] = "list"
    <3>1. EvaluateExprTy(n) = ListOf(types[1])
      BY <1>6, <2>2, <2>5
    <3>2. EvaluateInput(n, outs) = [json |-> "array", items |-> outs]
      BY <2>5 DEF EvaluateInput
    <3>3. \A i \in 1..k : types[i] = types[1]
      BY <1>1, <1>4, <2>3, <2>5 DEF Uniform
    <3>4. \A i \in 1..k : MatchesValue[types[1]][outs[i]]
      BY <1>5, <3>3
    <3>5. k \in 0..Width /\ types[1] \in TyTo[Depth - 1]
      BY <1>4, <1>7, <2>3, <2>5, TypesAssumption
    <3> QED
      BY <1>5, <3>1, <3>2, <3>4, <3>5, ListMatches
  <2> QED
    BY <1>7, <1>9, <2>4, <2>5 DEF Shape
<1> QED
  BY <1>8, <1>9

\* No mismatch is left: what fits the type composed fits the type declared.
LEMMA SeamsFit == SignaturesRead /\ SeamInv => SeamsSound
<1> SUFFICES ASSUME SignaturesRead, SeamInv, verdict = "Checked", NEW n \in Node,
                    HasInput(n), Uniform(n)
             PROVE  Fits(n)
  BY DEF SeamsSound
<1>1. Readable(n) /\ n \notin Mismatched
  BY DEF SeamInv
<1>2. ReadSignature(n).input = Declared(n).input /\ Declared(n).input \in Ty
  BY <1>1, DeclaredTypes
<1>3. EvaluateExprTy(n) # NotATy /\ AssignableTo[EvaluateExprTy(n)][Declared(n).input]
  BY <1>1, <1>2 DEF Mismatched
<1>4. ASSUME NEW outs \in [DOMAIN graph.refs[n] -> Small],
             \A i \in DOMAIN graph.refs[n] : MatchesValue[Promised(graph.refs[n][i])][outs[i]]
      PROVE  MatchesValue[Declared(n).input][EvaluateInput(n, outs)]
  BY <1>2, <1>3, <1>4, InputMatches, AssignableIsSound, TypesAssumption
<1> QED
  BY <1>4 DEF Fits

(***************************************************************************)
(* Whatever a graph composes, if check_graph accepts it and every block    *)
(* returns what it declares, every node is handed what it declares: the    *)
(* rule for types is sound for values of any depth.  The parser's part,    *)
(* that a signature's written form reads back, is assumed.                 *)
(***************************************************************************)
THEOREM SeamsAreSound == SignaturesRead => (Spec => []SeamsSound)
<1> SUFFICES ASSUME SignaturesRead PROVE Spec => []SeamsSound
  OBVIOUS
<1>1. SeamInv => SeamsSound
  BY SeamsFit
<1> QED
  BY <1>1, InitSeams, SeamStep, PTL DEF Spec

=============================================================================
