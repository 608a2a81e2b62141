-------------------------------- MODULE MCDag --------------------------------
(***************************************************************************)
(* Small graphs to model-check Dag with.                                   *)
(***************************************************************************)
EXTENDS Dag, TLC

CONSTANTS x, y

\* Up to two of the names in S, in either order.
Pairs(S) == {<<>>} \cup {<<a>> : a \in S} \cup {p \in S \X S : p[1] # p[2]}

Typed(declared, refs, shape, block, looping, over, branches) ==
  [declared |-> declared, refs |-> refs, shape |-> shape, block |-> block,
   looping |-> looping, over |-> over, branches |-> branches]

\* A graph in which types are no matter: each `in` is a record.
Same(v) == SubSeq(<<v, v, v, v, v>>, 1, N)

Graph(declared, refs, looping, branches) ==
  Typed(declared, refs, Same("record"), Same(0), looping, {}, branches)

InOrder  == SubSeq(<<1, 2, 3, 4, 5>>, 1, N)
Backward == Reverse(InOrder)

(***************************************************************************)
(* Every graph of N nodes of which the last references at most one and the *)
(* others at most two, themselves included, and every other node is marked *)
(* `repeat_until`.                                                         *)
(***************************************************************************)
SortGraphs ==
  LET few == {p \in Pairs(Node) : Len(p) = 2 => p[1] < p[2]}
  IN {Graph(InOrder, Append(refs, last), {1, 3}, <<>>) :
        refs \in [1..(N - 1) -> few], last \in {p \in few : Len(p) < 2}}

(***************************************************************************)
(* Four nodes over which one or two decisions branch: 1 between x and y,   *)
(* and 2 or 3 between x and y, to any later nodes.  Node 3 may loop.       *)
(***************************************************************************)
To(d, l, t) == [decision |-> d, label |-> l, target |-> t]

BranchRefs ==
  {<<<<>>, r2, r3, r4>> : r2 \in {<<>>, <<1>>},
                          r3 \in {<<>>, <<1>>, <<2>>, <<2, 3>>}, r4 \in Pairs(1..3)}

TwoWay(d, S) == {<<To(d, x, s), To(d, y, t)>> : s \in S, t \in S}

One == TwoWay(1, 2..4)

Two == {<<>>, <<To(2, x, Unknown)>>, <<To(3, y, 4)>>} \cup TwoWay(2, 3..4)

BranchGraphs ==
  {Graph(InOrder, refs, {3}, a \o b) : refs \in BranchRefs, a \in One, b \in Two}

DeclaredBackward == {Graph(Backward, refs, {3}, a) : refs \in BranchRefs, a \in One}

(***************************************************************************)
(* Nodes 1 and 2, whose outputs are of various types and of which 2 may be *)
(* a fan-out, and node 3 with an input composed of them.                   *)
(***************************************************************************)
MCFields == <<"count", "path">>
Text == Simple("text")
Number == Simple("number")

OutputTypes ==
  <<Text, Number, Simple("json"), ListOf(Text),
    RecordOf("count" :> Number @@ "path" :> Text)>>

InputTypes ==
  OutputTypes \o
    <<ListOf(Number), ListOf(ListOf(Text)), RecordOf("path" :> Text),
      RecordOf("path" :> Number), RecordOf("path" :> ListOf(Text)),
      RecordOf("count" :> Simple("json") @@ "path" :> Simple("json")),
      RecordOf("count" :> OutputTypes[5] @@ "path" :> Text)>>

\* Blocks: two on their own, some by what they return and some by what they take.
Untyped == 0
Unreadable == 1
From(i) == 1 + i
Into(j) == From(Len(OutputTypes)) + j

MCDeclares ==
  [b \in Untyped..Into(Len(InputTypes)) |->
     IF b = Untyped THEN Undeclared
     ELSE IF b = Unreadable THEN NotATy
     ELSE IF b < Into(1) THEN [input |-> Text, output |-> OutputTypes[b - From(0)]]
     ELSE [input |-> InputTypes[b - Into(0)], output |-> Text]]

Composed ==
  {<<"bare", <<1>>>>, <<"bare", <<2>>>>, <<"list", <<>>>>, <<"list", <<2>>>>,
   <<"list", <<1, 2>>>>, <<"record", <<1>>>>, <<"record", <<2, 1>>>>}

SeamGraphs ==
  {Typed(InOrder, <<<<>>, <<>>, c[2], <<>>>>, <<"bare", "bare", c[1], "bare">>,
         <<From(a), From(b), Into(t), Untyped>>, {}, over, <<>>) :
     c \in Composed, a \in DOMAIN OutputTypes, t \in DOMAIN InputTypes,
     <<b, over>> \in ((DOMAIN OutputTypes) \X {{}}) \cup {<<1, {2}>>}}

(***************************************************************************)
(* A reference to no node; a block without a signature; a decision that is *)
(* no node.  And node 2 declared twice: in a graph without a cycle, and in *)
(* one whose last two nodes wait for each other.                           *)
(***************************************************************************)
Twice == Append(InOrder, 2)

TwiceGraphs ==
  {Graph(Twice, [Same(<<>>) EXCEPT ![2] = <<1>>], {}, <<>>)}

OddGraphs ==
  {Graph(InOrder, Same(<<Unknown>>), {}, <<>>),
   Typed(InOrder, Same(<<>>), Same("bare"), Same(Unreadable), {}, {}, <<>>),
   Graph(InOrder, Same(<<>>), {}, <<To(Unknown, x, 2)>>),
   Graph(Twice, [Same(<<>>) EXCEPT ![N - 1] = <<N>>, ![N] = <<N - 1>>], {}, <<>>)}

MCGraphs ==
  SortGraphs \cup (BranchGraphs \cup (SeamGraphs \cup (DeclaredBackward \cup (OddGraphs \cup TwiceGraphs))))

\* A list of a text and a number for a node that takes texts.
ListGraphs ==
  {Typed(InOrder, <<<<>>, <<>>, <<1, 2>>>>, <<"bare", "bare", "list">>,
         <<From(1), From(2), Into(4)>>, {}, {}, <<>>)}

(***************************************************************************)
(* A decision inside a branch: 1 branches to 2 and 3, and 2 branches again *)
(* to 4 and 5.                                                             *)
(***************************************************************************)
NestedGraphs ==
  {Graph(InOrder, <<<<>>, <<1>>, <<1>>, <<2>>, <<2>>>>, {},
         <<To(1, x, 2), To(1, y, 3), To(2, x, 4), To(2, y, 5)>>)}

(***************************************************************************)
(* 1 branches to 2 and 3, and 3 reads 2: the target of one label needs the *)
(* target of the other.                                                    *)
(***************************************************************************)
FanInGraphs ==
  {Graph(InOrder, <<<<>>, <<1>>, <<1, 2>>>>, {}, <<To(1, x, 2), To(1, y, 3)>>)}

(***************************************************************************)
(* Node 2 branches to 1, which takes the job's own input.                  *)
(***************************************************************************)
EarlyTargetGraphs ==
  {Graph(InOrder, <<<<>>, <<>>, <<2>>>>, {}, <<To(2, x, 1), To(2, y, 3)>>)}
-----------------------------------------------------------------------------
\* What the proof of the seams takes from the notation.
ASSUME MCSignaturesRead == SignaturesRead
=============================================================================
