--------------------------------- MODULE Types ---------------------------------
(***************************************************************************)
(* The types blocks declare (crates/cuttlefish-abi/src/lib.rs, Ty), the    *)
(* JSON values they are about, and their written form, in which they       *)
(* travel from a block to the host that checks them.                       *)
(***************************************************************************)
EXTENDS Naturals, Sequences, SequencesExt, FiniteSets

CONSTANTS
  Kinds,   \* the simple types in use: some of SimpleKinds
  Fields,  \* the names of record fields, in alphabetical order
  Scalars, \* the JSON scalars in use
  Depth,   \* bound: how deep lists and records nest
  Width    \* bound: how many items an array has

Unchecked   == {"bytes", "image", "document", "json"}
SimpleKinds == {"text", "number", "bool"} \cup Unchecked

ASSUME TypesAssumption ==
  /\ Kinds \subseteq SimpleKinds
  /\ Fields \in Seq(STRING)
  /\ Scalars \subseteq {"string", "number", "boolean", "null"}
  /\ Depth \in Nat /\ Width \in Nat

Simple(k) == [kind |-> k]
ListOf(t) == [kind |-> "list", of |-> t]
RecordOf(f) == [kind |-> "record", fields |-> f]

\* Every function from some of the names into S.
Partial(S) == UNION {[D -> S] : D \in SUBSET ToSet(Fields)}

TyTo[d \in 0..Depth] ==
  {Simple(k) : k \in Kinds}
    \cup IF d = 0 THEN {}
         ELSE {ListOf(t) : t \in TyTo[d - 1]} \cup {RecordOf(f) : f \in Partial(TyTo[d - 1])}

Ty == TyTo[Depth]

\* What is not a type, where one was to be composed or parsed.
NotATy == [kind |-> "error"]

\* Whether a value of the first type may go where the second is required.
AssignableTo[have \in Ty] == [need \in Ty |->
  \/ need.kind = "json"
  \/ have.kind = "list" /\ need.kind = "list" /\ AssignableTo[have.of][need.of]
  \/ /\ have.kind = "record" /\ need.kind = "record"
     /\ \A f \in DOMAIN need.fields :
          f \in DOMAIN have.fields /\ AssignableTo[have.fields[f]][need.fields[f]]
  \/ have = need]
-----------------------------------------------------------------------------

\* JSON: scalars, arrays, and objects.
ValueTo[d \in 0..Depth] ==
  [json : Scalars]
    \cup IF d = 0 THEN {}
         ELSE [json : {"array"}, items : UNION {[1..n -> ValueTo[d - 1]] : n \in 0..Width}]
                \cup [json : {"object"}, fields : Partial(ValueTo[d - 1])]

Values == ValueTo[Depth]
Small == IF Depth = 0 THEN Values ELSE ValueTo[Depth - 1]   \* those one level below

\* What the host checks of a block's input and output as the job runs.
MatchesValue[t \in Ty] == [v \in Values |->
  \/ t.kind \in Unchecked
  \/ t.kind = "text" /\ v.json = "string"
  \/ t.kind = "number" /\ v.json = "number"
  \/ t.kind = "bool" /\ v.json = "boolean"
  \/ /\ t.kind = "list" /\ v.json = "array"
     /\ \A i \in DOMAIN v.items : MatchesValue[t.of][v.items[i]]
  \/ /\ t.kind = "record" /\ v.json = "object"
     /\ \A f \in DOMAIN t.fields :
          f \in DOMAIN v.fields /\ MatchesValue[t.fields[f]][v.fields[f]]]
-----------------------------------------------------------------------------
(***************************************************************************)
(* The written form, as tokens: `text`, `[text]`, `{name: text, ...}`.     *)
(***************************************************************************)
Marks == {"[", "]", "{", "}", ":", ",", "->"}
Token == SimpleKinds \cup ToSet(Fields) \cup Marks

\* The names of a record in the order they are written in.
Written(f) == SelectSeq(Fields, LAMBDA n : n \in DOMAIN f)

Describe[t \in Ty] ==
  CASE t.kind = "list" -> <<"[">> \o Describe[t.of] \o <<"]">>
    [] t.kind = "record" ->
         LET Field(n) == <<n, ":">> \o Describe[t.fields[n]]
             parts == [i \in DOMAIN Written(t.fields) |->
                         (IF i = 1 THEN <<>> ELSE <<",">>) \o Field(Written(t.fields)[i])]
         IN <<"{">> \o FlattenSeq(parts) \o <<"}">>
    [] OTHER -> <<t.kind>>

Inner(s) == SubSeq(s, 2, Len(s) - 1)
Enclosed(s, open, close) == Len(s) > 1 /\ s[1] = open /\ s[Len(s)] = close

\* The commas that are not inside a nested list or record.
OuterCommas(s) ==
  LET Count(marks, i) == Cardinality({j \in 1..i : s[j] \in marks})
  IN {i \in DOMAIN s : s[i] = "," /\ Count({"[", "{"}, i) = Count({"]", "}"}, i)}

\* split_fields: the parts of a record's body; a body that ends in a comma has
\* no last one.
SplitFields(s) ==
  LET cuts == {0} \cup OuterCommas(s)
      Next(c) == {i \in OuterCommas(s) \cup {Len(s) + 1} : i > c}
      End(c) == CHOOSE i \in Next(c) : \A k \in Next(c) : i <= k
  IN {SubSeq(s, c + 1, End(c) - 1) : c \in {c \in cuts : c < Len(s)}}

ParseTy[s \in Seq(Token)] ==
  IF Len(s) = 1 /\ s[1] \in SimpleKinds THEN Simple(s[1])
  ELSE IF Enclosed(s, "[", "]") THEN
    LET t == ParseTy[Inner(s)] IN IF t = NotATy THEN t ELSE ListOf(t)
  ELSE IF Enclosed(s, "{", "}") THEN
    LET parts == SplitFields(Inner(s))
        TyOf(p) == ParseTy[SubSeq(p, 3, Len(p))]
        Part(n) == CHOOSE p \in parts : p[1] = n
    IN IF \E p \in parts : Len(p) < 3 \/ p[2] # ":" \/ TyOf(p) = NotATy THEN NotATy
       ELSE RecordOf([n \in {p[1] : p \in parts} |-> TyOf(Part(n))])
  ELSE NotATy

\* A signature's two types, written one after the other and read again.
Signature == [input : Ty, output : Ty]
DescribeSignature(s) == Describe[s.input] \o <<"->">> \o Describe[s.output]

ParseSignature(s) ==
  LET arrow == CHOOSE i \in DOMAIN s : s[i] = "->" /\ \A k \in 1..(i - 1) : s[k] # "->"
  IN [input |-> ParseTy[SubSeq(s, 1, arrow - 1)],
      output |-> ParseTy[SubSeq(s, arrow + 1, Len(s))]]
=============================================================================
