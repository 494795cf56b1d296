---------------------------- MODULE MCTypeSystem ----------------------------
(* A small instance of TypeSystem for TLC.                                 *)
EXTENDS TypeSystem

Ref(n) == [form |-> "name", ref |-> n]
Leaf(n) == [form |-> "simple", is_a |-> n]
ListOf(d) == [form |-> "list", elem |-> d]
TupleOf(s) == [form |-> "tuple", elems |-> s]
Record(d) == [form |-> "properties", props |-> [p |-> d]]
EmptyRecord == [form |-> "properties", props |-> <<>>]
MappingOf(k, d) == [form |-> "mapping", key |-> Ref(k), value |-> d]
UnionOf(S) == [form |-> "union", members |-> {Ref(n) : n \in S}]

\* Definitions of one name that may use another one.
Shapes(other) ==
  { Leaf(""), Leaf("number"), Leaf(other), ListOf(Ref("number")), ListOf(Ref(other)),
    TupleOf(<<>>), TupleOf(<<Ref("integer"), Ref(other)>>),
    Record(Ref("integer")), Record(Ref(other)),
    MappingOf("string", Ref("number")), MappingOf("integer", Ref(other)),
    UnionOf({"integer", "string"}), UnionOf({"integer", other}), UnionOf({}) }
MoreShapes(other) ==
  { ListOf(Ref("any")), EmptyRecord, MappingOf("number", Ref("any")), ListOf(Leaf("number")),
    ListOf(ListOf(Ref("number"))), ListOf(UnionOf({"string", other})) }
AllDefinitions ==
  {[s |-> d, t |-> e] : d \in Shapes("t") \cup MoreShapes("t"), e \in Shapes("s")}
    \cup {[any |-> Leaf("")], [s |-> ListOf(Ref("u"))]}

Basic(n) == [is |-> n]
Seqs(S) == {[is |-> "list", items |-> <<>>]}
  \cup {[is |-> "list", items |-> <<x>>] : x \in S}
Pairs(S) == {[is |-> "list", items |-> <<x, y>>] : x, y \in S}
Maps(S) ==
  {[is |-> "map", keys |-> {}, entries |-> <<>>]}
  \cup {[is |-> "map", keys |-> {"string"}, entries |-> [p |-> x]] : x \in S}
  \cup {[is |-> "map", keys |-> {"string"}, entries |-> [q |-> x]] : x \in S}
  \cup {[is |-> "map", keys |-> {"integer"}, entries |-> [p |-> x]] : x \in S}
Doubles(S) ==
  {[is |-> "map", keys |-> k, entries |-> [p |-> x, q |-> y]] :
     k \in {{"integer"}, {"integer", "string"}, {"string"}}, x, y \in S}
Basics == {Basic(n) : n \in {"integer", "number", "string"}}
Refs == {[is |-> "ref", to |-> n] : n \in {"s", "t", "integer", "any"}}

AllSpecs ==
  Basics \cup Refs \cup Seqs(Basics \cup Refs) \cup Maps(Basics \cup Refs)
    \cup Pairs({Basic("integer"), [is |-> "ref", to |-> "t"]})
    \cup Doubles({Basic("integer"), [is |-> "ref", to |-> "t"]})
    \cup Seqs(Seqs({Basic("integer")}))
Objects == Basics \cup {Basic("null"), Basic("s"), Basic("t")}
AllValues ==
  Objects \cup Seqs(Objects) \cup Pairs(Objects) \cup Maps(Objects)
    \cup Doubles({Basic("integer"), Basic("string"), Basic("t")})
    \cup Seqs(Seqs(Objects) \cup Maps(Basics)) \cup Maps(Seqs(Basics))
=============================================================================
