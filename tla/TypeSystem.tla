----------------------------- MODULE TypeSystem -----------------------------
(***************************************************************************)
(* The types of an experiment description: definitions are sorted and      *)
(* built into a registry, and then the argument of a step, or the default  *)
(* of a global parameter, is given an inferred type, which must be         *)
(* compatible with the declared one.                                       *)
(*                                                                         *)
(* What a type means is defined independently of the checker, as the       *)
(* values that belong to it, and the properties compare the two.           *)
(***************************************************************************)
EXTENDS Naturals, Sequences, FiniteSets

CONSTANTS
  Definitions,   \* sets of type definitions: functions from names to definitions
  Specs,         \* arguments and defaults as they are written
  Values         \* bound: the values a task may return or be given

Builtins == {"any", "string", "integer", "number", "boolean", "null"}
ASSUME DefinitionsAssumption == \A d \in Definitions : DOMAIN d \subseteq STRING

VARIABLES
  defs,       \* the definitions of the description
  registry,   \* the types built so far, by name
  phase,      \* "building", "refused", "built", "accepted", "rejected"
  checked     \* what was checked, against which type

vars == <<defs, registry, phase, checked>>

Anonymous == ""
Simple(name, bases) == [sort |-> "simple", name |-> name, bases |-> bases]
BuiltinTypes ==
  [b \in Builtins |-> Simple(b, IF b = "integer" THEN {"number"} ELSE {})]
Nothing == [spec |-> [is |-> "null"], type |-> "any", resolved |-> FALSE]

Init ==
  /\ defs \in Definitions
  /\ registry = BuiltinTypes
  /\ phase = "building"
  /\ checked = Nothing

-----------------------------------------------------------------------------
(* Building the registry                                                   *)

RECURSIVE Dependencies(_)
\* The names a definition refers to.
Dependencies(def) ==
  CASE def.form = "name" -> {def.ref}
    [] def.form = "simple" -> {def.is_a} \ {Anonymous}
    [] def.form = "list" -> Dependencies(def.elem)
    [] def.form = "tuple" -> UNION {Dependencies(def.elems[i]) : i \in DOMAIN def.elems}
    [] def.form = "properties" ->
         UNION {Dependencies(def.props[p]) : p \in DOMAIN def.props}
    [] def.form = "mapping" -> Dependencies(def.key) \cup Dependencies(def.value)
    [] def.form = "union" -> UNION {Dependencies(m) : m \in def.members}

\* The definitions can be sorted: every name is known and none is its own
\* dependency, however many steps away.
Sortable(d) ==
  /\ \A n \in DOMAIN d : Dependencies(d[n]) \subseteq DOMAIN d \cup Builtins
  /\ ~\E S \in SUBSET DOMAIN d : S # {} /\ \A n \in S : Dependencies(d[n]) \cap S # {}

RECURSIVE Build(_, _)
\* build_type() and build_or_get_type(); a union without members is falsy
\* and makes a simple type.
Build(name, def) ==
  CASE def.form = "name" -> registry[def.ref]
    [] def.form = "simple" \/ (def.form = "union" /\ def.members = {}) ->
         Simple(name, IF def.form = "union" \/ def.is_a = Anonymous THEN {}
                      ELSE {def.is_a} \cup registry[def.is_a].bases)
    [] def.form = "list" ->
         [sort |-> "list", name |-> name, elem |-> Build(Anonymous, def.elem)]
    [] def.form = "tuple" ->
         [sort |-> "tuple", name |-> name,
          elems |-> [i \in DOMAIN def.elems |-> Build(Anonymous, def.elems[i])]]
    [] def.form = "properties" ->
         [sort |-> "properties", name |-> name,
          props |-> [p \in DOMAIN def.props |-> Build(Anonymous, def.props[p])]]
    [] def.form = "mapping" ->
         [sort |-> "mapping", name |-> name, key |-> Build(Anonymous, def.key),
          value |-> Build(Anonymous, def.value)]
    [] OTHER ->
         [sort |-> "union", name |-> name,
          members |-> {Build(Anonymous, m) : m \in def.members}]

LegalKey(key) == key \in {BuiltinTypes["string"], BuiltinTypes["integer"]}

RECURSIVE Legal(_, _)
\* What build_type() raises no error for, once the dependencies are built.
Legal(name, def) ==
  CASE def.form = "name" -> TRUE
    [] def.form = "simple" ->
         /\ name # Anonymous
         /\ def.is_a # Anonymous => registry[def.is_a].sort = "simple"
    [] def.form = "list" -> Legal(Anonymous, def.elem)
    [] def.form = "tuple" -> \A i \in DOMAIN def.elems : Legal(Anonymous, def.elems[i])
    [] def.form = "properties" ->
         \A p \in DOMAIN def.props : Legal(Anonymous, def.props[p])
    [] def.form = "mapping" ->
         /\ Legal(Anonymous, def.key) /\ Legal(Anonymous, def.value)
         /\ LegalKey(Build(Anonymous, def.key))
    [] def.form = "union" ->
         /\ def.members = {} => name # Anonymous
         /\ \A m \in def.members : Legal(Anonymous, m)

Refuse ==
  /\ phase = "building"
  /\ \/ ~Sortable(defs)
     \/ \E n \in DOMAIN defs \ DOMAIN registry :
          /\ Dependencies(defs[n]) \subseteq DOMAIN registry
          /\ ~Legal(n, defs[n])
     \/ DOMAIN defs \cap Builtins # {}
  /\ phase' = "refused"
  /\ UNCHANGED <<defs, registry, checked>>

BuildType(n) ==
  /\ phase = "building" /\ Sortable(defs)
  /\ n \in DOMAIN defs \ DOMAIN registry
  /\ Dependencies(defs[n]) \subseteq DOMAIN registry
  /\ Legal(n, defs[n])
  /\ registry' = [m \in DOMAIN registry \cup {n} |->
                    IF m = n THEN Build(n, defs[n]) ELSE registry[m]]
  /\ phase' = IF DOMAIN defs \subseteq DOMAIN registry' THEN "built" ELSE "building"
  /\ UNCHANGED <<defs, checked>>

-----------------------------------------------------------------------------
(* The type of what is written                                             *)

Any == BuiltinTypes["any"]

RECURSIVE Infer(_, _)
\* Only the arguments of steps are resolved: in a default, what looks like a
\* reference is a string.  Mappings are told apart by their keys.
Infer(spec, resolved) ==
  CASE spec.is = "ref" ->
         IF resolved THEN registry[spec.to] ELSE BuiltinTypes["string"]
    [] spec.is = "list" ->
         [sort |-> "tuple", name |-> Anonymous,
          elems |-> [i \in DOMAIN spec.items |-> Infer(spec.items[i], resolved)]]
    [] spec.is = "map" /\ (spec.keys = {"string"} \/ spec.entries = <<>>) ->
         [sort |-> "properties", name |-> Anonymous,
          props |-> [p \in DOMAIN spec.entries |-> Infer(spec.entries[p], resolved)]]
    [] spec.is = "map" /\ spec.keys = {"integer"} /\ spec.entries # <<>> ->
         LET types == {Infer(spec.entries[p], resolved) : p \in DOMAIN spec.entries}
         IN [sort |-> "mapping", name |-> Anonymous,
             key |-> BuiltinTypes["integer"],
             value |-> IF Cardinality(types) = 1 THEN CHOOSE t \in types : TRUE
                       ELSE [sort |-> "union", name |-> Anonymous, members |-> types]]
    [] spec.is = "map" /\ spec.entries # <<>>
         /\ spec.keys \notin {{"string"}, {"integer"}} -> Any
    [] OTHER -> BuiltinTypes[spec.is]

-----------------------------------------------------------------------------
(* Compatibility                                                           *)

RECURSIVE Compatible(_, _)

\* Mutant: zip() without a comparison of the lengths.
ElementsCompatibleZipped(s, t) ==
  \A i \in DOMAIN s \cap DOMAIN t : Compatible(s[i], t[i])

ElementsCompatible(s, t) ==
  Len(s) = Len(t) /\ \A i \in DOMAIN s : Compatible(s[i], t[i])

PropertiesCompatible(s, t) ==
  /\ Cardinality(DOMAIN s) = Cardinality(DOMAIN t)
  /\ \A p \in DOMAIN s : p \in DOMAIN t /\ Compatible(s[p], t[p])

StructuresCompatible(a, b) ==
  CASE a.sort = "tuple" /\ b.sort = "list" ->
         \A i \in DOMAIN a.elems : Compatible(a.elems[i], b.elem)
    [] a.sort = "properties" /\ b.sort = "mapping" ->
         /\ b.key = BuiltinTypes["string"]
         /\ \A p \in DOMAIN a.props : Compatible(a.props[p], b.value)
    [] a.sort = b.sort /\ a.sort = "properties" -> PropertiesCompatible(a.props, b.props)
    [] a.sort = b.sort /\ a.sort = "mapping" ->
         Compatible(a.key, b.key) /\ Compatible(a.value, b.value)
    [] a.sort = b.sort /\ a.sort = "list" -> Compatible(a.elem, b.elem)
    [] a.sort = b.sort /\ a.sort = "tuple" -> ElementsCompatible(a.elems, b.elems)
    [] OTHER -> FALSE

\* Mutant: all members of a union parameter must take the argument.
FitsEveryMember(a, members) == \A m \in members : Compatible(a, m)

FitsSomeMember(a, members) == \E m \in members : Compatible(a, m)

\* _types_compatible(): the first case that applies decides.
Compatible(a, b) ==
  \/ b = Any \/ a = b
  \/ CASE a.sort = "union" -> \A m \in a.members : Compatible(m, b)
       [] a.sort # "union" /\ b.sort = "union" -> FitsSomeMember(a, b.members)
       [] a.sort = "simple" /\ b.sort = "simple" -> b.name \in a.bases
       [] a.sort \notin {"union", "simple"} /\ b.sort \notin {"union", "simple"} ->
            Anonymous \in {a.name, b.name} /\ StructuresCompatible(a, b)
       [] OTHER -> FALSE

\* _check_invocation_parameter() with references resolved, and
\* _check_global_parameter_defaults() without.
Check(spec, n, resolved) ==
  /\ phase = "built"
  /\ phase' = IF Compatible(Infer(spec, resolved), registry[n])
              THEN "accepted" ELSE "rejected"
  /\ checked' = [spec |-> spec, type |-> n, resolved |-> resolved]
  /\ UNCHANGED <<defs, registry>>

RECURSIVE RefersTo(_)
RefersTo(spec) ==
  CASE spec.is = "ref" -> {spec.to}
    [] spec.is = "list" -> UNION {RefersTo(spec.items[i]) : i \in DOMAIN spec.items}
    [] spec.is = "map" -> UNION {RefersTo(spec.entries[p]) : p \in DOMAIN spec.entries}
    [] OTHER -> {}

\* References are to what has a declared type, which validation has found.
CheckArgument(spec, n) == RefersTo(spec) \subseteq DOMAIN registry /\ Check(spec, n, TRUE)
CheckDefault(spec, n) == Check(spec, n, FALSE)

Next ==
  \/ Refuse \/ \E n \in DOMAIN defs : BuildType(n)
  \/ \E spec \in Specs, n \in DOMAIN registry :
       CheckArgument(spec, n) \/ CheckDefault(spec, n)

Spec == Init /\ [][Next]_vars

-----------------------------------------------------------------------------
(* What types mean                                                         *)

RECURSIVE Has(_, _)
\* The value belongs to the type.  An opaque object is of the simple type that
\* the task which returns it declares, and of its bases.
Has(t, v) ==
  CASE t = Any -> TRUE
    [] t # Any /\ t.sort = "simple" ->
         /\ v.is \in DOMAIN registry /\ registry[v.is].sort = "simple"
         /\ t.name \in {v.is} \cup registry[v.is].bases
    [] t.sort = "list" -> v.is = "list" /\ \A i \in DOMAIN v.items : Has(t.elem, v.items[i])
    [] t.sort = "tuple" ->
         /\ v.is = "list" /\ Len(v.items) = Len(t.elems)
         /\ \A i \in DOMAIN v.items : Has(t.elems[i], v.items[i])
    [] t.sort = "properties" ->
         /\ v.is = "map" /\ v.keys \subseteq {"string"}
         /\ DOMAIN v.entries = DOMAIN t.props
         /\ \A p \in DOMAIN t.props : Has(t.props[p], v.entries[p])
    [] t.sort = "mapping" ->
         /\ v.is = "map" /\ v.keys \subseteq {t.key.name}
         /\ \A p \in DOMAIN v.entries : Has(t.value, v.entries[p])
    [] t.sort = "union" -> \E m \in t.members : Has(m, v)

RECURSIVE MayBe(_, _)
\* What is written may be this value when the step runs.
MayBe(spec, v) ==
  CASE spec.is = "ref" ->
         IF checked.resolved THEN Has(registry[spec.to], v) ELSE v.is = "string"
    [] spec.is = "list" ->
         /\ v.is = "list" /\ Len(v.items) = Len(spec.items)
         /\ \A i \in DOMAIN spec.items : MayBe(spec.items[i], v.items[i])
    [] spec.is = "map" ->
         /\ v.is = "map" /\ v.keys = spec.keys /\ DOMAIN v.entries = DOMAIN spec.entries
         /\ \A p \in DOMAIN spec.entries : MayBe(spec.entries[p], v.entries[p])
    [] OTHER -> v.is = spec.is

RECURSIVE HasEmptyMapping(_)
HasEmptyMapping(v) ==
  CASE v.is = "list" -> \E i \in DOMAIN v.items : HasEmptyMapping(v.items[i])
    [] v.is = "map" ->
         v.entries = <<>> \/ \E p \in DOMAIN v.entries : HasEmptyMapping(v.entries[p])
    [] OTHER -> FALSE

\* An argument or default that the checker accepts is, whatever the tasks it
\* refers to return, a value of the type that the task declares for it.
AcceptedArgumentsFit ==
  phase = "accepted" =>
    \A v \in Values : MayBe(checked.spec, v) => Has(registry[checked.type], v)

\* The checker rejects no literal that is a value of the declared type, nested
\* as it may be; an empty mapping always reads as one without properties.
FittingLiteralsAreAccepted ==
  phase = "rejected" /\ (checked.resolved => RefersTo(checked.spec) = {})
    /\ ~HasEmptyMapping(checked.spec)
  => \A v \in Values : MayBe(checked.spec, v) => ~Has(registry[checked.type], v)

=============================================================================
