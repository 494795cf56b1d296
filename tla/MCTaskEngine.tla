---------------------------- MODULE MCTaskEngine ----------------------------
(* An instance of TaskEngine for TLC.  Steps a and b always exist; c is    *)
(* unused, a step, a parameter, an artifact input, or two of these.  Task  *)
(* a lists two outputs, b has one.  Every step makes at most one visible   *)
(* reference; b may also make a buried one and declare a dependency.  The  *)
(* artifact that the job gives for c has as many outputs as c, under the   *)
(* same names, under another name, or in another order.                    *)
EXTENDS TaskEngine, TLC

CONSTANTS a, b, c, x, y

AtMostOne(S) == {{}} \cup {{e} : e \in S}
RefsTo(names) == AtMostOne([name : names, out : {x, y, Bare}])

(* The parts c plays, the outputs of its task and those of its artifact.   *)
Roles ==
  [parts : {{}, {"parameter"}, {"parameter", "default"}}, outs : {<<>>},
   input : {<<>>, <<x>>}]
  \cup [parts : {{"step"}}, outs : {<<>>, <<y>>}, input : {<<>>, <<x, y>>}]
  \cup {[parts |-> {}, outs |-> <<>>, input |-> <<x, y>>],
        [parts |-> {"step", "parameter"}, outs |-> <<y>>, input |-> <<>>]}

Lists == {<<>>, <<x>>, <<y>>, <<x, y>>, <<y, x>>}
RolesSupplied ==
  {p \in Roles \X Lists : Len(p[2]) = Len(p[1].input)}

Described(role, supplied, ofA, ofB, ofC, buried, after, contents) ==
  LET If(part, value, other) == IF part \in role.parts THEN value ELSE other
  IN [steps      |-> {a, b} \cup If("step", {c}, {}),
      parameters |-> If("parameter", {c}, {}),
      defaulted  |-> If("default", {c}, {}),
      inputs     |-> (a :> <<>> @@ b :> <<>> @@ c :> role.input),
      supplied   |-> (a :> <<>> @@ b :> <<>> @@ c :> supplied),
      outs       |-> (a :> <<x, y>> @@ b :> <<x>> @@ c :> role.outs),
      listed     |-> {a, c},
      refs       |-> (a :> ofA @@ b :> ofB @@ c :> If("step", ofC, {})),
      buried     |-> (a :> {} @@ b :> buried @@ c :> {}),
      after      |-> (a :> {} @@ b :> after @@ c :> {}),
      contents   |-> contents]

ToC == {[name |-> c, out |-> Bare]}

MCDescriptions ==
  {Described(p[1], p[2], ofA, ofB, ofC, buried, after, contents) :
     p \in RolesSupplied, ofA \in RefsTo({b, c}), ofB \in RefsTo({a, b, c}),
     ofC \in RefsTo({a, b}), buried \in {{}, ToC, {[name |-> a, out |-> x]}},
     after \in {{}, {c}}, contents \in {{}, ToC}}
=============================================================================
