-------------------------- MODULE MCResourceImport --------------------------
(* A small instance of ResourceImport for TLC.                             *)
EXTENDS ResourceImport

T == [kind |-> "type", name |-> "t"]
P == [kind |-> "plugin", name |-> "p"]
Q == [kind |-> "plugin", name |-> "q"]
E == [kind |-> "entrypoint", name |-> "e"]
AllKeys == {T, P, Q, E}

TypeItem == [key |-> T, uses |-> {}, artifacts |-> {}]
PluginItem(k) == [key |-> k, uses |-> {T}, artifacts |-> {}]
EntrypointItem == [key |-> E, uses |-> {P}, artifacts |-> {Q}]

\* A whole configuration; one whose two plugins have the same name, as paths
\* may, and use other types; and one that lists a type twice.
AllConfigs ==
  { <<TypeItem, PluginItem(P), PluginItem(Q), EntrypointItem>>,
    <<TypeItem, PluginItem(P), [PluginItem(P) EXCEPT !.uses = {}]>>,
    <<TypeItem, TypeItem>> }
=============================================================================
