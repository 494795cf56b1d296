---------------------------- MODULE NameDirectory ---------------------------
(***************************************************************************)
(* What the resource services promise about names: a directory in which,   *)
(* within one resource type and one owning group, a name leads to at most  *)
(* one resource.  A resource enters under a free name, moves to a free     *)
(* name and leaves; nothing is said of how the name is found to be free.   *)
(***************************************************************************)
CONSTANTS Ids, Kinds, Groups, Names

VARIABLE entries

Entry == [id : Ids, kind : Kinds, group : Groups, name : Names]

\* Two entries that a look-up by type, group and name cannot tell apart.
SameKey(d, e) == d.kind = e.kind /\ d.group = e.group /\ d.name = e.name

Unambiguous(E) == \A d, e \in E : SameKey(d, e) \/ d.id = e.id => d = e

Init == entries = {}

\* Resources are registered, one or (the built-in types of a group) several.
Register ==
  /\ entries \subseteq entries'
  /\ \A e \in entries' \ entries :
        e \in Entry /\ \A d \in entries : d.id # e.id
  /\ Unambiguous(entries')

\* A resource is given another name.
Rename ==
  \E e \in entries : \E n \in Names :
     LET moved == (entries \ {e}) \cup {[e EXCEPT !.name = n]}
     IN  Unambiguous(moved) /\ entries' = moved

\* A resource is deleted, and its name is free again.
Remove == \E e \in entries : entries' = entries \ {e}

Next == Register \/ Rename \/ Remove

Spec == Init /\ [][Next]_entries
=============================================================================
