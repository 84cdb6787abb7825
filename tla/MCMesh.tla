------------------------------- MODULE MCMesh -------------------------------
(* Mesh for TLC: what clients ask. *)
EXTENDS Mesh, TLC

Of(kinds, operations, lists) == [kind : kinds, operation : operations, to : lists]

Twice == {<<Key(p), Address(p)>> : p \in Portals}
Both == {<<Key(p), Key(q)>> : p, q \in Portals} \ {<<Key(p), Key(p)>> : p \in Portals}

\* Every operation and kind to a portal by its key; an Ext by its address, to a
\* stranger, to nobody, to one portal twice and to both.
SomeAsked ==
  Of(ExchangeKind, Operation, {<<Key(p)>> : p \in Portals})
    \cup Of({"RequestResponse"}, {"Select", "Ext"}, {<<s>> : s \in Strangers})
    \cup Of({"RequestResponse"}, {"Ext"}, {<<>>} \cup {<<Address(p)>> : p \in Portals})
    \cup Of(ExchangeKind, {"Ext"}, Twice \cup Both)

Symmetry == Permutations(Portals) \cup Permutations(Messages)
=============================================================================
