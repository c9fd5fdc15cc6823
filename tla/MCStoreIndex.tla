--------------------------- MODULE MCStoreIndex ---------------------------
(***************************************************************************)
(* Instances of StoreIndex for TLC.  Two graphs share the artifact a1;     *)
(* `d1` is a derived image of the second one.                              *)
(***************************************************************************)
EXTENDS StoreIndex

CONSTANTS a1, d1, g1, g2, p1, p2, i1, i2, c1, c2

OneArt == {a1}
NoDerived == {}
OneDerived == {d1}
OneGraph == {g1}
TwoGraphs == {g1, g2}
OneProject == {p1}
FirstProject == {p1}
TwoProjects == {p1, p2}
OneInstall == {i1}
TwoInstalls == {i1, i2}
OneCollector == {c1}
TwoCollectors == {c1, c2}
NoProject == {}

AllShare == [g \in Graphs |-> {a1}]
NoneDerived == [g \in Graphs |-> {}]
SecondDerived == [g \in Graphs |-> IF g = g1 THEN {} ELSE {d1}]

OwnProject == [i \in Installs |-> IF i = i1 THEN p1 ELSE p2]
SameGraph == [i \in Installs |-> g1]
OwnGraph == [i \in Installs |-> IF i = i1 THEN g1 ELSE g2]
=============================================================================
