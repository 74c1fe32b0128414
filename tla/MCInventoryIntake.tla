--------------------------- MODULE MCInventoryIntake ---------------------------
(* Values of the constants of InventoryIntake for TLC. *)
EXTENDS InventoryIntake, TLC

CONSTANTS o1, o2, d1, d2, h1, p1

\* The first document declares nothing, the second a host; they share a package.
TheHost == (d1 :> None) @@ (d2 :> h1)
OnePackage == [d \in Documents |-> {p1}]

SentApart == {<<o1, d2>>, <<o2, d2>>}
SentByBoth == {<<o1, d1>>, <<o2, d1>>}
OneDocument == {<<o1, d1>>}
TwoDocuments == {<<o1, d1>>, <<o1, d2>>}

OneRow == {<<o1, <<h1>>>>}
Nothing == {}
=============================================================================
