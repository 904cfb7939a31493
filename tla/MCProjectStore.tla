---------------------------- MODULE MCProjectStore ----------------------------
(* Small instances of ProjectStore. *)
EXTENDS ProjectStore

CONSTANTS s1, s2, own, given, d1, d2, r1

Sources2 == {s1, s2}
Names2 == {own, given}
Datas2 == {d1, d2}
Recipes1 == {r1}

Unlucky == {"write", "rename"}
NoFaults == {}

(* Nothing tells the datasets, or the contents, apart. *)
Symmetry == Permutations(Sources2) \cup Permutations(Datas2)
================================================================================
