------------------------------ MODULE MCPanelBatch ------------------------------
(* Two files, so that one can throw while the other is still computed.       *)
EXTENDS PanelBatch

CONSTANTS f1, f2, s1, s2, cm, um

TwoFiles == {f1, f2}
TwoSettings == {s1, s2}
TwoUnits == {cm, um}
================================================================================
