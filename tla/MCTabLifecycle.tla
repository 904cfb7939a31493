---------------------------- MODULE MCTabLifecycle ----------------------------
(* Small instances of TabLifecycle: the sets of tabs and experiments, and     *)
(* what the environment may do.                                               *)
EXTENDS TabLifecycle

CONSTANTS f1, f2, s1, e1, e2

Files0 == {}
Files1 == {f1}
Files2 == {f1, f2}
Sources0 == {}
Sources1 == {s1}
Exps0 == {}
Exps1 == {e1}
Exps2 == {e1, e2}

Calm == {}
DiskFaults == {"failedSave", "failedOpen", "spoilingEdit"}
Interference == Freedoms \ {"spoilingEdit"}
Impatience == {"failedSave", "clickInFlow", "closeDuringFlow"}
SaveFaults == {"failedSave"}
Spoiling == {"spoilingEdit"}
ImpatientClose == {"closeDuringFlow"}
================================================================================
