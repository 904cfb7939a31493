----------------------------- MODULE MCBatchEngine -----------------------------
(* Two datasets, so that one follows the other; two files, for an SNR or an   *)
(* Allan variance; one recipe with the Allan phase and one without.           *)
EXTENDS BatchEngine

CONSTANTS d1, d2, f1, f2

TwoSources == <<d1, d2>>
TwoFiles == {f1, f2}
AllOrNone == {{}, TwoFiles}
TwoRecipes == {{"spectra", "average", "allan"}, {"snr", "t100"}}
================================================================================
