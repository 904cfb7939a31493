-------------------------- MODULE MCConversionScreen --------------------------
(* Two files: the one that is converted, and the one the fields are changed   *)
(* to or another tab shows.                                                  *)
EXTENDS ConversionScreen

CONSTANTS p1, p2

TwoPaths == {p1, p2}
================================================================================
