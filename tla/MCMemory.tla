------------------------------ MODULE MCMemory ------------------------------
(* Three texts of which one is near the two others, which are not near     *)
(* each other; skill files of one part or two, one of them also near.      *)
EXTENDS Memory, TLC

CONSTANTS a, b, c

Chain == {<<a, a>>, <<b, b>>, <<c, c>>, <<a, b>>, <<b, a>>, <<b, c>>, <<c, b>>}
Files == {<<c>>, <<a, b>>}
Summaries == {<<c, b>>}
=============================================================================
