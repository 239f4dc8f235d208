---------------------------- MODULE MCBuildMerge ----------------------------
(* TLC instance of BuildMerge: names without families, so any may stand for *)
(* any other.                                                               *)
EXTENDS BuildMerge, TLC

OwnStem == [n \in Name |-> n]
Orders == {-1, 0}
=============================================================================
