------------------------ MODULE MCGeneratedAstCache ------------------------
(***************************************************************************)
(* TLC instances of GeneratedAstCache: two sources whose manifests share a *)
(* digest, and one that does not build; parsed by Python, one of them      *)
(* built before with a shell that keeps a name, or compiled on the native  *)
(* hot path.                                                               *)
(***************************************************************************)
EXTENDS GeneratedAstCache, TLC

CONSTANTS first, second, broken, pass, none, kept, d1, d2

Parsed(s) == [source |-> s, keeping |-> none, hotPath |-> FALSE]
Staged(s) == [source |-> s, keeping |-> kept, hotPath |-> FALSE]
HotPath(s) == [source |-> s, keeping |-> none, hotPath |-> TRUE]

PartlyBuiltGraphs == {Parsed(first), Staged(second), Parsed(broken)}
HotPathGraphs == {HotPath(first), HotPath(second)}
NotBuilt == {Parsed(broken)}

CollidingDigest == [m \in Manifest |-> IF m \in {broken, pass} THEN d2 ELSE d1]
=============================================================================
