-------------------------- MODULE MCBuilderHandles --------------------------
(* TLC instance of BuilderHandles: two plain names and a member of a        *)
(* family; `piece` has a shell named as its demand.                         *)
EXTENDS BuilderHandles, TLC

CONSTANTS a, b, c, x, piece

OwnStem == [n \in Name |-> n]

Paths == {<<>>, <<x>>}
At(paths) == {[path |-> p, name |-> x] : p \in paths}
PieceDemands == [body \in Body |-> IF body = piece THEN At(Paths) ELSE {}]
PieceSupplies == [body \in Body |-> IF body = piece THEN At({<<x>>}) ELSE At({<<>>})]
PieceShells == [body \in Body |-> IF body = piece THEN {<<x>>} ELSE {}]
Swap == Permutations({a, b})
AllHoles == [body \in Body |-> Hole]
=============================================================================
