--------------------------- MODULE MCNativeScope ---------------------------
(***************************************************************************)
(* TLC instances of NativeScope: `Frame` has a block hole; `Leaf` a single-*)
(* value hole and one word that it demands as a value and, at two sites,   *)
(* as an identifier; `Value`, an expression, demands nothing.              *)
(***************************************************************************)
EXTENDS NativeScope, TLC

CONSTANTS Frame, Leaf, Value, body, key, y, X, Y, Z

Rec(kind, label) == [kind |-> kind, label |-> label]

SmallRecords == [p \in Piece |->
    CASE p = Frame -> <<Rec("block", body), Rec("production", body)>>
      [] p = Leaf -> <<Rec("external", y), Rec("identifier", y), Rec("identifier", y),
                       Rec("scalar", body), Rec("production", body)>>
      [] OTHER -> <<Rec("production", body)>>]
SmallFits == (Piece \X {"block"}) \cup {<<Value, "scalar">>}

Symmetry == Permutations(Name)
=============================================================================
