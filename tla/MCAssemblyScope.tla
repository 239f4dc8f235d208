-------------------------- MODULE MCAssemblyScope --------------------------
(***************************************************************************)
(* TLC instance of AssemblyScope: one piece for everything, with a hole    *)
(* and an external demand.                                                 *)
(***************************************************************************)
EXTENDS AssemblyScope

CONSTANTS Frame, body, key, X, Y

Rec(kind, label) == [kind |-> kind, label |-> label]

OnePiece == [p \in Piece |-> <<Rec("block", body), Rec("external", key)>>]
AllFit == Piece \X HoleKinds
=============================================================================
