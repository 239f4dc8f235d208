------------------------ MODULE MCIdentifierWiring ------------------------
(***************************************************************************)
(* TLC instances of IdentifierWiring: two pieces that supply names and one *)
(* or two that demand them; `ghost` was never registered.                  *)
(***************************************************************************)
EXTENDS IdentifierWiring, TLC

CONSTANTS T1, T2, A, B, ghost, left, right, out, spare

NoNames == [i \in Inst |-> {}]

(* A imports two names, one of which T1 also supplies, B imports one, takes *)
(* two by an arg suffix, one of which both targets supply, and passes one   *)
(* on; T1 itself demands what T2 supplies, and A passes what it imports.    *)
MixedImports == [i \in Inst |->
    CASE i = A -> {left, right} [] i = T1 -> {left} [] i = B -> {right} [] OTHER -> {}]
MixedArgs == [i \in Inst |-> IF i = B THEN {left, out} ELSE {}]
MixedPasses == [i \in Inst |-> CASE i = A -> {left} [] i = B -> {out} [] OTHER -> {}]
MixedSupplies == [i \in Inst |-> CASE i = T1 -> {out, right} [] i = T2 -> {out} [] OTHER -> {}]
MixedDefinitions == [i \in Inst |-> IF i = T2 THEN {spare} ELSE {}]

At(i, n) == [instance |-> i, name |-> n]
Wire(d, s) == [demand |-> d, supply |-> s]

MixedWirings ==
    {Wire(d, s) : d \in {At(A, left), At(A, right), At(B, left), At(T1, left)},
                  s \in {At(T1, out), At(T1, right), At(T2, out), At(T2, spare)}}
        \cup {Wire(At(A, left), At(ghost, out)), Wire(At(B, right), At(T1, out)),
              Wire(At(B, out), At(T2, out)), Wire(At(B, left), At(A, left)),
              Wire(At(T2, left), At(T1, out))}
=============================================================================
