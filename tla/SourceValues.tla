---------------------------- MODULE SourceValues ----------------------------
(***************************************************************************)
(* What is computed from the expressions of a piece while it is expanded:  *)
(* the values a marker loop runs over (lowering/unroll_domain.py) and the  *)
(* paths of its references (lowering/external_ref.py).  An expression is a *)
(* record told apart by `kind`: read n (its n-th read of a name), literal  *)
(* v, tuple es, range es, item e i (e[i]), each x e f ([f for x in e]),    *)
(* lambda x e, walrus x e (x := e) and ref e (astichi_ref(e)).  The reads  *)
(* that are settled are replaced by their values first; the others stay.   *)
(***************************************************************************)
EXTENDS Integers, SequencesExt

RECURSIVE Filled(_, _)
(* An expression with the values known for its reads in place. *)
Filled(e, known) ==
    CASE e.kind = "read" -> IF e.n \in DOMAIN known THEN known[e.n] ELSE e
      [] e.kind \in {"tuple", "range"} ->
            [e EXCEPT !.es = [i \in DOMAIN e.es |-> Filled(e.es[i], known)]]
      [] e.kind \in {"lambda", "walrus", "ref"} -> [e EXCEPT !.e = Filled(@, known)]
      [] e.kind = "item" -> [e EXCEPT !.e = Filled(@, known), !.i = Filled(@, known)]
      [] e.kind = "each" -> [e EXCEPT !.e = Filled(@, known), !.f = Filled(@, known)]
      [] OTHER -> e

-----------------------------------------------------------------------------
(* Domains. *)

IsInteger(e) == e.kind = "literal"

RECURSIVE IsLiteral(_)
IsLiteral(e) == \/ e.kind = "literal"
                \/ e.kind = "tuple" /\ \A i \in DOMAIN e.es : IsLiteral(e.es[i])

(* range(stop), range(start, stop), range(start, stop, step); what a domain  *)
(* holds is numbered from 0, as the copies of a loop body are.              *)
RangeValues(args) ==
    LET start == IF Len(args) = 1 THEN 0 ELSE args[1]
        stop  == IF Len(args) = 1 THEN args[1] ELSE args[2]
        step  == IF Len(args) = 3 THEN args[3] ELSE 1
        size  == IF step > 0
                 THEN IF start < stop THEN (stop - start - 1) \div step + 1 ELSE 0
                 ELSE IF start > stop THEN (start - stop - 1) \div (-step) + 1 ELSE 0
    IN [i \in 0..size - 1 |-> [kind |-> "literal", v |-> start + i * step]]

HasDomain(form, known) ==
    LET e == Filled(form, known) IN
    \/ e.kind = "tuple" /\ IsLiteral(e)
    \/ /\ e.kind = "range" /\ Len(e.es) \in 1..3 /\ \A i \in DOMAIN e.es : IsInteger(e.es[i])
       /\ Len(e.es) = 3 => e.es[3].v # 0

Domain(form, known) ==
    LET e == Filled(form, known)
    IN IF e.kind = "tuple" THEN [i \in 0..Len(e.es) - 1 |-> e.es[i + 1]]
       ELSE RangeValues([i \in DOMAIN e.es |-> e.es[i].v])

-----------------------------------------------------------------------------
(* References: what is left in them must be a literal string. *)

RECURSIVE Scalar(_)
(* The literal a compile-time expression reduces to; itself when it does not. *)
Scalar(e) ==
    IF e.kind # "item" THEN e
    ELSE LET from == Scalar(e.e)
             at   == Scalar(e.i)
             j == IF at.kind # "literal" THEN 0 ELSE IF at.v < 0 THEN at.v + Len(from.es) + 1 ELSE at.v + 1
         IN IF from.kind = "tuple" /\ IsLiteral(from) /\ j \in DOMAIN from.es THEN from.es[j] ELSE e

RECURSIVE References(_)
(* The references of an expression, from left to right. *)
References(e) ==
    CASE e.kind = "ref" -> <<e.e>>
      [] e.kind \in {"tuple", "range"} -> FlattenSeq([i \in DOMAIN e.es |-> References(e.es[i])])
      [] e.kind \in {"lambda", "walrus"} -> References(e.e)
      [] e.kind = "item" -> References(e.e) \o References(e.i)
      [] e.kind = "each" -> References(e.e) \o References(e.f)
      [] OTHER -> <<>>

HasPaths(form, known) ==
    \A e \in ToSet(References(Filled(form, known))) : Scalar(e).kind = "literal"

Paths(form, known) ==
    LET es == References(Filled(form, known)) IN [i \in DOMAIN es |-> Scalar(es[i]).v]
=============================================================================
