------------------------- MODULE MCSourceExpansion -------------------------
(***************************************************************************)
(* Sources of one or two nested statements around one or two more, among   *)
(* them every pair of scopes that can hide a name from each other: x and y *)
(* are loop variables, a and b external names.  They are written as trees  *)
(* and flattened to lines.                                                 *)
(***************************************************************************)
EXTENDS SourceExpansion, SourceValues

Name(x)     == [kind |-> "name", x |-> x]
Literal(v)  == [kind |-> "literal", v |-> v]
Tuple(es)   == [kind |-> "tuple", es |-> es]
RangeOf(es) == [kind |-> "range", es |-> es]
External(x) == [kind |-> "external", x |-> x]
Item(e, i)  == [kind |-> "item", e |-> e, i |-> i]
Each(x, e, f) == [kind |-> "each", x |-> x, e |-> e, f |-> f]
Lambda(x, e)  == [kind |-> "lambda", x |-> x, e |-> e]
Walrus(x, e)  == [kind |-> "walrus", x |-> x, e |-> e]
Ref(e)        == [kind |-> "ref", e |-> e]
Nothing       == Tuple(<<>>)

RECURSIVE Reads(_, _, _)
Reads(e, hidden, deferred) ==
    CASE e.kind \in {"name", "external"} ->
            <<[x |-> e.x, external |-> e.kind = "external", hidden |-> hidden, deferred |-> deferred]>>
      [] e.kind \in {"tuple", "range"} -> FlattenSeq([i \in DOMAIN e.es |-> Reads(e.es[i], hidden, deferred)])
      [] e.kind = "lambda" -> Reads(e.e, hidden \cup {e.x}, TRUE)
      [] e.kind = "each" -> Reads(e.e, hidden, deferred) \o Reads(e.f, hidden \cup {e.x}, TRUE)
      [] e.kind \in {"walrus", "ref"} -> Reads(e.e, hidden, deferred)
      [] e.kind = "item" -> Reads(e.e, hidden, deferred) \o Reads(e.i, hidden, deferred)
      [] OTHER -> <<>>

Count(e) == Len(Reads(e, {}, FALSE))

RECURSIVE Form(_, _)
(* The expression with its reads numbered from n + 1 on. *)
Form(e, n) ==
    CASE e.kind \in {"name", "external"} -> [kind |-> "read", n |-> n + 1]
      [] e.kind \in {"tuple", "range"} ->
            [e EXCEPT !.es = [i \in DOMAIN e.es |-> Form(e.es[i], n + Count(Tuple(SubSeq(e.es, 1, i - 1))))]]
      [] e.kind = "each" -> [e EXCEPT !.e = Form(@, n), !.f = Form(@, n + Count(e.e))]
      [] e.kind = "item" -> [e EXCEPT !.e = Form(@, n), !.i = Form(@, n + Count(e.e))]
      [] e.kind \in {"lambda", "walrus", "ref"} -> [e EXCEPT !.e = Form(@, n)]
      [] OTHER -> e

RECURSIVE Walruses(_, _)
(* The names stored by the walruses of an expression, those in lambdas and  *)
(* comprehensions apart.                                                    *)
Walruses(e, hidden) ==
    CASE e.kind = "walrus" -> (IF hidden THEN {} ELSE {e.x}) \cup Walruses(e.e, hidden)
      [] e.kind \in {"tuple", "range"} -> UNION {Walruses(e.es[i], hidden) : i \in DOMAIN e.es}
      [] e.kind = "lambda" -> IF hidden THEN Walruses(e.e, FALSE) ELSE {}
      [] e.kind = "each" -> IF hidden THEN Walruses(e.e, FALSE) \cup Walruses(e.f, FALSE) ELSE {}
      [] e.kind = "ref" -> Walruses(e.e, hidden)
      [] e.kind = "item" -> Walruses(e.e, hidden) \cup Walruses(e.i, hidden)
      [] OTHER -> {}

Statement(kind, x, variables, e, body) ==
    [kind |-> kind, x |-> x, vars |-> variables, e |-> e, body |-> body]
Evaluate(e)   == Statement("evaluate", "", <<>>, e, <<>>)
Declare(x)    == Statement("external", x, <<>>, External(x), <<>>)
Assign(x, e)  == Statement("assign", x, <<>>, e, <<>>)
Import(x)     == Statement("import", x, <<>>, Nothing, <<>>)
Hole          == Statement("hole", "slot", <<>>, Nothing, <<>>)
Loop(variables, e, body) == Statement("astichi_for", "", variables, e, body)
For(variables, e, body)  == Statement("for", "", variables, e, body)
With(x, e, body)         == Statement("with", x, <<>>, e, body)
Define(params, e, body)  == Statement("define", "f", params, e, body)
Class(e, body)           == Statement("class", "C", <<>>, e, body)
Read(x)       == Evaluate(Name(x))

RECURSIVE Flat(_, _, _)
(* The lines of a block, with n lines before it. *)
Flat(body, around, n) ==
    IF body = <<>> THEN <<>>
    ELSE LET s == Head(body)
             line == [kind |-> s.kind, x |-> s.x, vars |-> s.vars, around |-> around,
                      reads |-> Reads(s.e, {}, FALSE), e |-> Form(s.e, 0),
                      walruses |-> Walruses(s.e, FALSE), hiddenWalruses |-> Walruses(s.e, TRUE)]
             lines == <<line>> \o Flat(s.body, around \cup {n + 1}, n + 1)
         IN lines \o Flat(Tail(body), around, n + Len(lines))

Leaves ==
    {Read("x"), Read("a"), Assign("x", Name("a")), Assign("a", Name("x")), Import("x"), Hole,
     Declare("b"), Evaluate(Ref(Item(Name("a"), Name("x")))),
     Evaluate(Each("x", Name("x"), Name("x"))), Evaluate(Each("a", Name("a"), Name("x"))),
     Evaluate(Lambda("x", Tuple(<<Name("x"), Name("a")>>))), Evaluate(Walrus("x", Name("a")))}

Ends == <<Tuple(<<Literal(0), Name("x")>>), Tuple(<<Name("y"), Literal(1)>>)>>

Around1(body) ==
    {Loop(<<"x">>, Name("a"), body),
     Loop(<<"x">>, RangeOf(<<Literal(1), Literal(-2), Literal(-2)>>), body),
     Loop(<<"x">>, RangeOf(<<Name("x")>>), body),
     Loop(<<"y", "x">>, Tuple(Ends), body),
     Loop(<<"a">>, Tuple(<<Literal(7)>>), body),
     For(<<"x">>, Name("x"), body),
     For(<<"a">>, Name("a"), body),
     With("x", Name("x"), body),
     Define(<<>>, Name("x"), body), Define(<<"x">>, Name("x"), body), Define(<<"a">>, Name("a"), body),
     Class(Nothing, body)}

Bodies == {<<p>> : p \in Leaves} \cup {<<p, q>> : p \in Leaves, q \in {Read("x"), Read("a")}}
Once   == UNION {Around1(body) : body \in Bodies}
Twice  == UNION {Around1(<<s>>) \cup Around1(<<s, Read("x")>>) : s \in Once}

Heads == {<<>>, <<Declare("a")>>, <<Declare("a"), Declare("b")>>}
Tails == {<<>>, <<Read("x"), Read("a")>>}

(* Three deep: a function that stores an external name in a loop that may  *)
(* run no time, and loops in loops in loops; markers of external names     *)
(* where lambdas and loops bind the name, and two in one loop.             *)
Empty == RangeOf(<<Literal(0)>>)
Pair  == Tuple(<<Literal(1), Literal(2)>>)
More ==
    {<<Declare("a"), Define(<<>>, Nothing, <<Loop(<<"x">>, d, <<Assign("a", Name("x"))>>), Read("a")>>), Read("a")>> :
        d \in {Empty, Pair}}
    \cup {<<Declare("a"), Define(<<>>, Nothing,
              <<Loop(<<"x">>, Empty, <<Assign("a", Name("x"))>>), Assign("a", Name("x")), Read("a")>>), Read("a")>>}
    \cup {<<Declare("a"), Loop(<<"x">>, Name("a"), <<Loop(<<"y">>, RangeOf(<<Name("x")>>),
              <<Loop(<<"x">>, d, <<Hole, Evaluate(Tuple(<<Name("x"), Name("y"), Name("a")>>))>>), Read("x")>>), Hole>>)>> :
        d \in {Empty, Pair, RangeOf(<<Name("y"), Name("x")>>), Name("a")}}
    \cup {<<Loop(<<"x">>, Pair, <<Loop(<<"y">>, Name("x"), <<Hole>>)>>), Loop(<<"x">>, Pair, <<Hole, Declare("b"), Declare("a")>>)>>}
    \cup {<<Declare("b"), Evaluate(Lambda("b", External("b"))), Read("b")>>,
          <<Declare("b"), Loop(<<"b">>, Pair, <<Evaluate(External("b")), Read("b")>>), Read("b")>>,
          <<Loop(<<"x">>, Pair, <<Declare("a"), Declare("b")>>), Read("b")>>,
          <<Loop(<<"x">>, Pair, <<Declare("a"), Declare("b"), Evaluate(Tuple(<<Name("a"), Name("x"), External("b")>>))>>), Read("b")>>,
          <<Declare("a"), Define(<<>>, Nothing, <<Evaluate(External("a")), Declare("a"), Read("a")>>)>>,
          <<Declare("a"), Define(<<"a">>, Nothing, <<Evaluate(External("a")), Read("a")>>)>>,
          <<Declare("a"), Define(<<>>, Nothing, <<For(<<"a">>, Name("x"), <<Read("a")>>), Read("a")>>)>>,
          <<Declare("a"), Define(<<>>, Nothing, <<Evaluate(Lambda("x", Walrus("a", Name("x")))), Read("a")>>)>>,
          <<Declare("a"), Class(Nothing, <<Assign("a", Name("x")), Define(<<>>, Nothing, <<Read("a")>>)>>)>>,
          <<Evaluate(Tuple(<<External("a")>>)), Assign("a", Name("x")), Read("a")>>,
          <<Declare("a"), Class(Name("a"), <<Assign("x", Name("a")), Define(<<>>, Name("x"), <<Read("x")>>)>>)>>,
          <<Loop(<<"x">>, Pair, <<Class(Name("x"), <<Assign("x", Literal(0)), Hole>>)>>)>>}

Trees == (Heads \ {<<>>}) \cup {h \o <<s>> \o t : h \in Heads, s \in Once \cup Twice, t \in Tails} \cup More

AllSources == {Flat(body, {}, 0) : body \in Trees}
Values     == [x \in {"a", "b"} |-> IF x = "a" THEN Tuple(<<Literal(0), Literal(5)>>) ELSE Literal(3)]
=============================================================================
