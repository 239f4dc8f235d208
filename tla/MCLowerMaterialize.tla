------------------------- MODULE MCLowerMaterialize -------------------------
(***************************************************************************)
(* A small catalog of pieces for LowerMaterialize: roots with every kind   *)
(* of hole, some behind others; pieces that share a name, are several      *)
(* statements long or none, hold holes of their own, keep or import names. *)
(***************************************************************************)
EXTENDS LowerMaterialize

CONSTANT none

X == <<"x">>
Y == <<"y">>
M == <<"m">>
Statement(kind, word, read, hole, body) ==
    [kind |-> kind, word |-> word, read |-> read, hole |-> hole, body |-> body]
Code(word, read)     == Statement("code", word, read, none, <<>>)
Block(hole)          == Statement("block", <<>>, <<>>, hole, <<>>)
Fallback(hole, body) == Statement("block", <<>>, <<>>, hole, body)
Call(word, hole)     == Statement("call", word, <<>>, hole, <<>>)
Value(word, hole)    == Statement("expression", word, <<>>, hole, <<>>)
Def(name, hole, body) == Statement("function", name, <<>>, hole, body)
Payload(word, read, hole) == Statement("payload", word, read, hole, <<>>)
Chain(read, hole)    == Statement("chain", <<>>, read, hole, <<>>)
Boundary             == Statement("boundary", <<>>, <<>>, none, <<>>)
Managed(word)        == Statement("managed", word, <<>>, none, <<>>)
Comment              == Statement("comment", <<>>, <<>>, none, <<>>)
Return               == Statement("return", <<>>, <<>>, none, <<>>)
Mapping(word, hole)  == Statement("mapping", word, <<>>, hole, <<>>)
Keyword(word, read)  == Statement("keyword", word, read, none, <<>>)
Display(read)        == Statement("display", <<>>, read, none, <<>>)

Piece(makes, body) ==
    [body |-> body, makes |-> makes, demand |-> <<>>, keeps |-> {}, marked |-> {}]
Blocky(body)  == Piece("block", body)
Demanding(piece, word) == [piece EXCEPT !.demand = word]

Frame == Blocky(<<Block("h"), Code(X, X), Block("t"), Comment>>)
Script == Blocky(<<Managed(M), Block("h"), Call(<<"r">>, "a"), Code(X, M), Value(Y, "e")>>)
Module == Blocky(<<Fallback("h", <<Code(X, <<>>)>>),
                   Def(<<"f">>, "p", <<Code(<<>>, X), Block("k")>>)>>)
Twins == Blocky(<<Fallback("h", <<Code(X, X)>>), Def(<<"f">>, "p", <<>>), Def(<<"g">>, "p", <<>>)>>)
Choice == Blocky(<<Block("h"), Chain(X, "b"), Code(X, X), Chain(X, "c")>>)

Caller == Blocky(<<Def(<<"f">>, none, <<Chain(X, "b")>>), Mapping(<<"r">>, "k")>>)

Short     == Blocky(<<Code(X, X)>>)
Long      == Blocky(<<Code(X, <<>>), Def(Y, none, <<Code(<<>>, X)>>)>>)
Nest      == Demanding(Blocky(<<Code(X, <<"x", 0>>), Block("h")>>), <<"x", 0>>)
Shelter   == Blocky(<<Block("h")>>)
Noted     == Blocky(<<Comment, Code(Y, X)>>)
Keeping   == [Short EXCEPT !.keeps = {X}]
Importer  == [Blocky(<<Managed(M), Code(X, M)>>) EXCEPT !.marked = {X}]
Wanting   == Demanding(Piece("expression", <<Boundary, Payload(<<>>, <<"x", 0>>, none)>>), <<"x", 0>>)
Plainly   == Piece("expression", <<Payload(<<>>, X, none)>>)
Nested    == Piece("expression", <<Payload(<<>>, <<>>, "n")>>)
Parameter == Piece("parameters", <<Payload(Y, <<>>, none)>>)
Branch    == Piece("branch", <<Payload(Y, X, none)>>)
Leaving   == Piece("branch", <<Statement("payload", <<>>, X, none, <<Return>>)>>)
Named     == Piece("keyword", <<Keyword(<<"k">>, X)>>)
Spread    == Piece("display", <<Display(X)>>)

Other     == Piece("keyword", <<Keyword(<<"l">>, <<>>)>>)

Pieces == {Short, Long, Nest, Shelter, Noted, Keeping, Importer,
           Plainly, Nested, Wanting, Parameter, Branch, Leaving, Named, Other, Spread}

Roots == {Frame, Script, Module, Choice, Twins, Caller}
=============================================================================
