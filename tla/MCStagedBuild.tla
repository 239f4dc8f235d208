--------------------------- MODULE MCStagedBuild ---------------------------
(* Two stages, over eight shelves of pieces. *)
EXTENDS StagedBuild

Statement(kind, word, hole, body) ==
    [kind |-> kind, word |-> word, hole |-> hole, order |-> 0, ref |-> <<>>, got |-> <<>>, body |-> body]
Code(word) == Statement("code", word, NoHole, <<>>)
Chain(word, targets) ==
    [Statement("if", word, NoHole, <<>>) EXCEPT
        !.got = <<[hole |-> NoHole, word |-> "first"]>> \o
                [k \in DOMAIN targets |-> [hole |-> targets[k], word |-> NoHole]]]
Function(word, hole, own, body) ==
    [Statement("function", word, hole, body) EXCEPT
        !.got = [k \in DOMAIN own |-> [hole |-> NoHole, word |-> own[k]]]]
Piece(makes, body) == [makes |-> makes, body |-> body]

CatalogDef == [
    frame    |-> Piece("block", <<Code("f1"), Statement("hole", "", "h", <<>>), Code("f2")>>),
    maker    |-> Piece("block", <<Function("def", "p", <<>>, <<Statement("hole", "", "k", <<>>)>>)>>),
    signer   |-> Piece("block", <<Function("sign", "p", <<"own">>, <<Code("s1")>>)>>),
    variadic |-> Piece("block", <<Function("vary", "p", <<"own", "args">>, <<Code("v1")>>)>>),
    wrapper  |-> Piece("block", <<Function("wrap", NoHole, <<>>, <<Statement("hole", "", "k", <<>>)>>)>>),
    caller   |-> Piece("block", <<Statement("default", "", "d", <<Code("dflt")>>),
                                  Statement("call", "g", "a", <<>>)>>),
    chooser  |-> Piece("block", <<Chain("if", <<"c">>), Code("c1")>>),
    setter   |-> Piece("block", <<Statement("value", "v", "e", <<>>)>>),
    plain    |-> Piece("block", <<Code("plain")>>),
    params   |-> Piece("params", <<Code("params")>>),
    same     |-> Piece("params", <<Code("same")>>),
    optional |-> Piece("params", <<Code("optional")>>),
    rest     |-> Piece("params", <<Code("rest")>>),
    keywords |-> Piece("params", <<Code("keywords")>>),
    options  |-> Piece("params", <<Code("options")>>),
    branch   |-> Piece("elif", <<Code("branch")>>),
    leaver   |-> Piece("elif", <<Code("leaver")>>),
    one      |-> Piece("expression", <<Code("one")>>),
    args     |-> Piece("arguments", <<Code("args")>>)]
ParameterDef == [
    own      |-> [name |-> "own", kind |-> "required"],
    same     |-> [name |-> "own", kind |-> "required"],
    params   |-> [name |-> "x", kind |-> "required"],
    optional |-> [name |-> "y", kind |-> "defaulted"],
    args     |-> [name |-> "args", kind |-> "star"],
    rest     |-> [name |-> "rest", kind |-> "star"],
    keywords |-> [name |-> "kw", kind |-> "double star"],
    options  |-> [name |-> "opts", kind |-> "double star"]]
ListedDef == <<"X", "Y", "args", "branch", "caller", "chooser", "frame", "keywords", "leaver", "maker", "one",
               "optional", "options", "params", "plain", "rest", "same", "setter", "signer", "variadic", "wrapper">>
ShelvesDef == {
    {"frame", "plain", "maker", "params"}, {"frame", "caller", "one", "args"}, {"plain", "caller", "one", "args"},
    {"frame", "setter", "one", "plain"}, {"frame", "chooser", "branch", "plain"},
    {"signer", "params", "optional"}, {"variadic", "rest", "same", "keywords", "options"},
    {"wrapper", "chooser", "leaver"}}
StagesDef == <<"X", "Y">>
MaxInstancesDef == <<3, 2>>
MaxEdgesDef == <<2, 2>>
Orders == {-1, 0}
AllHabits == {"roots", "inner", "kinds", "order", "clauses", "copies"}
=============================================================================
