-------------------------- MODULE LowerMaterialize --------------------------
(***************************************************************************)
(* `AssemblyScope.build` without the builder: the lower plan (one          *)
(* operation per insertion and identifier binding, and one per block hole  *)
(* left to its default) is applied to a copy of every piece's tree,        *)
(* innermost pieces first.  Operations say where they apply by a path      *)
(* taken from the authored tree, while earlier operations of the same      *)
(* build move statements.  A plan the lower engine cannot carry out is     *)
(* declined, and the builder does it instead; some plans make it raise.    *)
(*                                                                         *)
(* A tree is a sequence of nodes.  `at` says which authored statement a    *)
(* node is a copy of: no step of the build reads it, the properties do.    *)
(***************************************************************************)
EXTENDS Integers, Sequences, SequencesExt, FiniteSets, Functions

CONSTANTS
    Template,       \* pieces: [body, makes, demand, keeps, marked]
    Root,           \* those a scope may start with
    NoHole,         \* no hole name
    Order,          \* values of an insertion's order, 0 among them
    MaxInsertions,  \* bound on insertions
    Avoided         \* habits of authors, below, that these authors avoid

VARIABLES
    occurrences,    \* the template of each occurrence; the first is the root
    edges,          \* insertions: [target |-> <<occurrence, path>>, source, order]
    named,          \* occurrences whose identifier demand is bound
    built           \* what the last build returned, while nothing changed

vars == <<occurrences, edges, named, built>>

-----------------------------------------------------------------------------
(* A node: what it is, the name it binds and the name it reads (<<>>: none; *)
(* <<"x", 1>> is `x__astichi_scoped_1`, <<"x", 0>> `x__astichi_arg__`), its *)
(* hole, the nodes put into its expression, call, parameter list or `if`    *)
(* chain, and nested statements (a function's body, the default of a block  *)
(* hole).                                                                   *)
RECURSIVE Planted(_, _, _)
Planted(o, path, statements) ==
    [i \in DOMAIN statements |->
        LET s == statements[i] IN
        [kind |-> s.kind, word |-> s.word, read |-> s.read, hole |-> s.hole,
         fill |-> <<>>, at |-> <<o, Append(path, i)>>,
         body |-> Planted(o, Append(path, i), s.body)]]

Authored(o) == Planted(o, <<>>, occurrences[o].body)

(* The node at a path, as a set: empty where the path leads nowhere. *)
RECURSIVE NodeAt(_, _)
NodeAt(tree, path) ==
    IF Head(path) \notin DOMAIN tree THEN {}
    ELSE IF Len(path) = 1 THEN {tree[Head(path)]}
    ELSE NodeAt(tree[Head(path)].body, Tail(path))

(* The statement at a path gives way to a sequence of statements. *)
RECURSIVE Splice(_, _, _)
Splice(tree, path, nodes) ==
    IF Len(path) = 1
    THEN SubSeq(tree, 1, Head(path) - 1) \o nodes \o SubSeq(tree, Head(path) + 1, Len(tree))
    ELSE [tree EXCEPT ![Head(path)].body = Splice(@, Tail(path), nodes)]

Put(tree, path, node) == Splice(tree, path, <<node>>)

RECURSIVE PathsOf(_)
PathsOf(statements) ==
    {<<i>> : i \in DOMAIN statements} \cup
    UNION {{<<i>> \o p : p \in PathsOf(statements[i].body)} :
              i \in {j \in DOMAIN statements : statements[j].kind = "function"}}

(* Holes inside a default are not offered: PathsOf passes them over. *)
HolesOf(o) == {p \in PathsOf(Authored(o)) : \A n \in NodeAt(Authored(o), p) : n.hole # NoHole}
HoleKind(o, p) == (CHOOSE n \in NodeAt(Authored(o), p) : TRUE).kind

Accepts == [block |-> {"block"}, expression |-> {"expression"}, payload |-> {"expression"},
            call |-> {"expression"}, mapping |-> {"keyword", "display"},
            function |-> {"parameters"}, chain |-> {"branch"}]

(* What a piece hands over where an expression, a parameter, a branch or    *)
(* arguments are asked for: `astichi_funcargs(k = ...)` a keyword, `{...}`  *)
(* a display.                                                               *)
Handed == {"payload", "keyword", "display"}

-----------------------------------------------------------------------------
(* Names.  What a scope binds, as the collectors see it: nested functions   *)
(* by their names, the default of a hole with its bindings.                 *)
Binders == {"code", "import", "function", "expression", "call", "mapping"}

Words(nodes) == {nodes[i].word : i \in DOMAIN nodes} \ {<<>>}

RECURSIVE Bindings(_)
Bindings(nodes) ==
    UNION {IF nodes[i].kind \in Binders THEN {nodes[i].word} \ {<<>>}
           ELSE IF nodes[i].kind = "block" THEN Bindings(nodes[i].body)
           ELSE IF nodes[i].kind = "chain" THEN Words(nodes[i].fill)
           ELSE {} : i \in DOMAIN nodes}

ParameterNames(function) == Words(function.fill)

(* What the innermost scope around a statement binds. *)
RECURSIVE BoundaryNames(_, _)
BoundaryNames(tree, path) ==
    IF Len(path) = 1 THEN Bindings(tree)
    ELSE LET around == tree[Head(path)] IN
         IF Len(path) = 2
         THEN Bindings(around.body) \cup ParameterNames(around)
         ELSE BoundaryNames(around.body, Tail(path))

Fresh(name, unavailable) ==
    Append(name, CHOOSE n \in 1 .. Cardinality(unavailable) + 1 :
                     /\ Append(name, n) \notin unavailable
                     /\ \A k \in 1 .. n - 1 : Append(name, k) \in unavailable)

FreshNames(names, unavailable) == [w \in names |-> Fresh(w, unavailable)]

Respelled(word, spelling) == IF word \in DOMAIN spelling THEN spelling[word] ELSE word

(* Every name in the statements, also inside functions; an import statement *)
(* holds its names as aliases and a keyword is no name: no renamer visits   *)
(* them.                                                                    *)
NotNames == {"import", "keyword"}

RECURSIVE Renamed(_, _)
Renamed(nodes, spelling) ==
    [i \in DOMAIN nodes |->
        [nodes[i] EXCEPT
            !.word = IF nodes[i].kind \in NotNames THEN @ ELSE Respelled(@, spelling),
            !.read = Respelled(@, spelling),
            !.fill = Renamed(@, spelling),
            !.body = Renamed(@, spelling)]]

(* The same, but functions are not entered. *)
RECURSIVE RenamedAtModule(_, _)
RenamedAtModule(nodes, spelling) ==
    [i \in DOMAIN nodes |->
        [nodes[i] EXCEPT
            !.word = IF nodes[i].kind \in NotNames THEN @ ELSE Respelled(@, spelling),
            !.read = Respelled(@, spelling),
            !.fill = IF nodes[i].kind = "function" THEN @ ELSE Renamed(@, spelling),
            !.body = IF nodes[i].kind = "function" THEN @
                     ELSE RenamedAtModule(@, spelling)]]

-----------------------------------------------------------------------------
(* A build, stage by stage.  The first stage that declines or raises ends it. *)
Outcome(s, tree) == [status |-> s, tree |-> tree]
Accepted(tree) == Outcome("accepted", tree)
Declined == Outcome("declined", <<>>)
Raised == Outcome("raised", <<>>)

Then(outcome, Stage(_)) ==
    IF outcome.status = "accepted" THEN Stage(outcome.tree) ELSE outcome

EdgesInto(o, kinds) ==
    {e \in DOMAIN edges : edges[e].target[1] = o /\ HoleKind(o, edges[e].target[2]) \in kinds}

(* The insertions into one hole, in the order they show: by (order, edge). *)
Before(e, f) == edges[e].order < edges[f].order \/ (edges[e].order = edges[f].order /\ e < f)
Ordered(es) == SetToSortSeq(es, Before)
Into(o, path) == {e \in DOMAIN edges : edges[e].target = <<o, path>>}

(* The paths some edges are about, by the first edge of each. *)
TargetsInTurn(es) ==
    LET first == {e \in es : \A f \in es : edges[f].target = edges[e].target => e <= f}
        turn == SetToSortSeq(first, <)
    IN [i \in DOMAIN turn |-> edges[turn[i]].target[2]]

(* The payload of a piece: at its authored path in the piece as built, or   *)
(* else in the authored piece.                                              *)
PayloadOf(e, sources) ==
    LET o == edges[e].source
        place == CHOOSE i \in DOMAIN occurrences[o].body : occurrences[o].body[i].kind \in Handed
        asBuilt == {n \in NodeAt(sources[e].tree, <<place>>) :
                        n.kind = occurrences[o].body[place].kind}
    IN IF asBuilt # {} THEN CHOOSE n \in asBuilt : TRUE ELSE Authored(o)[place]

Payloads(es, sources) ==
    LET turn == Ordered(es) IN [i \in DOMAIN turn |-> PayloadOf(turn[i], sources)]

(* Left over: holes, and names with the suffix of an identifier demand. *)
IsDemand(word) == Len(word) = 2 /\ word[2] = 0

RECURSIVE Unresolved(_)
Unresolved(nodes) ==
    \E i \in DOMAIN nodes :
        \/ nodes[i].hole # NoHole
        \/ IsDemand(nodes[i].word) \/ IsDemand(nodes[i].read)
        \/ Unresolved(nodes[i].fill) \/ Unresolved(nodes[i].body)

(* What no block hole and no chain takes in: these, and comment markers. *)
RECURSIVE Commented(_)
Commented(nodes) ==
    \E i \in DOMAIN nodes : nodes[i].kind = "comment" \/ Commented(nodes[i].body)

Unsupported(nodes) == Unresolved(nodes) \/ Commented(nodes)

(* rewrite_identifier: the name given, wherever the demand is spelled. *)
GivenName == <<"given">>
Identifiers(o, tree) ==
    Accepted(IF o \in named THEN Renamed(tree, occurrences[o].demand :> GivenName) ELSE tree)

(* replace_expression, each in place: no statement moves. *)
Expressions(o, tree, sources) ==
    LET Fill(result, path) ==
            Put(result, path,
                [CHOOSE n \in NodeAt(result, path) : TRUE EXCEPT
                     !.hole = NoHole, !.fill = Payloads(Into(o, path), sources)])
    IN Accepted(FoldLeft(Fill, tree, TargetsInTurn(EdgesInto(o, {"expression", "payload"}))))

(* splice_body_at_marker.  The statement paths of all holes are taken before *)
(* the first splice, and the last statement of the deepest block is first.  *)
RECURSIVE LexicallyBefore(_, _)
LexicallyBefore(p, q) ==
    \/ Head(p) < Head(q)
    \/ Head(p) = Head(q) /\ Len(p) > 1 /\ LexicallyBefore(Tail(p), Tail(q))

(* Mutant: the first hole first. *)
FirstFirst(p, q) == Len(p) < Len(q) \/ (Len(p) = Len(q) /\ LexicallyBefore(p, q))

LastFirst(p, q) == Len(p) > Len(q) \/ (Len(p) = Len(q) /\ LexicallyBefore(q, p))

(* Mutant: the names of one piece are not known to the next. *)
JoinedAlone(sofar, e, sources) ==
    LET tree == sources[e].tree
        bindings == Bindings(tree)
        collisions == sofar.names \cap bindings
        spelling == FreshNames(collisions, sofar.names \cup bindings)
    IN [nodes |-> sofar.nodes \o Renamed(tree, spelling),
        names |-> sofar.names,
        keeps |-> sofar.keeps /\ collisions \cap occurrences[edges[e].source].keeps = {}]

(* Mutant: kept names are renamed like others. *)
JoinedRegardless(sofar, e, sources) ==
    LET tree == sources[e].tree
        bindings == Bindings(tree)
        collisions == sofar.names \cap bindings
        spelling == FreshNames(collisions, sofar.names \cup bindings)
    IN [nodes |-> sofar.nodes \o Renamed(tree, spelling),
        names |-> sofar.names \cup (bindings \ collisions) \cup Range(spelling),
        keeps |-> TRUE]

(* A piece's statements, with those of its names renamed that the scope     *)
(* already has; declined when the piece was compiled to keep one.           *)
Joined(sofar, e, sources) ==
    LET tree == sources[e].tree
        bindings == Bindings(tree)
        collisions == sofar.names \cap bindings
        spelling == FreshNames(collisions, sofar.names \cup bindings)
    IN [nodes |-> sofar.nodes \o Renamed(tree, spelling),
        names |-> sofar.names \cup (bindings \ collisions) \cup Range(spelling),
        keeps |-> sofar.keeps /\ collisions \cap occurrences[edges[e].source].keeps = {}]

(* Mutant: in the order of insertion only. *)
ContributedAsInserted(o, tree, path, sources) ==
    LET Add(sofar, e) == Joined(sofar, e, sources) IN
    FoldLeft(Add, [nodes |-> <<>>, names |-> BoundaryNames(tree, path), keeps |-> TRUE],
             SetToSortSeq(Into(o, path), <))

Contributed(o, tree, path, sources) ==
    LET Add(sofar, e) == Joined(sofar, e, sources) IN
    FoldLeft(Add, [nodes |-> <<>>, names |-> BoundaryNames(tree, path), keeps |-> TRUE],
             Ordered(Into(o, path)))

SpliceHole(o, tree, path, sources) ==
    IF NodeAt(tree, path) = {} THEN Raised
    ELSE IF Into(o, path) = {}
    THEN Accepted(Splice(tree, path, (CHOOSE n \in NodeAt(tree, path) : TRUE).body))
    ELSE LET all == Contributed(o, tree, path, sources) IN
         IF all.keeps /\ \A e \in Into(o, path) : ~Unsupported(sources[e].tree)
         THEN Accepted(Splice(tree, path, all.nodes))
         ELSE Declined

Defaulted(o) ==
    {p \in HolesOf(o) : /\ HoleKind(o, p) = "block"
                        /\ Into(o, p) = {}
                        /\ \A n \in NodeAt(Authored(o), p) : n.body # <<>>}

Blocks(o, tree, sources) ==
    LET targets == {edges[e].target[2] : e \in EdgesInto(o, {"block"})} \cup Defaulted(o)
        Step(outcome, path) == Then(outcome, LAMBDA t : SpliceHole(o, t, path, sources))
    IN FoldLeft(Step, Accepted(tree), SetToSortSeq(targets, LastFirst))

(* splice_parameters: into the function at the authored path if it has this *)
(* hole, or else into the only function of the tree that has one so named.  *)
HasParameterHole(node, name) == node.kind = "function" /\ node.hole = name

FunctionFor(tree, path, name) ==
    IF \E n \in NodeAt(tree, path) : HasParameterHole(n, name) THEN {path}
    ELSE LET found == {p \in PathsOf(tree) : \E n \in NodeAt(tree, p) : HasParameterHole(n, name)}
         IN IF Cardinality(found) = 1 THEN found ELSE {}

SpliceParameters(o, tree, path, sources) ==
    LET name == (CHOOSE n \in NodeAt(Authored(o), path) : TRUE).hole
        parameters == Payloads(Into(o, path), sources)
        words == [i \in DOMAIN parameters |-> parameters[i].word]
        found == FunctionFor(tree, path, name)
    IN IF NodeAt(tree, path) = {} THEN Raised
       ELSE IF found = {} THEN Declined
       ELSE IF ~IsInjective(words) THEN Raised
       ELSE LET where == CHOOSE p \in found : TRUE
                function == CHOOSE n \in NodeAt(tree, where) : TRUE
            IN Accepted(Put(tree, where,
                            [function EXCEPT !.hole = NoHole, !.fill = parameters]))

Parameters(o, tree, sources) ==
    LET Step(outcome, path) == Then(outcome, LAMBDA t : SpliceParameters(o, t, path, sources))
    IN FoldLeft(Step, Accepted(tree), TargetsInTurn(EdgesInto(o, {"function"})))

(* append_clause: the branches take the place of the `if` at the authored   *)
(* path, the rest of the chain behind them.  That is the marker's, or what  *)
(* has come to be there; only an `if` has a path below it.  A hole that its *)
(* piece does not have in a function takes no branch that returns.          *)
Returns(branch) == \E n \in Range(branch.body) : n.kind = "return"

SpliceBranches(o, tree, path, sources) ==
    LET branches == Payloads(Into(o, path), sources)
        here == NodeAt(tree, path)
    IN IF ~\E n \in here : n.kind = "chain" THEN Raised
       ELSE IF \/ \E e \in Into(o, path) : Unsupported(sources[e].tree)
               \/ Len(path) = 1 /\ \E b \in Range(branches) : Returns(b)
       THEN Declined
       ELSE LET chain == CHOOSE n \in here : TRUE IN
            Accepted(Put(tree, path,
                [chain EXCEPT !.hole = NoHole,
                              !.fill = branches \o IF @ = <<>> THEN <<>> ELSE Tail(@)]))

Branches(o, tree, sources) ==
    LET Step(outcome, path) == Then(outcome, LAMBDA t : SpliceBranches(o, t, path, sources))
    IN FoldLeft(Step, Accepted(tree), TargetsInTurn(EdgesInto(o, {"chain"})))

(* splice_call_arguments: into the call that is the value of the statement  *)
(* at the authored path, whatever call that is now.  An assignment has      *)
(* another value; definitions, imports, `if` and `with` have none.  A `*`   *)
(* hole and a `**` hole are in different lists of the call; the first       *)
(* argument a `**` hole cannot take decides.                                *)
Repeats(arguments, i) ==
    /\ arguments[i].kind = "keyword"
    /\ \E k \in 1 .. i - 1 : arguments[k].kind = "keyword" /\ arguments[k].word = arguments[i].word

ArgumentFaults(arguments) ==
    {i \in DOMAIN arguments : arguments[i].kind = "display" \/ Repeats(arguments, i)}

SpliceArguments(o, tree, path, sources) ==
    LET arguments == Payloads(Into(o, path), sources)
        faults == ArgumentFaults(arguments)
        here == NodeAt(tree, path)
    IN IF \A n \in here : n.kind \in {"function", "import", "chain"} THEN Raised
       ELSE IF \E n \in here : n.kind \notin {"call", "mapping"} THEN Declined
       ELSE IF faults # {}
       THEN IF Repeats(arguments, Min(faults)) THEN Raised ELSE Declined
       ELSE LET call == CHOOSE n \in here : TRUE
                own == call.kind = HoleKind(o, path)
            IN Accepted(Put(tree, path,
                [call EXCEPT !.hole = IF own THEN NoHole ELSE @,
                             !.fill = arguments \o IF own /\ @ # <<>> THEN Tail(@) ELSE @]))

Arguments(o, tree, sources) ==
    LET Step(outcome, path) == Then(outcome, LAMBDA t : SpliceArguments(o, t, path, sources))
    IN FoldLeft(Step, Accepted(tree), TargetsInTurn(EdgesInto(o, {"call", "mapping"})))

(* Boundary statements go, managed imports become imports at the top of the *)
(* piece; names of its module scope that they take are renamed.             *)
WithoutBoundary(tree) == SelectSeq(tree, LAMBDA n : n.kind # "boundary")

ManagedImports(tree) ==
    LET managed == SelectSeq(tree, LAMBDA n : n.kind = "managed")
        finals == {managed[i].word : i \in DOMAIN managed}
        others == SelectSeq(tree, LAMBDA n : n.kind # "managed")
        taken == Bindings(others)
        spelling == FreshNames(finals \cap taken, taken \cup finals)
        imports == [i \in DOMAIN managed |-> [managed[i] EXCEPT !.kind = "import"]]
    IN IF Cardinality(finals) < Len(managed) THEN Declined
       ELSE Accepted(imports \o RenamedAtModule(others, spelling))

Applied(o, sources) ==
    LET identifiers == Identifiers(o, Authored(o))
        expressions == Then(identifiers, LAMBDA t : Expressions(o, t, sources))
        blocks      == Then(expressions, LAMBDA t : Blocks(o, t, sources))
        parameters  == Then(blocks, LAMBDA t : Parameters(o, t, sources))
        branches    == Then(parameters, LAMBDA t : Branches(o, t, sources))
        arguments   == Then(branches, LAMBDA t : Arguments(o, t, sources))
    IN Then(arguments, LAMBDA t : ManagedImports(WithoutBoundary(t)))

(* A piece is built after the pieces put into it; the first of them that    *)
(* cannot be built decides.                                                 *)
RECURSIVE Built(_)
Built(o) ==
    LET below == {e \in DOMAIN edges : edges[e].target[1] = o}
        sources == [e \in below |-> Built(edges[e].source)]
        failed == {e \in below : sources[e].status # "accepted"}
    IN IF failed = {} THEN Applied(o, sources)
       ELSE sources[CHOOSE e \in failed : \A f \in failed : e <= f]

LowerBuild == Then(Built(1), LAMBDA t : IF Unresolved(t) THEN Declined ELSE Accepted(t))

-----------------------------------------------------------------------------
NotBuilt == Outcome("none", <<>>)

Init ==
    /\ \E t \in Root : occurrences = <<t>>
    /\ edges = <<>>
    /\ named = {}
    /\ built = NotBuilt

(* A candidate for a hole is applied: a new occurrence, and the edge to it. *)
Insert(o, path, t, order) ==
    /\ Len(edges) < MaxInsertions
    /\ path \in HolesOf(o)
    /\ t.makes \in Accepts[HoleKind(o, path)]
    /\ HoleKind(o, path) \in {"expression", "payload"} => Into(o, path) = {} /\ order = 0
    /\ occurrences' = Append(occurrences, t)
    /\ edges' = Append(edges, [target |-> <<o, path>>, source |-> Len(occurrences) + 1,
                               order |-> order])
    /\ built' = NotBuilt
    /\ UNCHANGED named

Bind(o) ==
    /\ occurrences[o].demand # <<>>
    /\ o \notin named
    /\ named' = named \cup {o}
    /\ built' = NotBuilt
    /\ UNCHANGED <<occurrences, edges>>

Build ==
    /\ built = NotBuilt
    /\ built' = LowerBuild
    /\ UNCHANGED <<occurrences, edges, named>>

Next ==
    \/ \E o \in DOMAIN occurrences :
           \/ \E path \in HolesOf(o), t \in Template, order \in Order : Insert(o, path, t, order)
           \/ Bind(o)
    \/ Build

Spec == Init /\ [][Next]_vars

-----------------------------------------------------------------------------
(* The expansion an assembly stands for: every hole gives way to what was   *)
(* put into it, found by the hole and never by a path, names as authored.   *)
AsGiven(o, word) == IF o \in named /\ word = occurrences[o].demand THEN GivenName ELSE word

RECURSIVE Expansion(_, _, _)
PayloadMeant(o) ==
    CHOOSE n \in Range(Expansion(o, Authored(o), <<>>)) : n.kind \in Handed

Expansion(o, nodes, path) ==
    LET Meant(i) ==
            LET n == nodes[i]
                here == Append(path, i)
                pieces == Ordered(Into(o, here))
                sources == [k \in DOMAIN pieces |-> edges[pieces[k]].source]
            IN CASE n.kind = "boundary" -> <<>>
                 [] n.kind = "block" /\ pieces # <<>> ->
                        FlattenSeq([k \in DOMAIN sources |->
                                        Expansion(sources[k], Authored(sources[k]), <<>>)])
                 [] n.kind = "block" /\ n.body # <<>> -> n.body
                 [] OTHER ->
                        <<[n EXCEPT
                            !.word = AsGiven(o, @), !.read = AsGiven(o, @),
                            !.hole = IF pieces = <<>> THEN @ ELSE NoHole,
                            !.fill = [k \in DOMAIN sources |-> PayloadMeant(sources[k])],
                            !.body = Expansion(o, @, here)]>>
        managed == SelectSeq(nodes, LAMBDA n : n.kind = "managed")
    IN [i \in DOMAIN managed |-> [managed[i] EXCEPT !.kind = "import"]]
       \o FlattenSeq([i \in DOMAIN nodes |-> IF nodes[i].kind = "managed" THEN <<>> ELSE Meant(i)])

(* Names without the numbers that keep them apart. *)
PlainName(word) == IF word = <<>> THEN word ELSE <<Head(word)>>

RECURSIVE Plain(_)
Plain(nodes) ==
    [i \in DOMAIN nodes |->
        [nodes[i] EXCEPT !.word = PlainName(@), !.read = PlainName(@),
                         !.fill = Plain(@), !.body = Plain(@)]]

(* Who binds and reads what in a scope: parameters and statements, without  *)
(* the bodies of nested functions.                                          *)
Sighting(n, word, binds) ==
    [owner |-> n.at[1], plain |-> PlainName(word), spelled |-> word, binds |-> binds]

Sightings(nodes, parameters) ==
    {Sighting(n, n.word, TRUE) :
        n \in {m \in Range(nodes) : m.kind \in Binders /\ m.word # <<>>} \cup Range(parameters)
              \cup UNION {{m \in Range(k.fill) : m.word # <<>>} :
                              k \in {n \in Range(nodes) : n.kind = "chain"}}}
    \cup {Sighting(n, n.read, FALSE) :
        n \in {m \in Range(nodes) \cup UNION {Range(k.fill) : k \in Range(nodes)} :
                    m.read # <<>>}}

(* In a scope, an author's name is one name for all of the author's uses,   *)
(* also where it comes from the scope around, and no other author binds it. *)
RECURSIVE ApartIn(_, _, _)
ApartIn(nodes, parameters, around) ==
    LET here == Sightings(nodes, parameters)
        binding == {s \in here : s.binds}
        outer == {s \in around : ~\E t \in binding : t.owner = s.owner /\ t.plain = s.plain}
        Meets(s, t) == s.owner = t.owner /\ s.plain = t.plain
    IN /\ \A s \in binding \cup outer, t \in here : Meets(s, t) => s.spelled = t.spelled
       /\ \A s \in binding, t \in here :
              /\ s.owner # t.owner
              /\ \E b \in binding \cup outer : Meets(b, t)
              => s.spelled # t.spelled
       /\ \A n \in Range(nodes) :
              n.kind = "function" => ApartIn(n.body, n.fill, binding \cup outer)

-----------------------------------------------------------------------------
(* Habits of authors that lead outside of the promises; `Avoided` says which *)
(* of them these authors do not have.                                       *)
Earlier(p, q) ==
    /\ Len(p) <= Len(q)
    /\ SubSeq(p, 1, Len(p) - 1) = SubSeq(q, 1, Len(p) - 1)
    /\ p[Len(p)] < q[Len(p)]

Received(o, path) ==
    IF Into(o, path) = {} THEN Cardinality(NodeAt(Authored(o), path))
    ELSE LET Total(n, e) == n + Len(Expansion(edges[e].source, Authored(edges[e].source), <<>>))
         IN FoldLeft(Total, 0, Ordered(Into(o, path)))

NamesOf(o) == Bindings(Authored(o))

Habit(h) ==
    CASE h = "holes behind a block" ->
            \E o \in DOMAIN occurrences : \E p \in HolesOf(o), q \in HolesOf(o) :
                /\ HoleKind(o, p) = "block" /\ Received(o, p) # 1
                /\ HoleKind(o, q) \in {"call", "mapping", "function", "chain"} /\ Into(o, q) # {}
                /\ Earlier(p, q)
      [] h = "twin parameters" ->
            \E o \in DOMAIN occurrences : \E p \in HolesOf(o), q \in HolesOf(o) :
                /\ p # q
                /\ HoleKind(o, p) = "function" /\ HoleKind(o, q) = "function"
                /\ \E m \in NodeAt(Authored(o), p), n \in NodeAt(Authored(o), q) :
                       m.hole = n.hole
      [] h = "imports in values" ->
            \E o \in DOMAIN occurrences :
                /\ occurrences[o].makes = "expression"
                /\ \E n \in Range(occurrences[o].body) : n.kind = "boundary"
      [] h = "managed names" ->
            \E o \in DOMAIN occurrences : \E n \in Range(occurrences[o].body) :
                /\ n.kind = "managed"
                /\ \E k \in DOMAIN occurrences :
                       \/ n.word \in NamesOf(k)
                       \/ k # o /\ n.word \in {m.word : m \in Range(occurrences[k].body)}
      [] h = "locals below parameters" ->
            \E e \in DOMAIN edges :
                /\ HoleKind(edges[e].target[1], edges[e].target[2]) = "function"
                /\ \E k \in DOMAIN occurrences : PayloadMeant(edges[e].source).word \in NamesOf(k)
      [] h = "locals below module names" ->
            \E o \in DOMAIN occurrences : \E f \in Range(occurrences[o].body) :
                /\ f.kind = "function"
                /\ \E n \in Range(f.body) : n.kind = "block"
                /\ \E n \in Range(f.body), k \in DOMAIN occurrences \ {o} :
                       n.read \in NamesOf(k)
      [] h = "names in branches" ->
            \E e \in DOMAIN edges :
                /\ HoleKind(edges[e].target[1], edges[e].target[2]) = "chain"
                /\ \E k \in DOMAIN occurrences \ {edges[e].source} :
                       PayloadMeant(edges[e].source).word \in
                           NamesOf(k) \cup Words(occurrences[k].body)
      [] h = "one parameter twice" ->
            \E e \in DOMAIN edges, f \in DOMAIN edges :
                /\ e # f /\ edges[e].target = edges[f].target
                /\ HoleKind(edges[e].target[1], edges[e].target[2]) = "function"
                /\ PayloadMeant(edges[e].source).word = PayloadMeant(edges[f].source).word
      [] h = "kept by marker" ->
            \E o \in DOMAIN occurrences : occurrences[o].marked # {}
      [] h = "kept below others" ->
            \E e \in DOMAIN edges :
                /\ edges[e].target[1] # 1
                /\ ~(occurrences[edges[e].source].keeps \subseteq NamesOf(edges[e].target[1]))
      [] h = "comments in pieces" ->
            \E o \in DOMAIN occurrences \ {1} : Commented(Authored(o))
      [] h = "returns at module level" ->
            \E e \in DOMAIN edges :
                /\ HoleKind(edges[e].target[1], edges[e].target[2]) = "chain"
                /\ Len(edges[e].target[2]) = 1
                /\ Returns(PayloadMeant(edges[e].source))
      [] h = "displays as keywords" ->
            \E o \in DOMAIN occurrences : occurrences[o].makes = "display"
      [] h = "one keyword twice" ->
            \E e \in DOMAIN edges, f \in DOMAIN edges :
                /\ e # f /\ edges[e].target = edges[f].target
                /\ HoleKind(edges[e].target[1], edges[e].target[2]) = "mapping"
                /\ PayloadMeant(edges[e].source).word = PayloadMeant(edges[f].source).word

Promised(habits) == built.status # "none" /\ \A h \in habits \cap Avoided : ~Habit(h)

Complete ==
    \A o \in DOMAIN occurrences :
        /\ occurrences[o].demand # <<>> => o \in named
        /\ \A p \in HolesOf(o) : Into(o, p) # {} \/ p \in Defaulted(o)

-----------------------------------------------------------------------------

(* A build that is accepted holds every piece once, in the hole it was put  *)
(* into, in (order, insertion) order: a path that has come to name another  *)
(* statement never goes unnoticed.                                          *)
AcceptedIsExpansion ==
    built.status = "accepted" /\ Promised({"twin parameters", "imports in values"}) =>
        Plain(built.tree) = Expansion(1, Authored(1), <<>>)

(* Names of different pieces that meet in one Python scope are told apart,  *)
(* and each piece's own uses of a name stay together.                       *)
NamesKeptApart ==
    /\ built.status = "accepted"
    /\ Promised({"managed names", "locals below parameters", "locals below module names",
                 "names in branches"})
    => ApartIn(built.tree, <<>>, {})

(* A name a piece keeps is spelled as authored in whatever is accepted, as  *)
(* long as the piece is not put into one that does not bind the name: whose *)
(* names those are is only looked up one level down.                        *)
RECURSIVE SpelledAsKept(_)
SpelledAsKept(nodes) ==
    \A n \in Range(nodes) :
        /\ \A word \in {n.word, n.read} :
               PlainName(word) \in occurrences[n.at[1]].keeps \cup occurrences[n.at[1]].marked
                   => word = PlainName(word)
        /\ SpelledAsKept(n.fill)
        /\ SpelledAsKept(n.body)

KeptNamesLiteral ==
    built.status = "accepted" /\ Promised({"managed names", "kept by marker", "kept below others"}) =>
        SpelledAsKept(built.tree)

(* An assembly with nothing left open is built without the builder, unless a *)
(* kept name is taken, a comment is put into a hole, a branch returns from a *)
(* module or a display stands for keywords; and it does not raise, unless a *)
(* parameter or a keyword comes twice.                                      *)
CompleteIsAccepted ==
    /\ Complete
    /\ Promised({"holes behind a block", "imports in values", "one parameter twice",
                 "one keyword twice", "displays as keywords", "comments in pieces",
                 "returns at module level"})
    /\ \A o \in DOMAIN occurrences : occurrences[o].keeps = {}
    => built.status = "accepted"
=============================================================================
