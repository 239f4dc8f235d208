---------------------------- MODULE StagedBuild ----------------------------
(***************************************************************************)
(* Builds in stages.  A stage registers composables, adds some to holes of *)
(* others and builds them into a new composable, which a later stage may   *)
(* register in turn and reach into by the paths of the pieces it is made   *)
(* of.  A build fills no block hole: the hole stays as an anchor, followed *)
(* by one shell per contribution, and materialize splices them.            *)
(*                                                                         *)
(* Beside its tree every composable carries what its authors meant: which  *)
(* pieces were added to which hole of which piece, in which order.  No     *)
(* operation reads that part; the properties compare it with the trees.    *)
(***************************************************************************)
EXTENDS Integers, Sequences, SequencesExt, FiniteSets, Functions, TLC

CONSTANTS
    Catalog,        \* authored pieces by name: [makes, body]
    Listed,         \* all names, in the order the graph lists them in
    Stages,         \* names of what the stages build, in turn
    Shelves,        \* which pieces an author has at hand
    Parameter,      \* the parameter a word of a signature stands for: [name, kind]
    Returning,      \* the branches that return
    NoHole,         \* no hole name
    Order,          \* values of an edge's order, 0 among them
    MaxInstances,   \* bound on the instances of each stage
    MaxEdges,       \* bound on the edges of each stage
    Avoided         \* habits of authors, below, that these authors avoid

VARIABLES
    shelf,          \* composables by name: [tree, holes, makes, meant]
    instances,      \* the names registered in this stage
    edges,          \* [root, ref, hole, source, order], as added
    output          \* the last outcome: [status, of, tree]

vars == <<shelf, instances, edges, output>>

-----------------------------------------------------------------------------
(* A statement: [kind, word, hole, order, ref, got, body].  `got` lists the *)
(* arguments of a call, the value of an assignment, the parameters of a     *)
(* function, its own ones first, or the branches of an `if`; `body` its     *)
(* nested statements.  A payload of parameters has one parameter.           *)
Anchors == {"hole", "root hole"}
Shells  == {"shell", "params shell", "elif shell"}

Targets(s) == ({s.hole} \cup {g.hole : g \in Range(s.got)}) \ {NoHole}

(* The holes of a body, those of the pieces put into it left out. *)
RECURSIVE HolesIn(_)
HolesIn(body) ==
    UNION {IF s.kind \in Shells \cup {"root hole"} THEN {}
           ELSE IF s.kind = "default" THEN {s.hole}
           ELSE Targets(s) \cup HolesIn(s.body) : s \in Range(body)}

(* All block shells of a tree, wherever they are. *)
RECURSIVE ShellsOf(_)
ShellsOf(body) ==
    FlattenSeq([i \in DOMAIN body |->
        SelectSeq(<<body[i]>>, LAMBDA s : s.kind = "shell") \o ShellsOf(body[i].body)])

ShellsAt(tree, ref) == SelectSeq(ShellsOf(tree), LAMBDA s : s.ref = ref)

(* The tree of one root is wrapped: its pieces are found below the wrapper. *)
Wrapped(tree) ==
    /\ Len(tree) = 2 /\ tree[1].kind = "root hole"
    /\ tree[2].kind = "shell" /\ tree[2].hole = tree[1].hole

Effective(tree) == IF Wrapped(tree) THEN tree[2].body ELSE tree
Promoted(tree, ref) == IF ref = <<>> /\ Wrapped(tree) THEN tree[2].ref ELSE ref

UniqueRefs(tree) == \A s \in Range(ShellsOf(tree)) : Len(ShellsAt(tree, s.ref)) = 1

(* What a reference leads to, as a sequence: one body if it is sound. *)
Resolved(tree, ref) ==
    IF ref = <<>> THEN <<tree>> ELSE [i \in DOMAIN ShellsAt(tree, ref) |-> ShellsAt(tree, ref)[i].body]

(* The kind of the demand of that name, anywhere in the tree. *)
PortKind == [hole |-> "block", default |-> "block", value |-> "value", call |-> "call",
             function |-> "params", if |-> "elif"]
RECURSIVE Ports(_, _)
Ports(body, hole) ==
    UNION {(IF s.kind \in DOMAIN PortKind /\ hole \in Targets(s) THEN {PortKind[s.kind]} ELSE {})
              \cup Ports(s.body, hole) : s \in Range(body)}

(* For comparison: as if the paths inside a piece stayed as they were. *)
PrefixedAtTop(body, prefix) ==
    [i \in DOMAIN body |-> [body[i] EXCEPT !.ref = IF body[i].kind = "shell" THEN prefix \o @ ELSE @]]

RECURSIVE Prefixed(_, _)
Prefixed(body, prefix) ==
    [i \in DOMAIN body |->
        [body[i] EXCEPT !.ref = IF body[i].kind = "shell" THEN prefix \o @ ELSE @,
                        !.body = Prefixed(@, prefix)]]

-----------------------------------------------------------------------------
EdgesOf(i) == {e \in DOMAIN edges : edges[e].root = i}
KeyOf(e) == <<Promoted(shelf[edges[e].root].tree, edges[e].ref), edges[e].hole>>

(* A build.  The edges into one hole of one body, in the order they show. *)
BeforeByAge(e, f) == e < f \* for comparison: as if every edge had the same order

Before(e, f) == edges[e].order < edges[f].order \/ (edges[e].order = edges[f].order /\ e < f)

Shell(kind, word, e, body) ==
    [kind |-> kind, word |-> word, hole |-> edges[e].hole, order |-> edges[e].order,
     ref |-> Append(edges[e].ref, edges[e].source), got |-> <<>>, body |-> body]

Word(tree) == Effective(tree)[1].word
Makes(n) == shelf[n].makes

(* What an edge puts into the tree of its target, given that of its source. *)
Contribution(e, tree) ==
    LET kinds == Ports(shelf[edges[e].root].tree, edges[e].hole) IN
    CASE "elif" \in kinds   -> Shell("elif shell", Word(tree), e, <<>>)
      [] "params" \in kinds -> Shell("params shell", Word(tree), e, <<>>)
      [] kinds \cap {"value", "call"} # {} -> Shell("insert", Word(tree), e, <<>>)
      [] OTHER -> Shell("shell", edges[e].source, e,
                        Prefixed(tree, Append(edges[e].ref, edges[e].source)))

Inserts(additions) == [k \in DOMAIN additions |-> [hole |-> NoHole, word |-> additions[k].word]]

(* One body: an anchor is followed by the shells of its contributions, a    *)
(* function or an `if` by those of its parameters or branches; a call keeps *)
(* its anchor first.  Shells already there and defaults are passed over.    *)
Into(into, hole) == IF hole \in DOMAIN into THEN into[hole] ELSE <<>>
WithShells(s, into) == <<s>> \o Into(into, s.hole)
WithValue(s, into) == [s EXCEPT !.hole = NoHole, !.got = Inserts(into[s.hole])]
WithArguments(s, into) == [s EXCEPT !.got = Inserts(Into(into, s.hole)) \o @]
BranchesFor(s, into) == FlattenSeq([g \in DOMAIN s.got |-> Into(into, s.got[g].hole)])

RECURSIVE Filled(_, _)
Filled(body, into) ==
    LET inner(s) == [s EXCEPT !.body = Filled(@, into)]
        Put(s) ==
            CASE s.kind \in Anchors \cup {"default"} -> WithShells(s, into)
              [] s.kind = "value" /\ s.hole \in DOMAIN into -> <<WithValue(s, into)>>
              [] s.kind = "call" -> <<WithArguments(s, into)>>
              [] s.kind = "function" -> WithShells(inner(s), into)
              [] s.kind = "if" -> <<inner(s)>> \o BranchesFor(s, into)
              [] OTHER -> <<s>>
    IN FlattenSeq([i \in DOMAIN body |-> Put(body[i])])

(* From a body into the shells that are statements of it. *)
RECURSIVE Replaced(_, _, _)
Replaced(body, ref, additions) ==
    LET here == {key \in DOMAIN additions : key[1] = ref}
        into == [hole \in {key[2] : key \in here} |-> additions[<<ref, hole>>]]
        filled == Filled(body, into)
    IN [i \in DOMAIN filled |->
          IF filled[i].kind = "shell"
          THEN [filled[i] EXCEPT !.body = Replaced(@, filled[i].ref, additions)]
          ELSE filled[i]]

(* The tree of an instance, its sources' trees put in first. *)
RECURSIVE Merged(_)
Merged(i) ==
    LET keys == {KeyOf(e) : e \in EdgesOf(i)}
        Turn(key) == SetToSortSeq({e \in EdgesOf(i) : KeyOf(e) = key}, Before)
        additions == [key \in keys |->
            [k \in DOMAIN Turn(key) |->
                Contribution(Turn(key)[k], Merged(edges[Turn(key)[k]].source))]]
    IN Replaced(shelf[i].tree, <<>>, additions)

(* What a build refuses of an edge. *)
EdgeRefused(e) ==
    LET tree == shelf[edges[e].root].tree
        ref == Promoted(tree, edges[e].ref)
        kinds == Ports(tree, edges[e].hole)
        makes == Makes(edges[e].source)
        others == {f \in EdgesOf(edges[e].root) : KeyOf(f) = KeyOf(e)}
    IN \/ Len(Resolved(tree, ref)) # 1
       \/ ref # <<>> /\ edges[e].hole \notin HolesIn(Resolved(tree, ref)[1])
       \/ ("elif" \in kinds) /\ makes # "elif"
       \/ (makes = "params") # ("params" \in kinds)
       \/ kinds \cap {"value", "call"} # {} /\ makes \notin {"expression", "arguments"}
       \/ "value" \in kinds /\ Cardinality(others) # 1

(* A root in its scope of its own; the wrapper of an earlier stage goes. *)
RootHole(i) ==
    [kind |-> "root hole", word |-> i, hole |-> i, order |-> 0, ref |-> <<>>, got |-> <<>>, body |-> <<>>]
InRootScope(i) ==
    <<RootHole(i),
      [RootHole(i) EXCEPT !.kind = "shell", !.ref = <<i>>,
                          !.body = Prefixed(Effective(Merged(i)), <<i>>)]>>

IsRoot(i) == \A e \in DOMAIN edges : edges[e].source # i
Roots == SelectSeq(Listed, LAMBDA n : n \in instances /\ IsRoot(n))
BuiltTree == FlattenSeq([k \in DOMAIN Roots |-> InRootScope(Roots[k])])

(* Every hole of every occurrence stays known by its name, those of calls   *)
(* that have their arguments excepted.                                      *)
RECURSIVE Bodies(_)
Bodies(body) == {body} \cup UNION {Bodies(s.body) : s \in Range(body)}

SuppliedCalls(body) == UNION {Targets(s) : s \in {c \in Range(body) : c.kind = "call" /\ c.got # <<>>}}

RECURSIVE HolesBelow(_)
HolesBelow(i) ==
    (shelf[i].holes \ UNION {SuppliedCalls(b) : b \in Bodies(Merged(i))})
        \cup UNION {HolesBelow(edges[e].source) : e \in EdgesOf(i)}

-----------------------------------------------------------------------------
(* Materialization.  A default gives way to an anchor where a shell beside  *)
(* it takes its place, and to its own statements elsewhere.                 *)
RECURSIVE Normalized(_)
Normalized(body) ==
    LET taken == {s.hole : s \in {t \in Range(body) : t.kind = "shell"}}
        Choice(s) ==
            IF s.kind # "default" THEN <<[s EXCEPT !.body = Normalized(@)]>>
            ELSE IF s.hole \in taken THEN <<[s EXCEPT !.kind = "hole", !.body = <<>>]>>
            ELSE Normalized(s.body)
    IN FlattenSeq([i \in DOMAIN body |-> Choice(body[i])])

OfKind(body, kinds) == {s \in Range(body) : s.kind \in kinds}
HolesOfKind(body, kinds) == UNION {Targets(s) : s \in OfKind(body, kinds)}

(* Anchors and shells are matched list by list, ... *)
Matches == {<<Anchors, {"shell"}>>, <<{"if"}, {"elif shell"}>>, <<{"function"}, {"params shell"}>>}
Satisfied(body) ==
    UNION {HolesOfKind(body, m[1]) \cap HolesOfKind(body, m[2]) : m \in Matches}
        \cup SuppliedCalls(body)
Unmatched(body) == UNION {HolesOfKind(body, m[2]) \ HolesOfKind(body, m[1]) : m \in Matches}

(* ... but a demand counts as met when some hole of its name is. *)
GateRefuses(tree) ==
    LET demanded == UNION {HolesOfKind(b, DOMAIN PortKind \cup Anchors) : b \in Bodies(tree)}
        met == UNION {Satisfied(b) : b \in Bodies(tree)}
    IN demanded \ met # {} \/ \E b \in Bodies(tree) : Unmatched(b) # {}

(* Contributions to one target of a list, in the order they are put in. *)
InTurn(body, kind, hole) ==
    LET mine == {i \in DOMAIN body : body[i].kind = kind /\ body[i].hole = hole}
        First(i, j) == body[i].order < body[j].order \/ (body[i].order = body[j].order /\ i < j)
        turn == SetToSortSeq(mine, First)
    IN [k \in DOMAIN turn |-> body[turn[k]]]

IsBeside(body, kind, hole) == \E s \in OfKind(body, {kind}) : s.hole = hole
Plain(shell) == [hole |-> NoHole, word |-> shell.word]

(* The signature of a function with the parameters of those shells; what    *)
(* stands after a `*` has a place of its own whenever it comes.             *)
Ordinary == {"required", "defaulted"}
Signature(f, shells) ==
    [k \in DOMAIN f.got |-> Parameter[f.got[k].word]] \o
    [k \in DOMAIN shells |-> Parameter[shells[k].word]]

RequiredAfterDefault(signature) ==
    \E i, j \in DOMAIN signature :
        i < j /\ signature[i].kind = "defaulted" /\ signature[j].kind = "required"

Several(signature, kind) ==
    Cardinality({i \in DOMAIN signature : signature[i].kind = kind}) > 1

Duplicates(signature) == ~IsInjective([k \in DOMAIN signature |-> signature[k].name])

Twins(body, f) == {i \in DOMAIN body : body[i].kind = "function" /\ body[i].hole = f.hole}

(* The parameters of a list's functions; the shells of those found go. *)
ParametersOfTwins(body) == \* for comparison: as if two parameters could have one name
    \E f \in OfKind(body, {"function"}) :
        LET mine == InTurn(body, "params shell", f.hole)
            signature == Signature(f, mine)
        IN /\ mine # <<>>
           /\ \/ Cardinality(Twins(body, f)) > 1
              \/ RequiredAfterDefault(signature)
              \/ \E kind \in {"star", "double star"} : Several(signature, kind)

ParametersRefused(body) ==
    \E f \in OfKind(body, {"function"}) :
        LET mine == InTurn(body, "params shell", f.hole)
            signature == Signature(f, mine)
        IN /\ mine # <<>>
           /\ \/ Cardinality(Twins(body, f)) > 1
              \/ RequiredAfterDefault(signature)
              \/ \E kind \in {"star", "double star"} : Several(signature, kind)
              \/ Duplicates(signature)

RECURSIVE WithParameters(_)
WithParameters(body) ==
    LET served == HolesOfKind(body, {"function"})
        kept == SelectSeq(body, LAMBDA s : s.kind # "params shell" \/ s.hole \notin served)
    IN [i \in DOMAIN kept |->
          LET s == kept[i]
              mine == InTurn(body, "params shell", s.hole)
          IN IF s.kind = "function" /\ mine # <<>>
             THEN [s EXCEPT !.hole = NoHole, !.got = @ \o [k \in DOMAIN mine |-> Plain(mine[k])],
                            !.body = WithParameters(@)]
             ELSE [s EXCEPT !.body = WithParameters(@)]]

(* Innermost lists first, an anchor gives way to the bodies of its shells.  *)
Spliced(body) ==
    LET anchored == HolesOfKind(body, Anchors)
        Instead(s) ==
            IF s.kind \in Anchors /\ IsBeside(body, "shell", s.hole)
            THEN LET mine == InTurn(body, "shell", s.hole) IN FlattenSeq([k \in DOMAIN mine |-> mine[k].body])
            ELSE IF s.kind = "shell" /\ s.hole \in anchored THEN <<>> ELSE <<s>>
    IN FlattenSeq([i \in DOMAIN body |-> Instead(body[i])])

RECURSIVE Flattened(_)
Flattened(body) == Spliced([i \in DOMAIN body |-> [body[i] EXCEPT !.body = Flattened(@)]])

(* A chain takes the branches of the first of its targets that has any.  *)
ServedTarget(s, body) ==
    LET served == {g \in DOMAIN s.got : IsBeside(body, "elif shell", s.got[g].hole)} IN
    IF s.kind # "if" \/ served = {} THEN {}
    ELSE {CHOOSE g \in served : \A h \in served : g <= h}

Branched(s, body) ==
    FlattenSeq([g \in DOMAIN s.got |->
        IF g \notin ServedTarget(s, body) THEN <<s.got[g]>>
        ELSE LET mine == InTurn(body, "elif shell", s.got[g].hole) IN [k \in DOMAIN mine |-> Plain(mine[k])]])

(* No branch that returns may come to stand outside every function. *)
RECURSIVE ReturnsOutside(_)
ReturnsOutside(body) ==
    \E s \in Range(body) :
        \/ \E g \in ServedTarget(s, body) :
              \E b \in Range(InTurn(body, "elif shell", s.got[g].hole)) : b.word \in Returning
        \/ s.kind # "function" /\ ReturnsOutside(s.body)

RECURSIVE WithBranches(_)
WithBranches(body) ==
    LET gone == UNION {{s.got[g].hole : g \in ServedTarget(s, body)} : s \in Range(body)}
        kept == SelectSeq(body, LAMBDA s : s.kind # "elif shell" \/ s.hole \notin gone)
    IN [i \in DOMAIN kept |->
          [kept[i] EXCEPT !.got = IF kept[i].kind = "if" THEN Branched(kept[i], body) ELSE @,
                          !.body = WithBranches(@)]]

RECURSIVE WithoutCallAnchors(_)
WithoutCallAnchors(body) ==
    [i \in DOMAIN body |-> [body[i] EXCEPT !.hole = IF body[i].kind = "call" THEN NoHole ELSE @,
                                           !.body = WithoutCallAnchors(@)]]

MisplacedArguments(body) ==
    \E s \in OfKind(body, {"value"}) : \E g \in Range(s.got) :
        g.word \in DOMAIN Catalog /\ Catalog[g.word].makes = "arguments"

(* The passes up to the one that puts the branches in place. *)
InPlace(normal) == Flattened(WithoutCallAnchors(WithParameters(normal)))

MaterializeRefuses(tree) ==
    LET normal == Normalized(tree) IN
    \/ GateRefuses(normal)
    \/ \E b \in Bodies(normal) : ParametersRefused(b) \/ MisplacedArguments(b)
    \/ ReturnsOutside(InPlace(normal))

Materialized(tree) == WithBranches(InPlace(Normalized(tree)))

-----------------------------------------------------------------------------
(* What is meant: nodes [ref, piece, adds], `ref` the path the piece is     *)
(* reached by, `adds` what was added to it: [hole, order, nodes], in turn.  *)
RECURSIVE Below(_, _)
Below(nodes, prefix) ==
    [i \in DOMAIN nodes |->
        [nodes[i] EXCEPT !.ref = prefix \o @,
                         !.adds = [k \in DOMAIN @ |-> [@[k] EXCEPT !.nodes = Below(@, prefix)]]]]

(* The nodes an edge is about: the roots with the hole, or that of its path. *)
HolesOfPiece(n) == UNION {UNION {Targets(s) : s \in Range(b)} : b \in Bodies(Catalog[n.piece].body)}
AimsAt(edge, n) ==
    IF edge.ref # <<>> THEN n.ref = edge.ref
    ELSE n \in Range(shelf[edge.root].meant) /\ edge.hole \in HolesOfPiece(n)

RECURSIVE Meant(_), Extended(_, _)
Extended(nodes, es) ==
    [i \in DOMAIN nodes |->
        LET mine == SetToSortSeq({e \in es : AimsAt(edges[e], nodes[i])}, <) IN
        [nodes[i] EXCEPT !.adds =
            [k \in DOMAIN @ |-> [@[k] EXCEPT !.nodes = Extended(@, es)]] \o
            [k \in DOMAIN mine |->
                [hole |-> edges[mine[k]].hole, order |-> edges[mine[k]].order,
                 nodes |-> Below(Meant(edges[mine[k]].source),
                                 Append(edges[mine[k]].ref, edges[mine[k]].source))]]]]
Meant(i) == Extended(shelf[i].meant, EdgesOf(i))

MeantAsRoot(i) ==
    LET nodes == Below(Meant(i), <<i>>) IN
    IF Len(nodes) = 1 THEN <<[nodes[1] EXCEPT !.ref = <<i>>]>> ELSE nodes

BuiltMeaning == FlattenSeq([k \in DOMAIN Roots |-> MeantAsRoot(Roots[k])])

(* The code a meaning stands for: what was added to a hole in its place, by *)
(* (order, first added).                                                    *)
AddsTo(node, hole) ==
    LET mine == {k \in DOMAIN node.adds : node.adds[k].hole = hole}
        First(j, k) == node.adds[j].order < node.adds[k].order
                           \/ (node.adds[j].order = node.adds[k].order /\ j < k)
        turn == SetToSortSeq(mine, First)
    IN [k \in DOMAIN turn |-> node.adds[turn[k]].nodes]

WordsAt(node, hole) ==
    [k \in DOMAIN AddsTo(node, hole) |-> [hole |-> NoHole, word |-> AddsTo(node, hole)[k][1].piece]]

RECURSIVE Expansion(_), ExpandedBody(_, _)
Expansion(nodes) ==
    FlattenSeq([i \in DOMAIN nodes |-> ExpandedBody(Catalog[nodes[i].piece].body, nodes[i])])
ExpandedBody(body, node) ==
    LET Expanded(s) ==
            LET added == AddsTo(node, s.hole)
                plain == [s EXCEPT !.hole = NoHole, !.body = ExpandedBody(@, node)]
            IN CASE s.kind = "hole" \/ (s.kind = "default" /\ added # <<>>) ->
                        FlattenSeq([k \in DOMAIN added |-> Expansion(added[k])])
                 [] s.kind = "default" /\ added = <<>> -> s.body
                 [] s.kind \in {"value", "call", "function"} ->
                        <<[plain EXCEPT !.got = @ \o WordsAt(node, s.hole)]>>
                 [] s.kind = "if" ->
                        <<[plain EXCEPT !.got = FlattenSeq([g \in DOMAIN @ |->
                            IF @[g].hole = NoHole THEN <<@[g]>> ELSE WordsAt(node, @[g].hole)])]>>
                 [] OTHER -> <<s>>
    IN FlattenSeq([i \in DOMAIN body |-> Expanded(body[i])])

(* Every node below, the nodes themselves included. *)
RECURSIVE NodesOf(_)
NodesOf(nodes) ==
    FlattenSeq([i \in DOMAIN nodes |->
        <<nodes[i]>> \o FlattenSeq([k \in DOMAIN nodes[i].adds |-> NodesOf(nodes[i].adds[k].nodes)])])

(* A signature Python can have. *)
LegalSignature(words) ==
    LET kinds == [i \in DOMAIN words |-> Parameter[words[i].word].kind]
        Of(which) == {i \in DOMAIN words : kinds[i] \in which}
    IN /\ \A i, j \in DOMAIN words :
             i # j => Parameter[words[i].word].name # Parameter[words[j].word].name
       /\ \A i \in Of({"required"}), j \in Of({"defaulted"}) : i < j
       /\ Cardinality(Of({"star"})) <= 1 /\ Cardinality(Of({"double star"})) <= 1

(* No branch that returns is added to a target outside every function. *)
RECURSIVE HolesOutside(_), ReturnsInside(_)
HolesOutside(body) ==
    UNION {Targets(s) \cup (IF s.kind = "function" THEN {} ELSE HolesOutside(s.body)) : s \in Range(body)}
ReturnsInside(nodes) ==
    \A n \in Range(nodes) :
        n.piece \notin Returning /\
        \A a \in Range(n.adds) :
            a.hole \in HolesOutside(Catalog[n.piece].body) => ReturnsInside(a.nodes)

(* Nothing is missing and nothing is put where it does not fit. *)
WellFilled(nodes) ==
    /\ ReturnsInside(nodes)
    /\ \A n \in Range(NodesOf(nodes)) : \A b \in Bodies(Catalog[n.piece].body) : \A s \in Range(b) :
        /\ s.kind # "default" => \A h \in Targets(s) : AddsTo(n, h) # <<>>
        /\ s.kind = "value" /\ s.hole # NoHole =>
              Len(AddsTo(n, s.hole)) = 1 /\ Catalog[AddsTo(n, s.hole)[1][1].piece].makes # "arguments"
        /\ s.kind = "function" => LegalSignature(s.got \o WordsAt(n, s.hole))
        /\ s.kind \in {"hole", "default"} => \A k \in DOMAIN AddsTo(n, s.hole) :
              \A m \in Range(AddsTo(n, s.hole)[k]) : Catalog[m.piece].makes \in {"block", "expression"}

-----------------------------------------------------------------------------
Silent == [status |-> "none", of |-> NoHole, tree |-> <<>>]
Authored(n) ==
    [tree |-> Catalog[n].body, holes |-> HolesIn(Catalog[n].body), makes |-> Catalog[n].makes,
     meant |-> <<[ref |-> <<>>, piece |-> n, adds |-> <<>>]>>]

Init ==
    /\ \E pieces \in Shelves : shelf = [n \in pieces |-> Authored(n)]
    /\ instances = {} /\ edges = <<>>
    /\ output = Silent

BuiltSoFar == SelectSeq(Stages, LAMBDA n : n \in DOMAIN shelf)
Stage == Len(BuiltSoFar) + 1
MoreToBuild == Stage <= Len(Stages)
(* A composable is registered under its own name; one in which a path leads *)
(* to two pieces is refused.  A later stage starts with what the earlier    *)
(* built.                                                                   *)
Register(n) ==
    /\ MoreToBuild /\ Cardinality(instances) < MaxInstances[Stage] /\ edges = <<>>
    /\ n \notin instances /\ UniqueRefs(shelf[n].tree)
    /\ BuiltSoFar # <<>> /\ instances = {} => n = Last(BuiltSoFar)
    /\ instances' = instances \cup {n}
    /\ output' = Silent
    /\ UNCHANGED <<shelf, edges>>

(* What the edges lead to from an instance: an edge back would be a cycle. *)
RECURSIVE SourcesBelow(_)
SourcesBelow(i) == {i} \cup UNION {SourcesBelow(edges[e].source) : e \in EdgesOf(i)}

(* Where an edge may be aimed, as the handles check it. *)
RegisteredBodies(i, ref) ==
    IF ref = <<>> THEN <<Effective(shelf[i].tree)>> ELSE Resolved(shelf[i].tree, ref)

(* Habits.  No author gives a piece the name of one its target holds: two   *)
(* pieces would answer to one path.  The others can be avoided or not.      *)
Names(tree) == UNION {Range(s.ref) : s \in Range(ShellsOf(tree))}

RECURSIVE DirectRefs(_)
DirectRefs(body) ==
    UNION {{s.ref} \cup DirectRefs(s.body) : s \in OfKind(body, {"shell"})}

EarlierAdds(edge) ==
    LET there == {n \in Range(NodesOf(shelf[edge.root].meant)) : AimsAt(edge, n)}
    IN {a \in UNION {Range(n.adds) : n \in there} : a.hole = edge.hole}

Habits(edge) ==
    LET target == shelf[edge.root]
        kinds == Ports(target.tree, edge.hole)
        Shown == [
            roots |-> edge.ref = <<>> /\ Len(target.meant) > 1,
            inner |-> edge.ref # <<>> /\ Promoted(target.tree, edge.ref) \notin DirectRefs(target.tree),
            kinds |-> "block" \in kinds /\ Makes(edge.source) \in {"elif", "arguments"},
            order |-> \E a \in EarlierAdds(edge) : a.order = edge.order \/ "call" \in kinds]
    IN {h \in DOMAIN Shown : Shown[h]}

SomethingToOrder(edge) ==
    EarlierAdds(edge) # {} \/ \E f \in Range(edges) : f.root = edge.root /\ f.hole = edge.hole

Connect(edge) ==
    LET bodies == RegisteredBodies(edge.root, edge.ref) IN
    /\ MoreToBuild /\ Len(edges) < MaxEdges[Stage]
    /\ edge.root \notin SourcesBelow(edge.source)
    /\ Len(bodies) = 1
    /\ edge.hole \in HolesIn(bodies[1]) \cup shelf[edge.root].holes
    /\ edge.source \notin Names(shelf[edge.root].tree)
    /\ Habits(edge) \cap Avoided = {}
    /\ edge.order # 0 => SomethingToOrder(edge)
    /\ edges' = Append(edges, edge)
    /\ output' = Silent
    /\ UNCHANGED <<shelf, instances>>

(* `build()`.  A refusal leaves the graph as it is; a success gives the     *)
(* composable later stages know.  A payload is no root beside others.       *)
BuildRefused ==
    /\ instances # {} /\ MoreToBuild
    /\ \E e \in DOMAIN edges : EdgeRefused(e)
    /\ output' = [Silent EXCEPT !.status = "not built"]
    /\ UNCHANGED <<shelf, instances, edges>>

Built == [tree |-> BuiltTree, meant |-> BuiltMeaning,
          holes |-> UNION {HolesBelow(i) : i \in Range(Roots)},
          makes |-> IF Len(Roots) = 1 THEN Makes(Roots[1]) ELSE "block"]

Build ==
    /\ instances # {} /\ MoreToBuild
    /\ \A e \in DOMAIN edges : ~EdgeRefused(e)
    /\ Len(Roots) > 1 => \A i \in Range(Roots) : Makes(i) = "block"
    /\ shelf' = shelf @@ (Stages[Stage] :> Built)
    /\ instances' = {} /\ edges' = <<>>
    /\ output' = Silent

(* What authors keep from materializing: an `elif` target that occurs twice *)
(* or beside another, a hole that one copy of a piece leaves open while     *)
(* another of its name is filled.                                           *)
TargetsOfPiece(n) == UNION {HolesOfKind(b, {"if"}) : b \in Bodies(Catalog[n.piece].body)}

SideBySide(nodes) ==
    \/ \E n \in Range(nodes) : Cardinality(TargetsOfPiece(n)) > 1
    \/ \E i, j \in DOMAIN nodes : i # j /\ TargetsOfPiece(nodes[i]) \cap TargetsOfPiece(nodes[j]) # {}

HalfOpen(nodes) ==
    \E m, n \in Range(nodes) : \E h \in HolesOfPiece(m) \cap HolesOfPiece(n) :
        AddsTo(m, h) = <<>> /\ AddsTo(n, h) # <<>>

Materialize(n) ==
    LET tree == shelf[n].tree
        nodes == NodesOf(shelf[n].meant)
    IN /\ instances = {} /\ Makes(n) = "block"
       /\ "clauses" \in Avoided => ~SideBySide(nodes)
       /\ "copies" \in Avoided => ~HalfOpen(nodes)
       /\ output' = IF MaterializeRefuses(tree)
                    THEN [status |-> "refused", of |-> n, tree |-> <<>>]
                    ELSE [status |-> "accepted", of |-> n, tree |-> Materialized(tree)]
       /\ UNCHANGED <<shelf, instances, edges>>

Aims(i) == {<<>>} \cup {s.ref : s \in Range(ShellsOf(shelf[i].tree))}
           \cup {n.ref : n \in Range(NodesOf(shelf[i].meant))}

Next ==
    \/ \E n \in DOMAIN shelf : Register(n)
    \/ \E i, j \in instances, o \in Order :
         \E ref \in Aims(i), hole \in shelf[i].holes :
             Connect([root |-> i, ref |-> ref, hole |-> hole, source |-> j, order |-> o])
    \/ BuildRefused
    \/ Build
    \/ \E n \in Range(BuiltSoFar) : Materialize(n)

Spec == Init /\ [][Next]_vars

-----------------------------------------------------------------------------
(* An accepted materialization is the code that was meant: every piece in   *)
(* its place, whatever stages it came through (api.py `materialize`).       *)
AcceptedIsExpansion ==
    output.status = "accepted" => output.tree = Expansion(shelf[output.of].meant)

(* What an edge may bring: a piece of the right kind, to the one place the  *)
(* author means, where a value is not there already.                        *)
Takes == [block |-> {"block", "expression"}, value |-> {"expression", "arguments"}, call |-> {"expression", "arguments"},
          params |-> {"params"}, elif |-> {"elif"}]
Fits(e) ==
    LET aimed == {n \in Range(NodesOf(shelf[edges[e].root].meant)) : AimsAt(edges[e], n)}
        rivals == {f \in EdgesOf(edges[e].root) : edges[f].hole = edges[e].hole}
    IN \E n \in aimed : \E kind \in Ports(Catalog[n.piece].body, edges[e].hole) :
          /\ Cardinality(aimed) = 1 /\ Makes(edges[e].source) \in Takes[kind]
          /\ kind = "value" => rivals = {e} /\ EarlierAdds(edges[e]) = {}

(* A build is refused only if some edge does not fit.  Materialization is   *)
(* refused if and only if a hole is left without its piece, a piece is      *)
(* where it does not fit, a signature is none of Python's, or a branch      *)
(* returns from no function (api.py, the build's checks, the gate, the      *)
(* parameter and branch passes).                                            *)
OnlyFaultsRefused ==
    /\ output.status = "not built" => \E e \in DOMAIN edges : ~Fits(e)
    /\ output.status \in {"accepted", "refused"} =>
          (output.status = "accepted" <=> WellFilled(shelf[output.of].meant))

(* Every piece in a built composable is found under the path its author     *)
(* knows it by, and there with the holes it still has (path_resolution.py). *)
AddressesAgree ==
    \A c \in Range(BuiltSoFar) : \A n \in Range(NodesOf(shelf[c].meant)) :
        LET bodies == Resolved(shelf[c].tree, n.ref)
            closed == {s.hole : s \in {t \in UNION {Range(b) : b \in Bodies(Catalog[n.piece].body)} :
                                          t.kind = "value" /\ AddsTo(n, t.hole) # <<>>}}
        IN Catalog[n.piece].makes = "block" /\ UniqueRefs(shelf[c].tree) =>
              Len(bodies) = 1 /\ HolesIn(bodies[1]) = HolesIn(Catalog[n.piece].body) \ closed

=============================================================================
