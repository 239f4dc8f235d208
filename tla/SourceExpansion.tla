-------------------------- MODULE SourceExpansion --------------------------
(***************************************************************************)
(* What is done to the source of one piece before anything is inserted in  *)
(* it (lowering/external_bind.py, unroll.py, external_ref.py,              *)
(* model/basic.py `bind`): external names are replaced by the values they  *)
(* are bound to, at once or a few at a time; the loops                     *)
(* `for x in astichi_for(domain)` are replaced by one copy of their body   *)
(* per value; `astichi_ref(path)` becomes the path.  A substitution has to *)
(* leave alone the names that inner scopes bind, and both substitutions    *)
(* may happen in either order.                                             *)
(*                                                                         *)
(* A piece is the sequence of its statements in source order.  A statement *)
(* is a record: `kind`, the expression `e` it evaluates in the scope it    *)
(* stands in, and `around`, the lines of the statements it is nested in.   *)
(*   evaluate          e               external  astichi_bind_external(x)  *)
(*   assign            x = e           import    import x                  *)
(*   hole              astichi_hole(x)                                     *)
(*   for, astichi_for  for vars in e: ...        with    with e as x: ...  *)
(*   define            @e def x(vars): ...       class   class x(e): ...   *)
(* Of an expression only the names count: `reads`, from left to right, with *)
(* the names hidden from each by lambdas and comprehensions around it      *)
(* (`hidden`) and whether it is in the body of one (`deferred`); walruses  *)
(* in the scope of the statement and those inside of lambdas and           *)
(* comprehensions.  What an expression comes to is computed elsewhere.     *)
(***************************************************************************)
EXTENDS Naturals, Sequences, SequencesExt, FiniteSets

CONSTANTS
    Sources,              \* pieces as they are authored
    Value,                \* external name -> the value it is going to be bound to
    IsDomain(_, _),       \* whether an expression, given its reads, is a domain,
    DomainValues(_, _),   \*   and its values, from the 0th on
    IsPath(_, _),         \* whether the references in an expression are literal,
    PathValues(_, _)      \*   and their paths

VARIABLES
    source,     \* the piece as authored
    tree,       \* what has become of its statements, by their keys
    domains,    \* the values of each loop expanded so far
    bound,      \* external names bound so far (`bound_externals`)
    stage       \* "open", "unrolling", "refused" or "lowered"

vars == <<source, tree, domains, bound, stage>>

-----------------------------------------------------------------------------
(* Lines of a source. *)

Scopes  == {"define", "class"}
Loops   == {"for", "astichi_for"}
Blocks  == Scopes \cup Loops \cup {"with"}
Storing == Scopes \cup {"assign", "import", "with"}

WellFormed(s) ==
    \A l \in DOMAIN s :
        /\ s[l].around \subseteq 1 .. l - 1
        /\ \A m \in s[l].around :
              /\ s[m].kind \in Blocks
              /\ s[m].around = {n \in s[l].around : n < m}
        /\ s[l].vars # <<>> => s[l].kind \in Loops \cup {"define"}
        /\ s[l].kind = "external" =>
              /\ s[l].walruses = {} /\ s[l].hiddenWalruses = {}
              /\ s[l].reads = <<[x |-> s[l].x, external |-> TRUE, hidden |-> {}, deferred |-> FALSE]>>

ASSUME SourcesAssumption == \A s \in Sources : s \in Seq(Range(s)) /\ WellFormed(s)

Lines == DOMAIN source

Targets(l) == Range(source[l].vars)

(* The marker loops around a line. *)
MarkerLoops(l) == {m \in source[l].around : source[m].kind = "astichi_for"}

(* A line runs in the scope of a block around it, or of the module. *)
InScopeOf(l, m) == m \in source[l].around /\ \A n \in source[l].around : n > m => source[n].kind \notin Scopes
AtModule(l) == \A n \in source[l].around : source[n].kind \notin Scopes

(* What a line is seen to bind: not the targets of a loop, and nothing of  *)
(* a comprehension.                                                        *)
Stores(l) == source[l].walruses \cup (IF source[l].kind \in Storing THEN {source[l].x} ELSE {})

-----------------------------------------------------------------------------
(* Keys.  A statement of the tree is an authored line and, for each of the  *)
(* marker loops around it that are expanded, the iteration it was copied    *)
(* for.                                                                     *)

Key(l, turn) == [line |-> l, turn |-> turn]
NoTurn == [m \in {} |-> 0]

At(k) == source[k.line]

(* The copy of a line around k that k is in. *)
Within(k, m) == Key(m, Restrict(k.turn, DOMAIN k.turn \cap MarkerLoops(m)))

(* The statements of the tree around k, and those in a block a. *)
Around(k) == {Within(k, m) : m \in At(k).around \ DOMAIN k.turn}
Body(a)   == {k \in DOMAIN tree : a \in Around(k)}
Scope(a)  == {k \in Body(a) : InScopeOf(k.line, a.line)}
Module    == {k \in DOMAIN tree : AtModule(k.line)}

-----------------------------------------------------------------------------
(* Binding external names. *)

Without(f, xs) == Restrict(f, DOMAIN f \ xs)

Open(k) == DOMAIN At(k).reads \ DOMAIN tree[k].known
OpenExternals(k) == {At(k).reads[j].x : j \in {i \in Open(k) : At(k).reads[i].external}}
DemandsIn(ks) == UNION {OpenExternals(k) : k \in ks}

(* The open external names of the tree: its astichi_bind_external markers. *)
Demands == DemandsIn(DOMAIN tree)

IsExternal(k, names) == At(k).kind = "external" /\ Open(k) # {} /\ At(k).x \in names

SameScopeBindings(ks) == UNION {Stores(k.line) : k \in ks}

DirectExternals(ks, names) == {At(k).x : k \in {o \in ks : IsExternal(o, names)}}

RebindsInScope(ks, params, names) ==
    DirectExternals(ks, names) \cap (params \cup SameScopeBindings(ks)) # {}

SameScopeRebind(names) ==
    \/ RebindsInScope(Module, {}, names)
    \/ \E a \in DOMAIN tree : At(a).kind \in Scopes /\ RebindsInScope(Scope(a), Targets(a.line), names)

MarkerConflict(ks, names) ==
    \E k \in ks : At(k).kind = "hole" /\ tree[k].path = <<>> /\ At(k).x \in names

(* What becomes known of the reads of a statement. *)
Substitute(k, values) ==
    LET reads == At(k).reads
        known == tree[k].known
        reached == {j \in DOMAIN reads : reads[j].x \in DOMAIN values \ reads[j].hidden}
    IN [j \in DOMAIN known \cup reached |-> IF j \in DOMAIN known THEN known[j] ELSE values[reads[j].x]]

(* MUTANT of Satisfied: any declaration goes when some name is bound. *)
AnyDeclaration(k, names) ==
    At(k).kind = "external" /\ Open(k) # {} /\ \E o \in DOMAIN tree : o # k /\ Around(o) = Around(k)

(* A marker statement disappears once its name is bound, unless it is all  *)
(* there is in its block: then it is the value of the piece.               *)
Satisfied(k, names) ==
    IsExternal(k, names) /\ \E o \in DOMAIN tree : o # k /\ Around(o) = Around(k)

(* MUTANT of Hides: a function hides its parameters alone. *)
HidesParameters(a) == Targets(a.line)

(* The names a block hides from what is in it. *)
Hides(a) ==
    Targets(a.line) \cup (IF At(a).kind \in Scopes THEN SameScopeBindings(Scope(a)) ELSE {})

Shadow(k) == UNION {Hides(a) : a \in Around(k)}

BindStatement(k, names) ==
    [tree[k] EXCEPT !.known = Substitute(k, Without(Restrict(Value, names), Shadow(k)))]

-----------------------------------------------------------------------------
(* Unrolling. *)

FitsTargets(targets, value) ==
    \/ Len(targets) = 1
    \/ value.kind = "tuple" /\ Len(value.es) = Len(targets)
BindTargets(targets, value) ==
    [x \in Range(targets) |->
        LET i == CHOOSE j \in DOMAIN targets : targets[j] = x
        IN IF Len(targets) = 1 THEN value ELSE value.es[i]]

(* What the validator of a loop body finds: a plain rebinding of a loop    *)
(* variable outside of functions, classes and comprehensions, a marker     *)
(* that may not be repeated, a hole named like a loop variable.            *)
Rebinds(ks) ==
    UNION {At(k).walruses \cup (IF At(k).kind = "assign" THEN {At(k).x} ELSE {}) : k \in ks}
BadBody(a) ==
    \/ Rebinds(Scope(a)) \cap Targets(a.line) # {}
    \/ DemandsIn(Body(a)) # {}
    \/ MarkerConflict(Body(a), Targets(a.line))

CanRun(a)    == Open(a) = {} /\ IsDomain(At(a).e, tree[a].known)
Run(a)       == DomainValues(At(a).e, tree[a].known)

CannotExpand(a) ==
    \/ ~CanRun(a)
    \/ BadBody(a)
    \/ \E i \in DOMAIN Run(a) : ~FitsTargets(At(a).vars, Run(a)[i])

(* The names of `names` that do not reach k from the loop a around it. *)
CopyShadow(k, a, names) ==
    UNION {IF At(b).kind = "class" THEN names ELSE Targets(b.line) :
              b \in {c \in Around(k) : c.line > a.line}}

(* MUTANT of CopyStatement: only the last index is kept in the name of a hole. *)
CopyRenamed(k, a, i) ==
    LET values == BindTargets(At(a).vars, Run(a)[i]) IN
    [tree[k] EXCEPT !.known = Substitute(k, Without(values, CopyShadow(k, a, DOMAIN values))),
                    !.path = IF At(k).kind = "hole" THEN <<i>> ELSE @]

(* The copy of a statement in the body of a loop for its i-th value. *)
CopyStatement(k, a, i) ==
    LET values == BindTargets(At(a).vars, Run(a)[i]) IN
    [tree[k] EXCEPT !.known = Substitute(k, Without(values, CopyShadow(k, a, DOMAIN values))),
                    !.path = IF At(k).kind = "hole" THEN Append(@, i) ELSE @]

CopyKey(k, a, i) ==
    Key(k.line, [m \in DOMAIN k.turn \cup {a.line} |-> IF m = a.line THEN i ELSE k.turn[m]])

(* The copies give way for the loop; each is made of the statement that    *)
(* has its key but for this loop.                                          *)
Expanded(a) ==
    LET rest   == DOMAIN tree \ ({a} \cup Body(a))
        copies == {CopyKey(p[1], a, p[2]) : p \in Body(a) \X DOMAIN Run(a)}
        original(k) == Key(k.line, Without(k.turn, {a.line}))
    IN [k \in rest \cup copies |->
            IF k \in rest THEN tree[k] ELSE CopyStatement(original(k), a, k.turn[a.line])]

(* The marker loops of the tree, and those in no other. *)
ToExpand  == {k \in DOMAIN tree : At(k).kind = "astichi_for"}
Outermost == {k \in ToExpand : MarkerLoops(k.line) \subseteq DOMAIN k.turn}

-----------------------------------------------------------------------------
Init ==
    /\ source \in Sources
    /\ tree = [k \in {Key(l, NoTurn) : l \in Lines} |-> [known |-> <<>>, path |-> <<>>, refs |-> <<>>]]
    /\ domains = [k \in {} |-> <<>>]
    /\ bound = {}
    /\ stage = "open"

Refuse == stage' = "refused" /\ UNCHANGED <<source, tree, domains, bound>>

(* composable.bind(...) *)
Bind(names) ==
    /\ stage = "open"
    /\ names # {} /\ names \subseteq Demands
    /\ IF MarkerConflict(DOMAIN tree, names) \/ SameScopeRebind(names)
       THEN Refuse
       ELSE /\ tree' = [k \in {o \in DOMAIN tree : ~Satisfied(o, names)} |-> BindStatement(k, names)]
            /\ bound' = bound \cup names
            /\ UNCHANGED <<source, domains, stage>>

(* builder.build(unroll=True), which a later bind may follow *)
Unroll ==
    /\ stage = "open"
    /\ ToExpand # {}
    /\ stage' = "unrolling"
    /\ UNCHANGED <<source, tree, domains, bound>>

(* One loop of it, outer loops first: the value of the outer loop is in    *)
(* place when the domain of an inner one is read.  Loops in different      *)
(* places have nothing to do with each other, so any may be next.          *)
Expand(a) ==
    /\ stage = "unrolling"
    /\ a \in Outermost
    /\ IF CannotExpand(a)
       THEN Refuse
       ELSE /\ tree' = Expanded(a)
            /\ domains' = [d \in DOMAIN domains \cup {a} |-> IF d = a THEN Run(a) ELSE domains[d]]
            /\ UNCHANGED <<source, bound, stage>>

Unrolled ==
    /\ stage = "unrolling"
    /\ ToExpand = {}
    /\ stage' = "open"
    /\ UNCHANGED <<source, tree, domains, bound>>

(* apply_external_ref_lowering *)
Lowered == [k \in DOMAIN tree |-> [tree[k] EXCEPT !.refs = PathValues(At(k).e, tree[k].known)]]

(* materialize, which refuses what is not bound yet *)
Lower ==
    /\ stage = "open"
    /\ ToExpand = {}
    /\ IF Demands # {} \/ \E k \in DOMAIN tree : ~IsPath(At(k).e, tree[k].known)
       THEN Refuse
       ELSE /\ tree' = Lowered
            /\ stage' = "lowered"
            /\ UNCHANGED <<source, domains, bound>>

Next ==
    \/ \E names \in SUBSET DOMAIN Value : Bind(names)
    \/ Unroll
    \/ \E a \in Outermost : Expand(a)
    \/ Unrolled
    \/ Lower

Spec == Init /\ [][Next]_vars

-----------------------------------------------------------------------------
(* What an expansion is to mean, by the scopes of Python: a function hides *)
(* its parameters and all it stores, a class body hides what it stores     *)
(* from itself and not from its methods, a comprehension its variable.     *)

StoredBy(l) ==
    Stores(l) \cup source[l].hiddenWalruses \cup (IF source[l].kind = "for" THEN Targets(l) ELSE {})
AllStores(m) == UNION {StoredBy(l) : l \in {n \in Lines : InScopeOf(n, m)}}
ModuleStores == UNION {StoredBy(l) : l \in {n \in Lines : AtModule(n)}}

(* The blocks around a read that bind its name; the innermost counts. *)
Binds(m, l, read) ==
    \/ read.x \in Targets(m)
    \/ source[m].kind = "define" /\ read.x \in AllStores(m)
    \/ source[m].kind = "class" /\ read.x \in AllStores(m) /\ InScopeOf(l, m) /\ ~read.deferred
Binders(l, read) == {m \in source[l].around : Binds(m, l, read)}
Innermost(ms) == CHOOSE m \in ms : \A n \in ms : n <= m

(* The reads of a copy that have a value, when the names in `names` have,  *)
(* and their values.                                                       *)
HasMeaning(k, j, names) ==
    LET read == At(k).reads[j]
        binders == Binders(k.line, read)
    IN /\ read.x \notin read.hidden
       /\ IF binders = {} THEN read.x \in names \ ModuleStores ELSE Innermost(binders) \in DOMAIN k.turn

Meaning(k, j) ==
    LET read == At(k).reads[j]
        binders == Binders(k.line, read)
        m == Innermost(binders)
    IN IF binders = {} THEN Value[read.x]
       ELSE BindTargets(source[m].vars, domains[Within(k, m)][k.turn[m]])[read.x]

Meant(k, names) ==
    [j \in {i \in DOMAIN At(k).reads : HasMeaning(k, i, names)} |-> Meaning(k, j)]

(* The copies a line is to have: one for each combination of iterations of *)
(* the loops around it.                                                    *)
Iterations == UNION {DOMAIN domains[d] : d \in DOMAIN domains}
Copies(l) ==
    {k \in {Key(l, turn) : turn \in [MarkerLoops(l) -> Iterations]} :
        \A m \in MarkerLoops(l) :
            /\ Within(k, m) \in DOMAIN domains
            /\ k.turn[m] \in DOMAIN domains[Within(k, m)]}

(* The name of a hole counts the iterations, outermost loop first. *)
Numbers(path, turn) ==
    /\ Len(path) = Cardinality(DOMAIN turn)
    /\ \A m \in DOMAIN turn : path[Cardinality({n \in DOMAIN turn : n <= m})] = turn[m]

(* The lines that are to be left: unrolled loops are gone, and declarations *)
(* unless they are all there is in their block.                             *)
InBlockOf(l) == {m \in Lines : source[m].around = source[l].around}
Left(l) ==
    /\ source[l].kind # "astichi_for"
    /\ source[l].kind = "external" => InBlockOf(l) = {l}

-----------------------------------------------------------------------------
(* Sources the substitutions are meant for.  Each condition excludes what  *)
(* the code accepts and expands to something else (README, section 6).     *)

ExternalReads == {p \in UNION {{l} \X DOMAIN source[l].reads : l \in Lines} : source[p[1]].reads[p[2]].external}
Externals == {source[p[1]].reads[p[2]].x : p \in ExternalReads}

OfKind(kind) == {l \in Lines : source[l].kind = kind}
Inside(m)    == {l \in Lines : m \in source[l].around}

(* A loop variable is stored nowhere in the body of its loop but by        *)
(* parameters, comprehensions and inner unrolled loops.                    *)
VariablesKept ==
    \A m \in OfKind("astichi_for") : \A n \in {m} \cup (Inside(m) \cap OfKind("define")) :
        Targets(m) \cap AllStores(n) = {}

(* A class in an unrolled loop does not read the loop variable. *)
ClassesApart ==
    \A m \in OfKind("astichi_for") : \A c \in Inside(m) \cap OfKind("class") :
        \A l \in Inside(c) : \A j \in DOMAIN source[l].reads : source[l].reads[j].x \notin Targets(m)

(* External names are stored by nothing in the module and by no class; a   *)
(* function that stores one does so in a way a bind sees, and not only in  *)
(* unrolled loops.                                                         *)
ExternalsKept ==
    /\ ModuleStores \cap Externals = {}
    /\ \A c \in OfKind("class") : AllStores(c) \cap Externals = {}
    /\ \A f \in OfKind("define") : \A x \in AllStores(f) \cap Externals :
          \E l \in Inside(f) \ OfKind("astichi_for") :
              x \in Stores(l) /\ InScopeOf(l, f) /\ MarkerLoops(l) = MarkerLoops(f)

(* Nothing around the marker of an external name binds the name. *)
ExternalsSeen ==
    \A p \in ExternalReads :
        LET read == source[p[1]].reads[p[2]] IN read.x \notin read.hidden /\ Binders(p[1], read) = {}

(* A block with declarations is one declaration, or it holds more than     *)
(* declarations and unrolled loops.                                        *)
SomethingLeft ==
    \A l \in OfKind("external") :
        InBlockOf(l) = {l} \/ \E m \in InBlockOf(l) : source[m].kind \notin {"external", "astichi_for"}

Careful == VariablesKept /\ ClassesApart /\ ExternalsKept /\ ExternalsSeen /\ SomethingLeft

-----------------------------------------------------------------------------

(* Whatever the order and the grouping of the bindings, before or after    *)
(* the loops are unrolled, a piece comes out as its source means: loops    *)
(* have run over what their domains mean, every line has one copy for each *)
(* combination of iterations and no other, each read in it has the value   *)
(* of the binding it resolves to by Python's scopes (apply_external_       *)
(* bindings, unroll_tree, apply_external_ref_lowering).                    *)
ExpansionIsMeant ==
    stage = "lowered" /\ Careful =>
        /\ DOMAIN domains = UNION {Copies(l) : l \in OfKind("astichi_for")}
        /\ \A d \in DOMAIN domains : domains[d] = DomainValues(At(d).e, Meant(d, Externals))
        /\ DOMAIN tree = UNION {Copies(l) : l \in {n \in Lines : Left(n)}}
        /\ \A k \in DOMAIN tree :
              /\ tree[k].known = Meant(k, Externals)
              /\ tree[k].refs = PathValues(At(k).e, Meant(k, Externals))
              /\ At(k).kind = "hole" => Numbers(tree[k].path, k.turn)

(* Two copies of a hole never share a name, so an edge to `slot[i][j]`     *)
(* reaches one place: the outer index comes first, whatever was bound in   *)
(* between (iter_target_name builds the same name for the builder).        *)
Holes == {k \in DOMAIN tree : At(k).kind = "hole"}
HoleName(k) == <<At(k).x, tree[k].path>>
HolesAddressable ==
    /\ ToExpand = {}
    /\ \A l, m \in OfKind("hole") : source[l].x = source[m].x => l = m
    => \A k, o \in Holes : HoleName(k) = HoleName(o) => k = o

(* A bind settles exactly the names it is given: they are open no more,    *)
(* and no other name is opened or closed, by it or by unrolling, whatever  *)
(* order they come in (a second bind of a name must be told from a first). *)
BindSettles ==
    [][Careful => Demands' = Externals \ bound']_vars
=============================================================================
