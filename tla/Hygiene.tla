------------------------------ MODULE Hygiene ------------------------------
(***************************************************************************)
(* How astichi keeps the names of merged snippets apart.  A merged tree    *)
(* still shows where each snippet begins: a block contribution is a        *)
(* decorated shell, an expression contribution a marked call.  Hygiene     *)
(* visits every name, assigns it a scope and a collision domain (the       *)
(* Python function it will be flattened into), renames all but the winning *)
(* scope of every colliding name, and only then are the shells dissolved.  *)
(*                                                                         *)
(* The model writes any merged tree, node by node and name by name in      *)
(* source order, runs the pass over it (hygiene/api.py), and then reads    *)
(* the flat program with Python's own scoping.                             *)
(***************************************************************************)
EXTENDS Naturals, Sequences, FiniteSets, FiniteSetsExt, SequencesExt

CONSTANTS
  Names,      \* the identifiers snippets use
  MaxNodes,   \* bound: module, shells, expression inserts and functions
  MaxUses,    \* bound: names written
  Avoided     \* the habits the snippets' authors avoid: a subset of Habits

Habits == {"closures", "keeping a name someone imports",
           "parameters below a nested expression",
           "managed names in functions",
           "rebinding a managed name",
           "importing below a managed name",
           "shadowing an imported name"}

ASSUME HygieneAssumption ==
  /\ IsFiniteSet(Names)
  /\ MaxNodes \in Nat \ {0}
  /\ MaxUses \in Nat
  /\ Avoided \subseteq Habits

VARIABLES
  nodes,    \* the tree in source order: the path from the root, and directives
  cur,      \* the node being written
  uses,     \* the identifiers in source order
  emitted   \* the spelling each use was given; <<>> until materialized

vars == <<nodes, cur, uses, emitted>>

Outer == 0                \* the scope outside the module
TheImport == MaxNodes + 1 \* the scope of a managed import, one per name

NoDirective == [imports |-> {}, keeps |-> {}, manages |-> {}]

(* What a snippet may declare at its top: astichi_import, astichi_keep or   *)
(* astichi_pyimport, here at most one of them.                              *)
Directives ==
  {NoDirective} \cup
  UNION {{[NoDirective EXCEPT !.imports = {n}],
          [NoDirective EXCEPT !.keeps = {n}],
          [NoDirective EXCEPT !.manages = {n}]} : n \in Names}

Node(path, kind, directive) ==
  [path |-> path, kind |-> kind, imports |-> directive.imports,
   keeps |-> directive.keeps, manages |-> directive.manages]

Use(node, name, act) == [node |-> node, name |-> name, act |-> act]

----------------------------------------------------------------------------
(* Where a name stands                                                      *)

OfKind(kinds) == {n \in DOMAIN nodes : nodes[n].kind \in kinds}

Line(n) == {nodes[n].path[k] : k \in DOMAIN nodes[n].path}

Nearest(n, S) == Max(Line(n) \cap S)

Parent(n) == Max(Line(n) \ {n})

(* The Astichi scope around a node: a shell, an expression insert, the      *)
(* module.                                                                  *)
Scopes == OfKind({"module", "shell", "expression"})
ScopeOf(n) == Nearest(n, Scopes)

(* What the visitor sees as Python scopes: a shell is still a def.          *)
BodyOf(n) == Nearest(n, OfKind({"module", "shell", "function"}))

(* The collision domain: shells dissolve into the function around them.     *)
FunctionOf(n) == Nearest(n, OfKind({"module", "function"}))

Binds(i) == uses[i].act \in {"store", "parameter"}

Bindings(n) ==
  {uses[i].name : i \in {j \in DOMAIN uses :
                           Binds(j) /\ BodyOf(uses[j].node) = BodyOf(n)}}

Parameters(n) ==
  {uses[i].name : i \in {j \in DOMAIN uses :
       uses[j].act = "parameter" /\ BodyOf(uses[j].node) = BodyOf(n)}}

OuterScope(n) == IF ScopeOf(n) = 1 THEN Outer ELSE ScopeOf(Parent(ScopeOf(n)))

----------------------------------------------------------------------------
(* assign_scope_identity                                                    *)

Trusted == UNION {nodes[n].keeps : n \in DOMAIN nodes}

(* An import is bound when it is materialized, which pins its name too.     *)
Preserved == Trusted \cup UNION {nodes[n].imports : n \in DOMAIN nodes}

ImportersOf(name) == {n \in Scopes : name \in nodes[n].imports}

(* A plausible bug: the enclosing scope owns it, even if it only passes it. *)
OriginIsParent(scope, name) ==
  IF \E a \in (Line(scope) \cap Scopes) \ {scope} : name \in nodes[a].manages
    THEN TheImport
    ELSE ScopeOf(Parent(scope))

(* The scope an imported name belongs to: that of a managed import anywhere *)
(* above, else the first scope outwards that does not itself import it.     *)
ImportOrigin(scope, name) ==
  IF \E a \in (Line(scope) \cap Scopes) \ {scope} : name \in nodes[a].manages
    THEN TheImport
    ELSE Nearest(scope, (Scopes \ ImportersOf(name)) \cup {1})

LoadRole(n, name) ==
  LET scope == ScopeOf(n)
  IN CASE name \in nodes[scope].manages -> "internal"
       [] scope # 1 /\ name \in Parameters(n) ->
            IF scope = ScopeOf(BodyOf(n)) THEN "internal" ELSE "external"
       [] OTHER ->
            IF name \in Bindings(n) THEN "internal"
            ELSE IF name \in Preserved THEN "preserved"
            ELSE IF scope # 1 THEN "internal" ELSE "external"

Occurrence(scope, domain, kept) ==
  [scope |-> scope, domain |-> domain, kept |-> kept]

ImportedOccurrence(n, name) ==
  IF name \in Trusted
    THEN Occurrence(ScopeOf(n), FunctionOf(n), TRUE)
    ELSE Occurrence(ImportOrigin(ScopeOf(n), name), FunctionOf(n), FALSE)

(* A plausible bug: a managed name read in a function collides there.       *)
LoadInItsOwnDomain(n, name) ==
  LET role == LoadRole(n, name)
  IN IF name \in nodes[ScopeOf(n)].manages /\ name \notin Bindings(n)
       THEN Occurrence(TheImport, FunctionOf(n), FALSE)
       ELSE Occurrence(IF role = "external" THEN OuterScope(n) ELSE ScopeOf(n),
                       FunctionOf(n), role = "preserved")

LoadOccurrence(n, name) ==
  LET role == LoadRole(n, name)
  IN IF name \in nodes[ScopeOf(n)].manages /\ name \notin Bindings(n)
       THEN Occurrence(TheImport, 1, FALSE)
       ELSE Occurrence(IF role = "external" THEN OuterScope(n) ELSE ScopeOf(n),
                       FunctionOf(n), role = "preserved")

(* A plausible bug: only reads honour a keep.                               *)
StoreUnkept(n, name) == Occurrence(ScopeOf(n), FunctionOf(n), FALSE)

StoreOccurrence(n, name) ==
  Occurrence(ScopeOf(n), FunctionOf(n), name \in nodes[ScopeOf(n)].keeps)

(* A plausible bug: a parameter is a binding like any other.                *)
ParameterRenamable(n) == Occurrence(ScopeOf(n), FunctionOf(n), FALSE)

ParameterOccurrence(n) == Occurrence(ScopeOf(n), FunctionOf(n), TRUE)

Identity(i) ==
  LET n == uses[i].node
      name == uses[i].name
  IN CASE uses[i].act = "import" ->
            Occurrence(TheImport, 1, name \in nodes[ScopeOf(n)].keeps)
       [] uses[i].act = "parameter" -> ParameterOccurrence(n)
       [] uses[i].act \in {"load", "store"}
            /\ name \in nodes[ScopeOf(n)].imports ->
            ImportedOccurrence(n, name)
       [] OTHER ->
            IF uses[i].act = "load" THEN LoadOccurrence(n, name)
                                    ELSE StoreOccurrence(n, name)

----------------------------------------------------------------------------
(* rename_scope_collisions                                                  *)

(* A plausible bug: trust in a name is global, not of the declaring scope.  *)
KeptEverywhere(name, group, id) ==
  LET preserved == {id[i].scope : i \in {j \in group : id[j].kept}}
      candidates == {i \in group : preserved = {} \/ id[i].scope \in preserved}
  IN IF name \in Trusted THEN {id[i].scope : i \in group}
     ELSE {id[Min(candidates)].scope}

(* The scopes that keep their spelling among those that use one name in one *)
(* domain.  A trusted name is kept wherever it is declared; otherwise the   *)
(* scope that uses the name first wins, of those with a preserved           *)
(* occurrence when there is one.                                            *)
KeptScopes(name, group, id) ==
  LET preserved == {id[i].scope : i \in {j \in group : id[j].kept}}
      candidates == {i \in group : preserved = {} \/ id[i].scope \in preserved}
  IN IF name \in Trusted THEN preserved ELSE {id[Min(candidates)].scope}

(* A made-up name carries a number that no other (domain, scope) of the     *)
(* pass is given; the pair itself stands for that number.                   *)
Plain(name) == <<name>>
MadeUp(name, occurrence) == <<name, occurrence.domain, occurrence.scope>>

Spelling(id, i) ==
  LET name == uses[i].name
      group == {j \in DOMAIN uses :
                  uses[j].name = name /\ id[j].domain = id[i].domain}
  IN IF \/ Cardinality({id[j].scope : j \in group}) = 1
        \/ id[i].scope \in KeptScopes(name, group, id)
       THEN Plain(name)
       ELSE MadeUp(name, id[i])

----------------------------------------------------------------------------
(* What the authors meant, and what the flat program does                   *)

(* The documented owner of a name: the scope that writes it, or the nearest *)
(* enclosing scope that does not import it (docs/reference/                 *)
(* scoping-hygiene.md, marker-binds-and-exports.md).                        *)
Shadowed(i) == \* by a parameter of a function of the same snippet
  \E j \in DOMAIN uses :
    /\ uses[j].act = "parameter" /\ uses[j].name = uses[i].name
    /\ uses[j].node \in Line(uses[i].node)
    /\ ScopeOf(uses[j].node) = ScopeOf(uses[i].node)

Imported(i) == uses[i].name \in nodes[ScopeOf(uses[i].node)].imports

Owner(i) ==
  IF Imported(i) /\ ~Shadowed(i)
    THEN Nearest(uses[i].node, Scopes \ ImportersOf(uses[i].name))
    ELSE ScopeOf(uses[i].node)

(* Python's rule, over any set of bindings: the nearest enclosing function  *)
(* that binds the name; a managed import is bound in the module.            *)
BoundIn(i) == IF uses[i].act = "import" THEN 1 ELSE FunctionOf(uses[i].node)

Resolve(i, binders) ==
  LET around == {j \in binders : BoundIn(j) \in Line(FunctionOf(uses[i].node))}
  IN IF around = {} THEN {}
     ELSE {j \in around : BoundIn(j) = Max({BoundIn(k) : k \in around})}

Binders == {j \in DOMAIN uses : Binds(j) \/ uses[j].act = "import"}

Imports(name) == {j \in Binders : uses[j].act = "import" /\ uses[j].name = name}

(* A snippet's own binding comes before the managed import it declares.     *)
MeantBy(i) ==
  LET name == uses[i].name
      own == Resolve(i, {j \in Binders \ Imports(name) :
                           uses[j].name = name /\ Owner(j) = Owner(i)})
  IN IF own = {} /\ name \in nodes[Owner(i)].manages THEN Imports(name) ELSE own

SeenBy(i) == Resolve(i, {j \in Binders : emitted[j] = emitted[i]})

(* A function parameter is visible to an expression inserted in it.         *)
MeantParameter(i) ==
  {j \in DOMAIN uses :
     /\ uses[j].act = "parameter" /\ uses[j].name = uses[i].name
     /\ nodes[uses[i].node].kind = "expression"
     /\ uses[j].node = FunctionOf(uses[i].node)
     /\ BodyOf(uses[i].node) = uses[j].node}

Loads == {i \in DOMAIN uses : uses[i].act = "load"}

Breaks(habit) ==
  CASE habit = "closures" ->
         \E i \in Loads : \E j \in MeantBy(i) :
           uses[j].act # "import" /\ BoundIn(j) # FunctionOf(uses[i].node)
    [] habit = "keeping a name someone imports" ->
         \E i \in DOMAIN uses : \E s \in ImportersOf(uses[i].name) :
           /\ uses[i].name \in Trusted
           /\ Owner(i) # ScopeOf(uses[i].node)
           /\ uses[i].name \notin nodes[Owner(i)].keeps
    [] habit = "parameters below a nested expression" ->
         \E i \in Loads :
           /\ MeantParameter(i) # {}
           /\ OuterScope(uses[i].node) \in OfKind({"expression"})
    [] habit = "managed names in functions" ->
         \E i \in Loads : \E j \in MeantBy(i) :
           /\ uses[j].act = "import"
           /\ FunctionOf(uses[i].node) # 1
           /\ \/ Owner(i) # ScopeOf(uses[i].node)
              \/ \E k \in Binders : uses[k].name = uses[i].name
                                      /\ BoundIn(k) \in Line(uses[i].node) \ {1}
    [] habit = "rebinding a managed name" ->
         \E j \in Binders : uses[j].act # "import"
                             /\ uses[j].name \in nodes[Owner(j)].manages
    [] habit = "importing below a managed name" ->
         \E i \in DOMAIN uses : \E n \in Line(uses[i].node) :
           /\ Owner(i) # ScopeOf(uses[i].node)
           /\ n < Owner(i) /\ uses[i].name \in nodes[n].manages
    [] habit = "shadowing an imported name" ->
         \E i \in DOMAIN uses : Imported(i) /\ Shadowed(i)

----------------------------------------------------------------------------
(* Writing a tree and materializing it                                      *)

Declared(n, directive) == \* a managed import binds its name where it stands
  IF directive.manages = {} THEN <<>>
  ELSE <<Use(n, CHOOSE name \in directive.manages : TRUE, "import")>>

Init ==
  \E directive \in {d \in Directives : d.imports = {}} :
    /\ nodes = <<Node(<<1>>, "module", directive)>>
    /\ uses = Declared(1, directive)
    /\ cur = 1
    /\ emitted = <<>>

Enter(kind, directive, firstUses) ==
  /\ emitted = <<>> /\ Len(nodes) < MaxNodes
  /\ Len(uses) + Len(firstUses) <= MaxUses
  /\ nodes' = Append(nodes, Node(Append(nodes[cur].path, Len(nodes) + 1),
                                 kind, directive))
  /\ uses' = uses \o firstUses
  /\ cur' = Len(nodes) + 1
  /\ UNCHANGED emitted

EnterShell(directive) ==
  /\ nodes[cur].kind # "expression"
  /\ Enter("shell", directive, Declared(Len(nodes) + 1, directive))

EnterExpression == Enter("expression", NoDirective, <<>>)

EnterFunction(parameters) ==
  /\ nodes[cur].kind # "expression"
  /\ Enter("function", NoDirective,
           SetToSeq({Use(Len(nodes) + 1, p, "parameter") : p \in parameters}))

(* Nothing is learnt from a snippet that names nothing and keeps nothing.   *)
Leave ==
  /\ emitted = <<>> /\ cur # 1
  /\ \/ \E i \in DOMAIN uses : cur \in Line(uses[i].node)
     \/ nodes[cur].keeps # {}
  /\ cur' = Parent(cur)
  /\ UNCHANGED <<nodes, uses, emitted>>

Write(name, act) ==
  /\ emitted = <<>> /\ Len(uses) < MaxUses
  /\ nodes[cur].kind = "expression" => act = "load"
  /\ uses' = Append(uses, Use(cur, name, act))
  /\ UNCHANGED <<nodes, cur, emitted>>

Materialize ==
  /\ emitted = <<>> /\ cur = 1 /\ uses # <<>>
  /\ \A habit \in Avoided : ~Breaks(habit)
  /\ emitted' = LET id == [i \in DOMAIN uses |-> Identity(i)]
                IN [i \in DOMAIN uses |-> Spelling(id, i)]
  /\ UNCHANGED <<nodes, cur, uses>>

Next ==
  \/ \E directive \in Directives : EnterShell(directive)
  \/ EnterExpression
  \/ \E parameters \in SUBSET Names : EnterFunction(parameters)
  \/ Leave
  \/ \E name \in Names, act \in {"load", "store"} : Write(name, act)
  \/ Materialize

Spec == Init /\ [][Next]_vars

----------------------------------------------------------------------------
(* Properties                                                               *)

Emitted == emitted # <<>>

(* A binding whose spelling its author owns: declared kept, or a parameter, *)
(* which is part of a signature (hygiene/api.py:1008, 1072).                *)
Owned(j) ==
  \/ uses[j].name \in nodes[Owner(j)].keeps
  \/ \E k \in DOMAIN uses :
       /\ uses[k].act = "parameter" /\ uses[k].name = uses[j].name
       /\ uses[k].node = BoundIn(j) /\ Owner(k) = Owner(j)

(* Every read of the flat program sees the bindings its author meant, no    *)
(* binding of another snippet, and all of its own, however the snippets     *)
(* were nested and whichever of them were renamed; only snippets that keep  *)
(* a name share it (scope identities and renames, hygiene/api.py:405, 961). *)
ReadsSeeTheirBindings ==
  Emitted => \A i \in Loads :
    MeantBy(i) # {} =>
      /\ MeantBy(i) \subseteq SeenBy(i)
      /\ \A j \in SeenBy(i) \ MeantBy(i) :
           Owned(j) /\ \E k \in MeantBy(i) : Owned(k)

(* Two snippets never write one variable of a function, unless both own the *)
(* spelling: an accumulator of one is not overwritten by a temporary of     *)
(* another (hygiene/api.py:405).                                            *)
BindingsApart ==
  Emitted => \A i, j \in Binders :
    (/\ emitted[i] = emitted[j] /\ BoundIn(i) = BoundIn(j)
     /\ {uses[i].act, uses[j].act} # {"import"}
     /\ Owner(i) # Owner(j) \/ "import" \in {uses[i].act, uses[j].act})
      => Owned(i) /\ Owned(j)

(* A name its snippet keeps is emitted as written wherever that snippet     *)
(* writes it (trust model, hygiene/api.py:441).                             *)
KeptNamesLiteral ==
  Emitted => \A i \in DOMAIN uses :
    uses[i].act = "store" /\ uses[i].name \in nodes[ScopeOf(uses[i].node)].keeps
      => emitted[i] = Plain(uses[i].name)

(* A parameter keeps its name, which callers use, and an expression         *)
(* inserted in the function reads it, whatever else uses the name           *)
(* (hygiene/api.py:1072, 1274).                                             *)
ParametersStable ==
  Emitted => \A i \in DOMAIN uses :
    /\ uses[i].act = "parameter" => emitted[i] = Plain(uses[i].name)
    /\ uses[i].act = "load" => \A j \in MeantParameter(i) : j \in SeenBy(i)

(* An imported name is spelled as its owner spells it: when the owner's     *)
(* binding is renamed the import follows, through every scope that passes   *)
(* the name on (hygiene/api.py:966-979).                                    *)
ImportsFollowTheirOwner ==
  Emitted => \A i, j \in DOMAIN uses :
    (/\ Owner(i) # ScopeOf(uses[i].node)
     /\ uses[j].name = uses[i].name /\ uses[j].act = "store"
     /\ ScopeOf(uses[j].node) = Owner(i)
     /\ FunctionOf(uses[j].node) = FunctionOf(uses[i].node))
      => emitted[i] = emitted[j]

=============================================================================
