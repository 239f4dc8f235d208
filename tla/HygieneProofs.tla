--------------------------- MODULE HygieneProofs ---------------------------
(***************************************************************************)
(* The renamer keeps names apart in every merged tree, of any depth, with  *)
(* any number of names.  What is inductive is only the shape of a tree     *)
(* under construction; all that the pass promises is then a fact about one *)
(* shape.  The argument: every occurrence lands in one cell, a scope of    *)
(* one Python function; names are respelled cell by cell; and under the    *)
(* authors' habits the cell of an occurrence is that of the binding its    *)
(* author meant.                                                           *)
(***************************************************************************)
EXTENDS Hygiene, SequenceTheorems, FiniteSetTheorems, TLAPS

-----------------------------------------------------------------------------
(* The shape of a tree under construction.                                  *)
Kinds == {"module", "shell", "expression", "function"}
Acts == {"load", "store", "parameter", "import"}

NodesShape ==
    /\ Len(nodes) \in 1 .. MaxNodes
    /\ nodes[1].kind = "module" /\ nodes[1].imports = {}
    /\ \A n \in DOMAIN nodes \ {1} : nodes[n].kind \in {"shell", "expression", "function"}

(* The nodes above a node are those of its line; an expression holds        *)
(* nothing but expressions.                                                 *)
LinesNest ==
    \A n \in DOMAIN nodes :
        /\ Line(n) \subseteq 1 .. n /\ 1 \in Line(n) /\ n \in Line(n)
        /\ \A m \in Line(n) : Line(m) = {k \in Line(n) : k <= m}
        /\ \A m \in Line(n) : nodes[m].kind = "expression" => nodes[n].kind = "expression"

OneDirective ==
    \A n \in DOMAIN nodes :
        /\ nodes[n].imports = {} \/ (nodes[n].keeps = {} /\ nodes[n].manages = {})
        /\ nodes[n].keeps = {} \/ nodes[n].manages = {}
        /\ nodes[n].kind \in {"expression", "function"} =>
              nodes[n].imports = {} /\ nodes[n].keeps = {} /\ nodes[n].manages = {}

UsesShape ==
    \A i \in DOMAIN uses :
        /\ uses[i].node \in DOMAIN nodes /\ uses[i].act \in Acts
        /\ uses[i].act = "parameter" => nodes[uses[i].node].kind = "function"
        /\ uses[i].act # "load" => nodes[uses[i].node].kind # "expression"
        /\ uses[i].act = "import" => uses[i].name \in nodes[uses[i].node].manages

(* A function's parameters come before all else in it.                      *)
ParametersFirst ==
    \A i, j \in DOMAIN uses :
        /\ uses[i].act = "parameter" /\ uses[j].act # "parameter"
        /\ uses[i].node \in Line(uses[j].node)
        => i < j

Shape == NodesShape /\ LinesNest /\ OneDirective /\ UsesShape /\ ParametersFirst

TreeNodes == [path : Seq(Nat), kind : Kinds, imports : SUBSET Names,
              keeps : SUBSET Names, manages : SUBSET Names]
UsedNames == [node : Nat, name : Names, act : Acts]

Typed ==
    /\ nodes \in Seq(TreeNodes)
    /\ uses \in Seq(UsedNames)
    /\ cur \in DOMAIN nodes

Identities == [i \in DOMAIN uses |-> Identity(i)]

Spelled ==
    Emitted => /\ emitted = [i \in DOMAIN uses |-> Spelling(Identities, i)]
               /\ \A habit \in Avoided : ~Breaks(habit)

HInv == Typed /\ Shape /\ Spelled

-----------------------------------------------------------------------------
(* The extremes of a set of positions.                                      *)
LEMMA MinIs ==
    ASSUME NEW S, S \subseteq Nat, S # {}
    PROVE  Min(S) \in S /\ \A y \in S : Min(S) <= y
<1>1. PICK x \in S : \A y \in S : ~(<<y, x>> \in OpToRel(<, Nat))
  BY WFMin, NatLessThanWellFounded
<1>2. \A y \in S : x \in Nat /\ y \in Nat /\ ~(y < x)
  BY <1>1 DEF OpToRel
<1>3. \E z \in S : \A y \in S : z =< y
  BY <1>2
<1> QED BY <1>3 DEF Min

LEMMA MaxIs ==
    ASSUME NEW N \in Nat, NEW S, S \subseteq 1 .. N, S # {}
    PROVE  Max(S) \in S /\ \A y \in S : y <= Max(S)
<1> DEFINE R == {N - y : y \in S}
<1>1. R \subseteq Nat /\ R # {}
  <2>1. \E y : y \in S
    OBVIOUS
  <2> QED BY <2>1
<1>2. Min(R) \in R /\ \A r \in R : Min(R) <= r
  BY <1>1, MinIs
<1>3. PICK x \in S : Min(R) = N - x
  BY <1>2
<1>4. \A y \in S : N - x <= N - y
  BY <1>2, <1>3
<1>5. \A y \in S : x >= y
  BY <1>4
<1>6. \E z \in S : \A y \in S : z >= y
  BY <1>5
<1>7. Max(S) \in S /\ \A y \in S : Max(S) >= y
  BY <1>6 DEF Max
<1> QED BY <1>7

LEMMA NearestIs ==
    ASSUME Shape, NEW n \in DOMAIN nodes, NEW S, Line(n) \cap S # {}
    PROVE  /\ Nearest(n, S) \in Line(n) \cap S
           /\ \A m \in Line(n) \cap S : m <= Nearest(n, S)
<1>1. n \in Nat /\ Line(n) \cap S \subseteq 1 .. n
  BY DEF Shape, NodesShape, LinesNest
<1> QED BY <1>1, MaxIs DEF Nearest

(* What stands above a node: its scope, the body of its bindings and the    *)
(* function it dissolves into.                                              *)
LEMMA Above ==
    ASSUME Shape, NEW n \in DOMAIN nodes
    PROVE  /\ n \in Nat /\ 1 \in Line(n) /\ n \in Line(n)
           /\ Line(n) \subseteq DOMAIN nodes /\ Line(n) \subseteq 1 .. n
           /\ \A m \in Line(n) :
                 /\ nodes[m].kind \in {"module", "shell", "expression", "function"}
                 /\ nodes[m].kind = "module" <=> m = 1
                 /\ nodes[m].kind = "expression" => nodes[n].kind = "expression"
           /\ ScopeOf(n) \in Line(n)
           /\ nodes[ScopeOf(n)].kind \in {"module", "shell", "expression"}
           /\ \A m \in Line(n) : m <= ScopeOf(n) \/ nodes[m].kind = "function"
           /\ BodyOf(n) \in Line(n)
           /\ nodes[BodyOf(n)].kind \in {"module", "shell", "function"}
           /\ \A m \in Line(n) : m <= BodyOf(n) \/ nodes[m].kind = "expression"
           /\ FunctionOf(n) \in Line(n)
           /\ nodes[FunctionOf(n)].kind \in {"module", "function"}
           /\ \A m \in Line(n) : m <= FunctionOf(n) \/ nodes[m].kind \in {"shell", "expression"}
<1>1. /\ n \in Nat /\ 1 \in Line(n) /\ n \in Line(n)
      /\ Line(n) \subseteq 1 .. n /\ Line(n) \subseteq DOMAIN nodes
  BY DEF Shape, NodesShape, LinesNest
<1>2. \A m \in Line(n) :
         /\ nodes[m].kind \in {"module", "shell", "expression", "function"}
         /\ nodes[m].kind = "module" <=> m = 1
         /\ nodes[m].kind = "expression" => nodes[n].kind = "expression"
  BY <1>1 DEF Shape, NodesShape, LinesNest
<1>3. ASSUME NEW kinds, "module" \in kinds
      PROVE  /\ Nearest(n, OfKind(kinds)) \in Line(n)
             /\ nodes[Nearest(n, OfKind(kinds))].kind \in kinds
             /\ \A m \in Line(n) :
                   m <= Nearest(n, OfKind(kinds)) \/ nodes[m].kind \notin kinds
  <2>1. 1 \in Line(n) \cap OfKind(kinds)
    BY <1>1, <1>2, <1>3 DEF OfKind
  <2>2. /\ Nearest(n, OfKind(kinds)) \in Line(n) \cap OfKind(kinds)
        /\ \A m \in Line(n) \cap OfKind(kinds) : m <= Nearest(n, OfKind(kinds))
    BY <2>1, NearestIs
  <2> QED BY <1>1, <2>2 DEF OfKind
<1>4. /\ ScopeOf(n) \in Line(n)
      /\ nodes[ScopeOf(n)].kind \in {"module", "shell", "expression"}
      /\ \A m \in Line(n) : m <= ScopeOf(n)
                              \/ nodes[m].kind \notin {"module", "shell", "expression"}
  BY <1>3 DEF ScopeOf, Scopes
<1>5. /\ BodyOf(n) \in Line(n)
      /\ nodes[BodyOf(n)].kind \in {"module", "shell", "function"}
      /\ \A m \in Line(n) : m <= BodyOf(n)
                              \/ nodes[m].kind \notin {"module", "shell", "function"}
  BY <1>3 DEF BodyOf
<1>6. /\ FunctionOf(n) \in Line(n)
      /\ nodes[FunctionOf(n)].kind \in {"module", "function"}
      /\ \A m \in Line(n) : m <= FunctionOf(n)
                              \/ nodes[m].kind \notin {"module", "function"}
  BY <1>3 DEF FunctionOf
<1> QED BY <1>1, <1>2, <1>4, <1>5, <1>6

LEMMA ScopeAbove ==
    ASSUME Shape, NEW n \in DOMAIN nodes
    PROVE  /\ Line(n) \subseteq Nat /\ Line(n) \subseteq DOMAIN nodes
           /\ 1 \in Line(n) /\ 1 \in Scopes /\ nodes[1].imports = {}
           /\ ScopeOf(n) \in Line(n) /\ ScopeOf(n) \in Scopes /\ ScopeOf(n) \in Nat
           /\ \A m \in Line(n) : m \in Scopes => m <= ScopeOf(n)
<1>1. /\ Line(n) \subseteq DOMAIN nodes /\ 1 \in Line(n)
      /\ nodes[1].kind = "module" /\ nodes[1].imports = {}
      /\ ScopeOf(n) \in Line(n)
      /\ nodes[ScopeOf(n)].kind \in {"module", "shell", "expression"}
      /\ \A m \in Line(n) : m <= ScopeOf(n) \/ nodes[m].kind = "function"
  BY Above DEF Shape, NodesShape
<1>2. Line(n) \subseteq Nat
  <2>1. n \in Nat /\ Line(n) \subseteq 1 .. n
    BY Above
  <2> QED BY <2>1
<1> QED BY <1>1, <1>2 DEF Scopes, OfKind

(* The line of a node above is cut off there, and keeps its bodies.         *)
LEMMA LineAbove ==
    ASSUME Shape, NEW n \in DOMAIN nodes, NEW m \in Line(n)
    PROVE  m \in DOMAIN nodes /\ Line(m) = {k \in Line(n) : k <= m}
<1>1. m \in DOMAIN nodes
  BY Above
<1>2. Line(m) = {k \in Line(n) : k <= m}
  BY Zenon DEF Shape, LinesNest
<1> QED BY <1>1, <1>2

(* Outside expressions, scope and function tell the body, and conversely.   *)
LEMMA BodyIsCell ==
    ASSUME Shape, NEW n \in DOMAIN nodes, nodes[ScopeOf(n)].kind # "expression"
    PROVE  /\ BodyOf(n) = IF FunctionOf(n) > ScopeOf(n) THEN FunctionOf(n) ELSE ScopeOf(n)
           /\ ScopeOf(BodyOf(n)) = ScopeOf(n) /\ FunctionOf(BodyOf(n)) = FunctionOf(n)
           /\ nodes[ScopeOf(BodyOf(n))].kind # "expression"
<1> DEFINE s == ScopeOf(n)
           f == FunctionOf(n)
           b == BodyOf(n)
<1>1. /\ s \in Line(n) /\ f \in Line(n) /\ b \in Line(n) /\ Line(n) \subseteq Nat
      /\ s \in Nat /\ f \in Nat /\ b \in Nat
      /\ nodes[s].kind \in {"module", "shell"}
      /\ nodes[f].kind \in {"module", "function"}
      /\ nodes[b].kind \in {"module", "shell", "function"}
      /\ \A m \in Line(n) : m <= s \/ nodes[m].kind = "function"
      /\ \A m \in Line(n) : m <= b \/ nodes[m].kind = "expression"
      /\ \A m \in Line(n) : m <= f \/ nodes[m].kind \in {"shell", "expression"}
  BY Above
<1> HIDE DEF s, f, b
<1>2. b >= s /\ b >= f
  BY <1>1
<1>3. b = IF f > s THEN f ELSE s
  BY <1>1, <1>2
<1>4. b \in DOMAIN nodes /\ Line(b) = {k \in Line(n) : k <= b}
  BY <1>1, LineAbove
<1>5. /\ ScopeOf(b) \in Line(b) /\ FunctionOf(b) \in Line(b)
      /\ nodes[ScopeOf(b)].kind \in {"module", "shell", "expression"}
      /\ nodes[FunctionOf(b)].kind \in {"module", "function"}
      /\ \A m \in Line(b) : m <= ScopeOf(b) \/ nodes[m].kind = "function"
      /\ \A m \in Line(b) : m <= FunctionOf(b) \/ nodes[m].kind \in {"shell", "expression"}
  BY <1>4, Above
<1>6. s \in Line(b) /\ f \in Line(b) /\ ScopeOf(b) \in Nat /\ FunctionOf(b) \in Nat
      /\ ScopeOf(b) \in Line(n) /\ FunctionOf(b) \in Line(n)
  BY <1>1, <1>2, <1>4, <1>5
<1>7. s <= ScopeOf(b) /\ f <= FunctionOf(b)
  BY <1>1, <1>5, <1>6
<1>8. ScopeOf(b) <= s /\ FunctionOf(b) <= f
  BY <1>1, <1>5, <1>6
<1>9. ScopeOf(b) = s /\ FunctionOf(b) = f
  BY <1>1, <1>6, <1>7, <1>8
<1> QED BY <1>1, <1>3, <1>9 DEF s, f, b

-----------------------------------------------------------------------------
(* Names are respelled by cell: an identifier in a scope of a function.     *)
SameCell(i, j) ==
    /\ uses[i].name = uses[j].name
    /\ Identity(i).domain = Identity(j).domain
    /\ Identity(i).scope = Identity(j).scope

Group(i) == {j \in DOMAIN uses : /\ uses[j].name = uses[i].name
                                 /\ Identity(j).domain = Identity(i).domain}

LEMMA SpellingIs ==
    ASSUME NEW i \in DOMAIN uses
    PROVE  Spelling(Identities, i) =
              IF \/ Cardinality({Identity(j).scope : j \in Group(i)}) = 1
                 \/ Identity(i).scope \in KeptScopes(uses[i].name, Group(i), Identities)
              THEN Plain(uses[i].name) ELSE MadeUp(uses[i].name, Identity(i))
<1>1. \A j \in DOMAIN uses : Identities[j] = Identity(j)
  BY DEF Identities
<1>2. {j \in DOMAIN uses : uses[j].name = uses[i].name
           /\ Identities[j].domain = Identities[i].domain} = Group(i)
  BY <1>1 DEF Group
<1>3. {Identities[j].scope : j \in Group(i)} = {Identity(j).scope : j \in Group(i)}
  BY <1>1 DEF Group
<1> QED BY <1>1, <1>2, <1>3 DEF Spelling

LEMMA SameCellSameSpelling ==
    ASSUME NEW i \in DOMAIN uses, NEW j \in DOMAIN uses, SameCell(i, j)
    PROVE  Spelling(Identities, i) = Spelling(Identities, j)
<1>1. Group(i) = Group(j)
  BY DEF Group, SameCell
<1>2. MadeUp(uses[i].name, Identity(i)) = MadeUp(uses[j].name, Identity(j))
  BY DEF MadeUp, SameCell
<1> QED BY <1>1, <1>2, SpellingIs DEF SameCell

LEMMA TrustedScopes ==
    ASSUME NEW i \in DOMAIN uses, uses[i].name \in Trusted
    PROVE  KeptScopes(uses[i].name, Group(i), Identities) =
              {Identity(k).scope : k \in {j \in Group(i) : Identity(j).kept}}
<1>1. {j \in Group(i) : Identities[j].kept} = {j \in Group(i) : Identity(j).kept}
  BY DEF Group, Identities
<1>2. {Identities[k].scope : k \in {j \in Group(i) : Identity(j).kept}} =
          {Identity(k).scope : k \in {j \in Group(i) : Identity(j).kept}}
  BY DEF Group, Identities
<1> QED BY <1>1, <1>2 DEF KeptScopes

(* A cell that keeps a trusted name keeps its spelling. *)
LEMMA KeptSpelledPlain ==
    ASSUME NEW i \in DOMAIN uses, NEW k \in DOMAIN uses, SameCell(i, k),
           Identity(k).kept, uses[i].name \in Trusted
    PROVE  Spelling(Identities, i) = Plain(uses[i].name)
<1>1. k \in Group(i) /\ Identity(k).scope = Identity(i).scope
  BY DEF Group, SameCell
<1>2. Identity(i).scope \in KeptScopes(uses[i].name, Group(i), Identities)
  BY <1>1, TrustedScopes
<1> QED BY <1>2, SpellingIs

(* Of a name nobody keeps, the first scope with a preserved occurrence      *)
(* keeps its spelling.                                                      *)
LEMMA FirstKeptPlain ==
    ASSUME Typed, NEW i \in DOMAIN uses, Identity(i).kept,
           \A k \in Group(i) : k <= i => Identity(k).scope = Identity(i).scope
    PROVE  Spelling(Identities, i) = Plain(uses[i].name)
<1> DEFINE preserved == {Identities[k].scope : k \in {j \in Group(i) : Identities[j].kept}}
           candidates == {k \in Group(i) : preserved = {} \/ Identities[k].scope \in preserved}
<1>1. i \in Group(i) /\ Identities[i].scope \in preserved
  BY DEF Group, Identities
<1>2. i \in candidates /\ candidates \subseteq Nat
  BY <1>1 DEF Group, Typed
<1>3. Min(candidates) \in candidates /\ Min(candidates) <= i
  <2> HIDE DEF candidates
  <2> QED BY <1>2, MinIs
<1>4. Identities[Min(candidates)].scope = Identity(i).scope
  <2>1. Min(candidates) \in Group(i)
    BY <1>3
  <2> HIDE DEF candidates
  <2> QED BY <1>3, <2>1 DEF Group, Identities
<1>5. Identity(i).scope \in KeptScopes(uses[i].name, Group(i), Identities)
  <2>1. CASE uses[i].name \in Trusted
    <3>1. i \in {j \in Group(i) : Identity(j).kept}
      BY DEF Group
    <3> QED BY <2>1, <3>1, TrustedScopes
  <2>2. CASE uses[i].name \notin Trusted
    <3>1. KeptScopes(uses[i].name, Group(i), Identities) = {Identities[Min(candidates)].scope}
      BY <2>2 DEF KeptScopes
    <3> QED BY <1>4, <3>1
  <2> QED BY <2>1, <2>2
<1> QED BY <1>5, SpellingIs

LEMMA ScopesAreFinite ==
    ASSUME Typed, NEW i \in DOMAIN uses
    PROVE  IsFiniteSet({Identity(k).scope : k \in Group(i)})
<1>1. IsFiniteSet(DOMAIN uses)
  BY FS_Interval DEF Typed
<1>2. IsFiniteSet(Group(i))
  BY <1>1, FS_Subset DEF Group
<1> DEFINE T == {Identity(k).scope : k \in Group(i)}
           f == [k \in Group(i) |-> Identity(k).scope]
<1>3. f \in Surjection(Group(i), T)
  <2> DEFINE G == Group(i)
  <2> HIDE DEF G
  <2>1. [k \in G |-> Identity(k).scope] \in Surjection(G, {Identity(k).scope : k \in G})
    BY DEF Surjection
  <2> QED BY <2>1 DEF G
<1> HIDE DEF f, T
<1>4. IsFiniteSet(T)
  BY <1>2, <1>3, FS_Surjection
<1> QED BY <1>4 DEF T

(* Spelled alike in one function: one cell, or two that both keep the name. *)
LEMMA SpelledAlike ==
    ASSUME Typed, NEW i \in DOMAIN uses, NEW j \in DOMAIN uses,
           Spelling(Identities, i) = Spelling(Identities, j)
    PROVE  /\ uses[i].name = uses[j].name
           /\ Identity(i).domain = Identity(j).domain =>
                 \/ Identity(i).scope = Identity(j).scope
                 \/ /\ uses[i].name \in Trusted
                    /\ \E k \in DOMAIN uses : SameCell(i, k) /\ Identity(k).kept
                    /\ \E k \in DOMAIN uses : SameCell(j, k) /\ Identity(k).kept
<1>1. uses[i].name = uses[j].name
  <2>1. \A l \in DOMAIN uses : Spelling(Identities, l)[1] = uses[l].name
    <3> TAKE l \in DOMAIN uses
    <3>1. Plain(uses[l].name)[1] = uses[l].name
      BY DEF Plain
    <3>2. MadeUp(uses[l].name, Identity(l))[1] = uses[l].name
      BY DEF MadeUp
    <3>3. Spelling(Identities, l) \in {Plain(uses[l].name), MadeUp(uses[l].name, Identity(l))}
      BY SpellingIs
    <3> QED BY <3>1, <3>2, <3>3
  <2> QED BY <2>1
<1>2. ASSUME Identity(i).domain = Identity(j).domain,
             Identity(i).scope # Identity(j).scope
      PROVE  /\ uses[i].name \in Trusted
             /\ \E k \in DOMAIN uses : SameCell(i, k) /\ Identity(k).kept
             /\ \E k \in DOMAIN uses : SameCell(j, k) /\ Identity(k).kept
  <2> DEFINE scopes == {Identity(k).scope : k \in Group(i)}
             kept == KeptScopes(uses[i].name, Group(i), Identities)
  <2>1. Group(i) = Group(j)
    BY <1>1, <1>2 DEF Group
  <2>2. Identity(i).scope \in scopes /\ Identity(j).scope \in scopes
    BY <1>1, <1>2 DEF Group
  <2>3. Cardinality(scopes) # 1
    <3>1. IsFiniteSet(scopes)
      BY ScopesAreFinite
    <3> HIDE DEF scopes
    <3>2. Cardinality(scopes) = 1 <=> \E x : scopes = {x}
      BY <3>1, FS_Singleton
    <3> QED BY <1>2, <2>2, <3>2
  <2>4. Identity(i).scope \in kept /\ Identity(j).scope \in kept
    <3>1. MadeUp(uses[i].name, Identity(i)) # MadeUp(uses[j].name, Identity(j))
      BY <1>2 DEF MadeUp
    <3>2. /\ Plain(uses[i].name) # MadeUp(uses[j].name, Identity(j))
          /\ Plain(uses[j].name) # MadeUp(uses[i].name, Identity(i))
      BY DEF MadeUp, Plain
    <3> HIDE DEF scopes, kept
    <3>3. Spelling(Identities, i) = IF Identity(i).scope \in kept THEN Plain(uses[i].name)
                                    ELSE MadeUp(uses[i].name, Identity(i))
      BY <2>3, SpellingIs DEF scopes, kept
    <3>4. Spelling(Identities, j) = IF Identity(j).scope \in kept THEN Plain(uses[j].name)
                                    ELSE MadeUp(uses[j].name, Identity(j))
      BY <1>1, <2>1, <2>3, SpellingIs DEF scopes, kept
    <3> QED BY <3>1, <3>2, <3>3, <3>4
  <2>5. uses[i].name \in Trusted
    BY <1>2, <2>4 DEF KeptScopes
  <2>6. kept = {Identity(k).scope : k \in {l \in Group(i) : Identity(l).kept}}
    BY <2>5, TrustedScopes
  <2>7. PICK k \in Group(i) : Identity(k).kept /\ Identity(k).scope = Identity(i).scope
    BY <2>4, <2>6
  <2>8. PICK l \in Group(i) : Identity(l).kept /\ Identity(l).scope = Identity(j).scope
    BY <2>4, <2>6
  <2>9. k \in DOMAIN uses /\ SameCell(i, k) /\ l \in DOMAIN uses /\ SameCell(j, l)
    BY <1>1, <1>2, <2>7, <2>8 DEF Group, SameCell
  <2> QED BY <2>5, <2>7, <2>8, <2>9
<1> QED BY <1>1, <1>2

-----------------------------------------------------------------------------
(* The owner of a name, and the cell of an imported one.                    *)
LEMMA NodeOfUse ==
    ASSUME Shape, NEW i \in DOMAIN uses
    PROVE  uses[i].node \in DOMAIN nodes /\ uses[i].act \in Acts
BY DEF Shape, UsesShape

LEMMA OwnerIs ==
    ASSUME Shape, NEW i \in DOMAIN uses
    PROVE  LET n == uses[i].node
               s == ScopeOf(n)
           IN  /\ Owner(i) \in Line(n) /\ Owner(i) \in Scopes /\ Owner(i) <= s
               /\ ~Imported(i) \/ Shadowed(i) => Owner(i) = s
               /\ Imported(i) /\ ~Shadowed(i) =>
                     /\ Owner(i) # s /\ s \in ImportersOf(uses[i].name)
                     /\ uses[i].name \notin nodes[Owner(i)].imports
                     /\ \A m \in Line(n) : m \in Scopes /\ m > Owner(i) =>
                           uses[i].name \in nodes[m].imports
<1> DEFINE n == uses[i].node
           s == ScopeOf(n)
           name == uses[i].name
<1>1. n \in DOMAIN nodes
  BY NodeOfUse
<1>2. /\ s \in Line(n) /\ s \in Scopes /\ Line(n) \subseteq DOMAIN nodes
      /\ Line(n) \subseteq Nat /\ 1 \in Line(n)
      /\ \A m \in Line(n) : m \in Scopes => m <= s
  BY <1>1, ScopeAbove
<1>3. CASE ~Imported(i) \/ Shadowed(i)
  BY <1>2, <1>3 DEF Owner
<1>4. CASE Imported(i) /\ ~Shadowed(i)
  <2> DEFINE S == Scopes \ ImportersOf(name)
  <2>1. 1 \in Scopes /\ 1 \notin ImportersOf(name)
    BY <1>1, ScopeAbove DEF ImportersOf
  <2>2. 1 \in Line(n) \cap S
    BY <1>2, <2>1
  <2>3. Nearest(n, S) \in Line(n) \cap S /\ \A m \in Line(n) \cap S : m <= Nearest(n, S)
    BY <1>1, <2>2, NearestIs
  <2>4. Owner(i) = Nearest(n, S)
    BY <1>4 DEF Owner
  <2>5. s \in ImportersOf(name)
    BY <1>2, <1>4 DEF Imported, ImportersOf
  <2>6. name \notin nodes[Owner(i)].imports
    BY <2>3, <2>4 DEF ImportersOf
  <2>7. \A m \in Line(n) : m \in Scopes /\ m > Owner(i) => name \in nodes[m].imports
    BY <1>2, <2>3, <2>4 DEF ImportersOf
  <2> QED BY <1>2, <1>4, <2>3, <2>4, <2>5, <2>6, <2>7
<1> QED BY <1>3, <1>4

(* The habits of section "what the authors meant", as what they leave true. *)
NoClosures ==
    \A i \in Loads : \A j \in MeantBy(i) :
        uses[j].act # "import" => BoundIn(j) = FunctionOf(uses[i].node)

KeepsAgree ==
    \A i \in DOMAIN uses : \A s \in ImportersOf(uses[i].name) :
        uses[i].name \in Trusted /\ Owner(i) # ScopeOf(uses[i].node) =>
            uses[i].name \in nodes[Owner(i)].keeps

ParametersNear ==
    \A i \in Loads : MeantParameter(i) # {} =>
        OuterScope(uses[i].node) \notin OfKind({"expression"})

ManagedReadAtTop ==
    \A i \in Loads : \A j \in MeantBy(i) :
        uses[j].act = "import" /\ FunctionOf(uses[i].node) # 1 =>
            /\ Owner(i) = ScopeOf(uses[i].node)
            /\ \A k \in Binders : uses[k].name = uses[i].name =>
                  BoundIn(k) \notin Line(uses[i].node) \ {1}

ManagedBoundOnce ==
    \A j \in Binders : uses[j].act # "import" => uses[j].name \notin nodes[Owner(j)].manages

ManagedAbove ==
    \A i \in DOMAIN uses : \A n \in Line(uses[i].node) :
        Owner(i) # ScopeOf(uses[i].node) /\ n < Owner(i) => uses[i].name \notin nodes[n].manages

ImportsSeen == \A i \in DOMAIN uses : ~(Imported(i) /\ Shadowed(i))

LEMMA HabitsLeave ==
    /\ ~Breaks("closures") => NoClosures
    /\ ~Breaks("keeping a name someone imports") => KeepsAgree
    /\ ~Breaks("parameters below a nested expression") => ParametersNear
    /\ ~Breaks("managed names in functions") => ManagedReadAtTop
    /\ ~Breaks("rebinding a managed name") => ManagedBoundOnce
    /\ ~Breaks("importing below a managed name") => ManagedAbove
    /\ ~Breaks("shadowing an imported name") => ImportsSeen
<1>1. ~Breaks("closures") => NoClosures
  BY DEF Breaks, NoClosures
<1>2. ~Breaks("keeping a name someone imports") => KeepsAgree
  BY DEF Breaks, KeepsAgree
<1>3. ~Breaks("parameters below a nested expression") => ParametersNear
  BY DEF Breaks, ParametersNear
<1>4. ~Breaks("managed names in functions") => ManagedReadAtTop
  BY DEF Breaks, ManagedReadAtTop
<1>5. ~Breaks("rebinding a managed name") => ManagedBoundOnce
  BY DEF Breaks, ManagedBoundOnce
<1>6. ~Breaks("importing below a managed name") => ManagedAbove
  BY DEF Breaks, ManagedAbove
<1>7. ~Breaks("shadowing an imported name") => ImportsSeen
  BY DEF Breaks, ImportsSeen
<1> QED BY <1>1, <1>2, <1>3, <1>4, <1>5, <1>6, <1>7

(* An import that nobody keeps follows its owner, or the managed name.      *)
LEMMA ImportedCell ==
    ASSUME Shape, NEW i \in DOMAIN uses, uses[i].act \in {"load", "store"},
           Imported(i), ~Shadowed(i), uses[i].name \notin Trusted,
           ManagedAbove
    PROVE  /\ Identity(i).domain = FunctionOf(uses[i].node) /\ ~Identity(i).kept
           /\ Identity(i).scope = IF uses[i].name \in nodes[Owner(i)].manages
                                  THEN TheImport ELSE Owner(i)
<1> DEFINE n == uses[i].node
           s == ScopeOf(n)
           name == uses[i].name
           w == Owner(i)
<1>1. n \in DOMAIN nodes /\ s \in Line(n) /\ s \in Nat /\ Line(n) \subseteq Nat
      /\ Line(n) \subseteq DOMAIN nodes
  BY NodeOfUse, ScopeAbove
<1>2. /\ w \in Line(n) /\ w \in Scopes /\ w <= s /\ w # s
      /\ name \notin nodes[w].imports /\ s \in ImportersOf(name)
      /\ \A m \in Line(n) : m \in Scopes /\ m > w => name \in nodes[m].imports
  BY OwnerIs
<1>3. Identity(i) = Occurrence(ImportOrigin(s, name), FunctionOf(n), FALSE)
  BY DEF Identity, Imported, ImportedOccurrence
<1>4. /\ Identity(i).domain = FunctionOf(n) /\ ~Identity(i).kept
      /\ Identity(i).scope = ImportOrigin(s, name)
  BY <1>3 DEF Occurrence
<1>5. s \in DOMAIN nodes /\ Line(s) = {k \in Line(n) : k <= s}
  BY <1>1, LineAbove
<1>6. w \in Nat /\ w \in (Line(s) \cap Scopes) \ {s} /\ Line(s) \subseteq Nat
  BY <1>1, <1>2, <1>5
<1>7. ASSUME NEW a \in (Line(s) \cap Scopes) \ {s}, name \in nodes[a].manages PROVE a = w
  <2>1. a \in Line(n) /\ a \in Nat /\ a \in Scopes
    BY <1>1, <1>5
  <2>2. ~(a < w)
    BY <1>2, <1>7, <2>1 DEF ManagedAbove
  <2>3. name \notin nodes[a].imports
    BY <1>1, <1>7, <2>1 DEF Shape, OneDirective
  <2>4. ~(a > w)
    BY <1>2, <2>1, <2>3
  <2> HIDE DEF w
  <2> QED BY <1>6, <2>1, <2>2, <2>4
<1>8. CASE name \in nodes[w].manages
  <2>1. ImportOrigin(s, name) = TheImport
    BY <1>6, <1>8 DEF ImportOrigin
  <2> QED BY <1>4, <1>8, <2>1
<1>9. CASE name \notin nodes[w].manages
  <2> DEFINE S == Scopes \ ImportersOf(name)
  <2>1. ImportOrigin(s, name) = Nearest(s, S \cup {1})
    BY <1>7, <1>9 DEF ImportOrigin
  <2>2. 1 \in S
    BY <1>1, ScopeAbove DEF ImportersOf
  <2>3. S \cup {1} = S
    BY <2>2
  <2>4. w \in Line(s) \cap S
    BY <1>2, <1>6 DEF ImportersOf
  <2>5. Nearest(s, S) \in Line(s) \cap S /\ \A m \in Line(s) \cap S : m <= Nearest(s, S)
    BY <1>5, <2>4, NearestIs
  <2>6. \A m \in Line(s) \cap S : ~(m > w)
    BY <1>2, <1>5 DEF ImportersOf
  <2> HIDE DEF w, S
  <2>7. Nearest(s, S) \in Nat /\ ~(Nearest(s, S) > w) /\ w <= Nearest(s, S)
    BY <1>6, <2>4, <2>5, <2>6
  <2>8. Nearest(s, S) = w
    BY <1>6, <2>7
  <2> QED BY <1>4, <1>9, <2>1, <2>3, <2>8 DEF w
<1> QED BY <1>8, <1>9

(* An import of a kept name is kept, and so it is by its owner.             *)
LEMMA TrustedImport ==
    ASSUME Shape, NEW i \in DOMAIN uses, uses[i].act \in {"load", "store"},
           Imported(i), uses[i].name \in Trusted
    PROVE  /\ Identity(i) = Occurrence(ScopeOf(uses[i].node), FunctionOf(uses[i].node), TRUE)
           /\ Spelling(Identities, i) = Plain(uses[i].name)
           /\ KeepsAgree /\ ~Shadowed(i) =>
                 uses[i].name \in nodes[Owner(i)].keeps
<1>1. Identity(i) = Occurrence(ScopeOf(uses[i].node), FunctionOf(uses[i].node), TRUE)
  BY DEF Identity, Imported, ImportedOccurrence
<1>2. SameCell(i, i) /\ Identity(i).kept
  BY <1>1 DEF SameCell, Occurrence
<1>3. ASSUME KeepsAgree, ~Shadowed(i)
      PROVE  uses[i].name \in nodes[Owner(i)].keeps
  <2>1. /\ Owner(i) # ScopeOf(uses[i].node)
        /\ ScopeOf(uses[i].node) \in ImportersOf(uses[i].name)
    BY <1>3, OwnerIs
  <2> QED BY <1>3, <2>1 DEF KeepsAgree
<1> QED BY <1>1, <1>2, <1>3, KeptSpelledPlain

(* The cell of a binding: its owner's, in the function that binds it.       *)
LEMMA BinderCell ==
    ASSUME Shape, NEW j \in Binders,
           ~(uses[j].act = "store" /\ Imported(j) /\ uses[j].name \in Trusted),
           ManagedAbove,
           ManagedBoundOnce,
           ImportsSeen
    PROVE  /\ Identity(j).domain = BoundIn(j)
           /\ Identity(j).scope = IF uses[j].act = "import" THEN TheImport ELSE Owner(j)
           /\ uses[j].act = "parameter" => Identity(j).kept
           /\ uses[j].act = "store" /\ ~Imported(j) =>
                 Identity(j).kept = (uses[j].name \in nodes[Owner(j)].keeps)
<1>1. j \in DOMAIN uses /\ uses[j].act \in {"store", "parameter", "import"}
  BY DEF Binders, Binds
<1>2. CASE uses[j].act = "import"
  BY <1>2 DEF Identity, Occurrence, BoundIn
<1>3. CASE uses[j].act = "parameter"
  <2>1. uses[j].node \in Line(uses[j].node)
    BY <1>1, NodeOfUse, Above
  <2>2. Shadowed(j)
    BY <1>1, <1>3, <2>1 DEF Shadowed
  <2>3. Owner(j) = ScopeOf(uses[j].node)
    BY <2>2 DEF Owner
  <2> QED BY <1>3, <2>3 DEF Identity, ParameterOccurrence, Occurrence, BoundIn
<1>4. CASE uses[j].act = "store" /\ ~Imported(j)
  <2>1. Owner(j) = ScopeOf(uses[j].node)
    BY <1>4 DEF Owner
  <2> QED BY <1>4, <2>1 DEF Identity, Imported, StoreOccurrence, Occurrence, BoundIn
<1>5. CASE uses[j].act = "store" /\ Imported(j)
  <2>1. ~Shadowed(j)
    BY <1>1, <1>5 DEF ImportsSeen
  <2>2. uses[j].name \notin nodes[Owner(j)].manages
    BY <1>5 DEF ManagedBoundOnce
  <2>3. /\ Identity(j).domain = FunctionOf(uses[j].node)
        /\ Identity(j).scope = Owner(j)
    BY <1>1, <1>5, <2>1, <2>2, ImportedCell
  <2> QED BY <1>5, <2>3 DEF BoundIn
<1> QED BY <1>1, <1>2, <1>3, <1>4, <1>5

-----------------------------------------------------------------------------
LEMMA OccurrenceKept ==
    ASSUME NEW scope, NEW domain, NEW kept \in BOOLEAN, Occurrence(scope, domain, kept).kept
    PROVE  kept
BY Zenon DEF Occurrence

(* A managed import stands at the top of its snippet. *)
LEMMA ImportIs ==
    ASSUME Shape, NEW k \in DOMAIN uses, uses[k].act = "import"
    PROVE  LET n == uses[k].node
           IN  /\ ScopeOf(n) = n /\ uses[k].name \in nodes[n].manages
               /\ nodes[n].keeps = {} /\ nodes[n].imports = {}
<1> DEFINE n == uses[k].node
           s == ScopeOf(n)
<1>1. n \in DOMAIN nodes /\ uses[k].name \in nodes[n].manages
  BY DEF Shape, UsesShape
<1>2. /\ nodes[n].kind \notin {"expression", "function"}
      /\ nodes[n].keeps = {} /\ nodes[n].imports = {}
  BY <1>1 DEF Shape, OneDirective
<1>3. /\ n \in Line(n) /\ n \in Nat /\ s \in Line(n) /\ Line(n) \subseteq 1 .. n
      /\ \A m \in Line(n) : m <= s \/ nodes[m].kind = "function"
  BY <1>1, Above
<1>4. n <= s /\ s <= n /\ s \in Nat
  BY <1>2, <1>3
<1>5. s = n
  BY <1>3, <1>4
<1> QED BY <1>1, <1>2, <1>5

(* Who keeps a name: what preserves an occurrence of a trusted name.        *)
LEMMA KeptIs ==
    ASSUME Shape, NEW k \in DOMAIN uses, Identity(k).kept, uses[k].name \in Trusted
    PROVE  LET n == uses[k].node
               s == ScopeOf(n)
           IN  /\ Identity(k).scope = s /\ Identity(k).domain = FunctionOf(n)
               /\ \/ uses[k].act = "parameter"
                  \/ uses[k].act = "store" /\ uses[k].name \in nodes[s].keeps
                  \/ uses[k].name \in nodes[s].imports
                  \/ uses[k].act = "load" /\ uses[k].name \notin Bindings(n)
<1> DEFINE n == uses[k].node
           s == ScopeOf(n)
           name == uses[k].name
<1>1. n \in DOMAIN nodes /\ uses[k].act \in Acts
  BY NodeOfUse
<1>2. CASE uses[k].act = "import"
  <2>1. s = n /\ nodes[n].keeps = {}
    BY <1>2, ImportIs
  <2>4. Identity(k) = Occurrence(TheImport, 1, name \in nodes[s].keeps)
    BY <1>2 DEF Identity
  <2>5. name \in nodes[s].keeps
    <3> DEFINE kept == name \in nodes[s].keeps
    <3>1. kept \in BOOLEAN /\ Occurrence(TheImport, 1, kept).kept
      BY <2>4
    <3> HIDE DEF kept
    <3>2. kept
      BY <3>1, OccurrenceKept
    <3> QED BY <3>2 DEF kept
  <2> QED BY <2>1, <2>5
<1>3. CASE uses[k].act = "parameter"
  BY <1>3 DEF Identity, ParameterOccurrence, Occurrence
<1>4. CASE uses[k].act \in {"load", "store"} /\ name \in nodes[s].imports
  <2>1. Identity(k) = Occurrence(s, FunctionOf(n), TRUE)
    BY <1>4, TrustedImport DEF Imported
  <2> QED BY <1>4, <2>1 DEF Occurrence
<1>5. CASE uses[k].act = "store" /\ name \notin nodes[s].imports
  <2> DEFINE kept == name \in nodes[s].keeps
  <2>1. Identity(k) = Occurrence(s, FunctionOf(n), kept) /\ kept \in BOOLEAN
    BY <1>5 DEF Identity, StoreOccurrence
  <2>2. Identity(k).scope = s /\ Identity(k).domain = FunctionOf(n)
    BY <2>1 DEF Occurrence
  <2>3. kept
    <3>1. Occurrence(s, FunctionOf(n), kept).kept
      BY <2>1
    <3> HIDE DEF kept
    <3> QED BY <2>1, <3>1, OccurrenceKept
  <2> QED BY <1>5, <2>2, <2>3
<1>6. CASE uses[k].act = "load" /\ name \notin nodes[s].imports
  <2>1. Identity(k) = LoadOccurrence(n, name)
    BY <1>6 DEF Identity
  <2>2. ~(name \in nodes[s].manages /\ name \notin Bindings(n))
    BY <2>1 DEF LoadOccurrence, Occurrence
  <2>3. Identity(k) = Occurrence(
           IF LoadRole(n, name) = "external" THEN OuterScope(n) ELSE s,
           FunctionOf(n), LoadRole(n, name) = "preserved")
    BY <2>1, <2>2 DEF LoadOccurrence
  <2>4. LoadRole(n, name) = "preserved"
    BY <2>3, OccurrenceKept
  <2>5. Identity(k).scope = s /\ Identity(k).domain = FunctionOf(n)
    BY <2>3, <2>4 DEF Occurrence
  <2>6. name \notin Bindings(n)
    BY <2>4 DEF LoadRole
  <2> QED BY <1>6, <2>5, <2>6
<1> QED BY <1>1, <1>2, <1>3, <1>4, <1>5, <1>6 DEF Acts

LEMMA ParameterIs ==
    ASSUME Shape, NEW i \in DOMAIN uses, uses[i].act = "parameter"
    PROVE  /\ FunctionOf(uses[i].node) = uses[i].node /\ BodyOf(uses[i].node) = uses[i].node
           /\ Owner(i) = ScopeOf(uses[i].node) /\ Owned(i)
<1> DEFINE n == uses[i].node
<1>1. n \in DOMAIN nodes /\ nodes[n].kind = "function"
  BY DEF Shape, UsesShape
<1>2. /\ n \in Line(n) /\ n \in Nat /\ Line(n) \subseteq 1 .. n
      /\ FunctionOf(n) \in Line(n) /\ BodyOf(n) \in Line(n)
      /\ \A m \in Line(n) : m <= FunctionOf(n) \/ nodes[m].kind \in {"shell", "expression"}
      /\ \A m \in Line(n) : m <= BodyOf(n) \/ nodes[m].kind = "expression"
  BY <1>1, Above
<1>3. n <= FunctionOf(n) /\ n <= BodyOf(n)
  BY <1>1, <1>2
<1>4. FunctionOf(n) = n /\ BodyOf(n) = n
  BY <1>2, <1>3
<1>5. Shadowed(i)
  BY <1>2 DEF Shadowed
<1>6. Owner(i) = ScopeOf(n)
  BY <1>5 DEF Owner
<1>7. BoundIn(i) = n
  BY <1>4 DEF BoundIn
<1>8. Owned(i)
  BY <1>7 DEF Owned
<1> QED BY <1>4, <1>6, <1>8

(* Bindings stand outside expressions, so in one cell is in one body.       *)
LEMMA SameBody ==
    ASSUME Shape, NEW i \in Binders, NEW n \in DOMAIN nodes,
           ScopeOf(n) = ScopeOf(uses[i].node), FunctionOf(n) = FunctionOf(uses[i].node)
    PROVE  BodyOf(n) = BodyOf(uses[i].node)
<1>1. /\ uses[i].node \in DOMAIN nodes
      /\ nodes[uses[i].node].kind # "expression"
  BY DEF Shape, UsesShape, Binders, Binds
<1>2. nodes[ScopeOf(uses[i].node)].kind # "expression"
  BY <1>1, Above
<1> QED BY <1>1, <1>2, BodyIsCell

(* A binding whose cell keeps its name owns it. *)
LEMMA KeptOwned ==
    ASSUME Shape, ManagedAbove, ManagedBoundOnce, ImportsSeen,
           NEW i \in Binders, NEW k \in DOMAIN uses, SameCell(i, k), Identity(k).kept,
           uses[i].name \in Trusted, ~(uses[i].act = "store" /\ Imported(i))
    PROVE  Owned(i)
<1> DEFINE n == uses[k].node
           s == ScopeOf(n)
           name == uses[i].name
<1>1. /\ i \in DOMAIN uses /\ uses[i].act \in {"store", "parameter", "import"}
      /\ uses[i].node \in DOMAIN nodes /\ n \in DOMAIN nodes
  BY NodeOfUse DEF Binders, Binds
<1>2. /\ Identity(i).domain = BoundIn(i)
      /\ Identity(i).scope = IF uses[i].act = "import" THEN TheImport ELSE Owner(i)
  BY BinderCell
<1>3. /\ Identity(k).scope = s /\ Identity(k).domain = FunctionOf(n)
      /\ \/ uses[k].act = "parameter"
         \/ uses[k].act = "store" /\ name \in nodes[s].keeps
         \/ name \in nodes[s].imports
         \/ uses[k].act = "load" /\ name \notin Bindings(n)
  BY KeptIs DEF SameCell
<1>4. CASE uses[i].act = "parameter"
  BY <1>1, <1>4, ParameterIs
<1>5. CASE uses[i].act = "import"
  <2>1. s \in DOMAIN nodes
    BY <1>1, Above
  <2>2. s # TheImport
    BY <2>1, HygieneAssumption DEF TheImport, Shape, NodesShape
  <2> QED BY <1>2, <1>3, <1>5, <2>2 DEF SameCell
<1>6. CASE uses[i].act = "store"
  <2>1. Owner(i) = ScopeOf(uses[i].node) /\ name \notin nodes[Owner(i)].imports
    BY <1>6 DEF Owner, Imported
  <2>2. s = Owner(i) /\ FunctionOf(n) = BoundIn(i) /\ BoundIn(i) = FunctionOf(uses[i].node)
        /\ uses[k].name = name
    BY <1>2, <1>3, <1>6 DEF SameCell, BoundIn
  <2>3. CASE uses[k].act = "parameter"
    <3>1. n = BoundIn(i) /\ Owner(k) = Owner(i)
      BY <2>2, <2>3, ParameterIs
    <3> QED BY <2>2, <2>3, <3>1 DEF Owned
  <2>4. CASE name \in nodes[s].keeps
    BY <2>2, <2>4 DEF Owned
  <2>5. CASE name \notin Bindings(n)
    <3>1. BodyOf(n) = BodyOf(uses[i].node)
      BY <1>1, <2>1, <2>2, SameBody
    <3>2. name \in Bindings(n)
      BY <1>1, <1>6, <3>1 DEF Bindings, Binds
    <3> QED BY <2>5, <3>2
  <2> QED BY <1>3, <2>1, <2>2, <2>3, <2>4, <2>5
<1> QED BY <1>1, <1>4, <1>5, <1>6

(* Two bindings of one function that are spelled alike have one owner, or   *)
(* own the spelling.                                                        *)
LEMMA AlikeOwned ==
    ASSUME Typed, Shape, KeepsAgree, ManagedAbove, ManagedBoundOnce, ImportsSeen,
           NEW i \in Binders, NEW j \in Binders,
           Spelling(Identities, i) = Spelling(Identities, j), BoundIn(i) = BoundIn(j),
           {uses[i].act, uses[j].act} # {"import"},
           Owner(i) # Owner(j) \/ "import" \in {uses[i].act, uses[j].act}
    PROVE  Owned(i)
<1> DEFINE Taken(b) == uses[b].act = "store" /\ Imported(b) /\ uses[b].name \in Trusted
<1>1. i \in DOMAIN uses /\ j \in DOMAIN uses
  BY DEF Binders
<1>2. \A b \in Binders : Taken(b) =>
         /\ Identity(b).domain = BoundIn(b) /\ Identity(b).kept
         /\ uses[b].name \in nodes[Owner(b)].keeps
  <2> SUFFICES ASSUME NEW b \in Binders, Taken(b)
               PROVE  /\ Identity(b).domain = BoundIn(b) /\ Identity(b).kept
                      /\ uses[b].name \in nodes[Owner(b)].keeps
    OBVIOUS
  <2>1. b \in DOMAIN uses
    BY DEF Binders
  <2>2. Identity(b) = Occurrence(ScopeOf(uses[b].node), FunctionOf(uses[b].node), TRUE)
    BY <2>1, TrustedImport
  <2>3. ~Shadowed(b) /\ Owner(b) # ScopeOf(uses[b].node)
        /\ ScopeOf(uses[b].node) \in ImportersOf(uses[b].name)
    BY <2>1, OwnerIs DEF ImportsSeen
  <2>4. uses[b].name \in nodes[Owner(b)].keeps
    BY <2>1, <2>3 DEF KeepsAgree
  <2> QED BY <2>2, <2>4 DEF Occurrence, BoundIn
<1>3. \A b \in Binders : ~Taken(b) =>
         /\ Identity(b).domain = BoundIn(b)
         /\ Identity(b).scope = IF uses[b].act = "import" THEN TheImport ELSE Owner(b)
  BY BinderCell
<1>4. CASE Taken(i)
  BY <1>2, <1>4 DEF Owned
<1>5. CASE ~Taken(i)
  <2>1. Identity(i).domain = Identity(j).domain
    BY <1>2, <1>3
  <2>2. /\ uses[i].name = uses[j].name
        /\ \/ Identity(i).scope = Identity(j).scope
           \/ /\ uses[i].name \in Trusted
              /\ \E k \in DOMAIN uses : SameCell(i, k) /\ Identity(k).kept
    BY <1>1, <2>1, SpelledAlike
  <2>3. CASE uses[i].name \in Trusted
             /\ \E k \in DOMAIN uses : SameCell(i, k) /\ Identity(k).kept
    BY <1>5, <2>3, KeptOwned
  <2>4. CASE Identity(i).scope = Identity(j).scope /\ Taken(j)
    <3>1. SameCell(i, j) /\ Identity(j).kept /\ uses[i].name \in Trusted
      BY <1>2, <2>1, <2>2, <2>4 DEF SameCell
    <3> QED BY <1>1, <1>5, <3>1, KeptOwned
  <2>5. CASE Identity(i).scope = Identity(j).scope /\ ~Taken(j)
    <3>1. Owner(i) # TheImport /\ Owner(j) # TheImport
      <4>1. /\ uses[i].node \in DOMAIN nodes /\ uses[j].node \in DOMAIN nodes
            /\ Owner(i) \in Line(uses[i].node) /\ Owner(j) \in Line(uses[j].node)
        BY <1>1, NodeOfUse, OwnerIs
      <4>2. Owner(i) \in DOMAIN nodes /\ Owner(j) \in DOMAIN nodes
        BY <4>1, ScopeAbove
      <4> QED BY <4>2, HygieneAssumption DEF TheImport, Shape, NodesShape
    <3>2. uses[i].act # "import" \/ uses[j].act # "import"
      OBVIOUS
    <3> QED BY <1>3, <1>5, <2>5, <3>1, <3>2
  <2> QED BY <2>2, <2>3, <2>4, <2>5
<1> QED BY <1>4, <1>5

LEMMA BindingsApartHolds ==
    ASSUME HInv, KeepsAgree, ManagedAbove, ManagedBoundOnce, ImportsSeen
    PROVE  BindingsApart
<1> SUFFICES ASSUME Emitted, NEW i \in Binders, NEW j \in Binders,
                    emitted[i] = emitted[j], BoundIn(i) = BoundIn(j),
                    {uses[i].act, uses[j].act} # {"import"},
                    Owner(i) # Owner(j) \/ "import" \in {uses[i].act, uses[j].act}
             PROVE  Owned(i) /\ Owned(j)
  BY DEF BindingsApart
<1>1. Spelling(Identities, i) = Spelling(Identities, j)
  BY DEF HInv, Spelled, Binders
<1>2. Owned(i)
  BY <1>1, AlikeOwned DEF HInv
<1>3. Owned(j)
  BY <1>1, AlikeOwned DEF HInv
<1> QED BY <1>2, <1>3

-----------------------------------------------------------------------------
(* Kept names, parameters, and the imports that follow their owners.        *)
LEMMA KeptStore ==
    ASSUME Shape, NEW i \in DOMAIN uses, uses[i].act = "store",
           uses[i].name \in nodes[ScopeOf(uses[i].node)].keeps
    PROVE  Spelling(Identities, i) = Plain(uses[i].name)
<1> DEFINE n == uses[i].node
<1>1. ScopeOf(n) \in DOMAIN nodes
  BY NodeOfUse, ScopeAbove
<1>2. uses[i].name \notin nodes[ScopeOf(n)].imports /\ uses[i].name \in Trusted
  BY <1>1 DEF Shape, OneDirective, Trusted
<1>3. Identity(i) = Occurrence(ScopeOf(n), FunctionOf(n), TRUE)
  BY <1>2 DEF Identity, StoreOccurrence
<1>4. SameCell(i, i) /\ Identity(i).kept
  BY <1>3 DEF SameCell, Occurrence
<1> QED BY <1>2, <1>4, KeptSpelledPlain

LEMMA KeptNamesHold == HInv => KeptNamesLiteral
BY KeptStore DEF HInv, Spelled, KeptNamesLiteral

LEMMA DomainIs ==
    ASSUME Shape, NEW k \in DOMAIN uses
    PROVE  /\ Identity(k).domain \in {1, FunctionOf(uses[k].node)}
           /\ uses[k].act = "parameter" =>
                 Identity(k) = Occurrence(ScopeOf(uses[k].node), FunctionOf(uses[k].node), TRUE)
BY NodeOfUse DEF Identity, ParameterOccurrence, ImportedOccurrence, LoadOccurrence,
                 StoreOccurrence, Occurrence, Acts

LEMMA ParameterPlain ==
    ASSUME Typed, Shape, NEW i \in DOMAIN uses, uses[i].act = "parameter"
    PROVE  Spelling(Identities, i) = Plain(uses[i].name)
<1> DEFINE f == uses[i].node
<1>1. FunctionOf(f) = f /\ f \in DOMAIN nodes /\ nodes[f].kind = "function"
  BY ParameterIs DEF Shape, UsesShape
<1>2. f # 1
  BY <1>1 DEF Shape, NodesShape
<1>3. Identity(i).scope = ScopeOf(f) /\ Identity(i).domain = f /\ Identity(i).kept
  BY <1>1, DomainIs DEF Occurrence
<1>4. ASSUME NEW k \in Group(i), k <= i PROVE Identity(k).scope = Identity(i).scope
  <2>1. k \in DOMAIN uses /\ Identity(k).domain = f
    BY <1>3 DEF Group
  <2>2. f = FunctionOf(uses[k].node)
    BY <1>2, <2>1, DomainIs
  <2>3. f \in Line(uses[k].node)
    BY <2>1, <2>2, NodeOfUse, Above
  <2>4. i \in Nat /\ k \in Nat
    BY <2>1 DEF Typed
  <2>5. uses[k].act = "parameter"
    BY <1>4, <2>1, <2>3, <2>4 DEF Shape, ParametersFirst
  <2>6. uses[k].node = f
    BY <2>1, <2>2, <2>5, ParameterIs
  <2> QED BY <1>3, <2>1, <2>5, <2>6, DomainIs DEF Occurrence
<1> QED BY <1>3, <1>4, FirstKeptPlain

(* A name bound in the function it is read in is bound there.               *)
LEMMA ResolveHere ==
    ASSUME Shape, NEW i \in DOMAIN uses, NEW B, NEW j \in B,
           BoundIn(j) = FunctionOf(uses[i].node)
    PROVE  Resolve(i, B) = {k \in B : BoundIn(k) = FunctionOf(uses[i].node)}
<1> DEFINE f == FunctionOf(uses[i].node)
           around == {k \in B : BoundIn(k) \in Line(f)}
           bodies == {BoundIn(k) : k \in around}
<1>1. f \in DOMAIN nodes
  BY NodeOfUse, Above
<1>2. f \in Nat /\ f \in Line(f) /\ Line(f) \subseteq 1 .. f
  BY <1>1, Above
<1>3. j \in around /\ f \in bodies /\ bodies \subseteq 1 .. f
  BY <1>2
<1>4. Max(bodies) \in bodies /\ f <= Max(bodies)
  BY <1>2, <1>3, MaxIs
<1>5. Max(bodies) = f
  BY <1>2, <1>3, <1>4
<1>6. Resolve(i, B) = {k \in around : BoundIn(k) = Max(bodies)}
  BY <1>3 DEF Resolve
<1>7. {k \in around : BoundIn(k) = f} = {k \in B : BoundIn(k) = f}
  BY <1>2
<1> QED BY <1>5, <1>6, <1>7

LEMMA ParentIs ==
    ASSUME Shape, NEW n \in DOMAIN nodes, n # 1
    PROVE  /\ Parent(n) \in DOMAIN nodes /\ Parent(n) \in Line(n) /\ Parent(n) < n
           /\ Line(Parent(n)) = Line(n) \ {n}
<1>1. /\ n \in Nat /\ n \in Line(n) /\ 1 \in Line(n) /\ Line(n) \subseteq 1 .. n
  BY Above
<1>2. /\ Parent(n) \in Line(n) \ {n} /\ \A m \in Line(n) \ {n} : m <= Parent(n)
  BY <1>1, MaxIs DEF Parent
<1>3. Parent(n) \in DOMAIN nodes /\ Line(Parent(n)) = {k \in Line(n) : k <= Parent(n)}
  BY <1>2, LineAbove
<1>4. Parent(n) \in Nat /\ Parent(n) < n
  BY <1>1, <1>2
<1>5. {k \in Line(n) : k <= Parent(n)} = Line(n) \ {n}
  BY <1>1, <1>2, <1>4
<1> QED BY <1>2, <1>3, <1>4, <1>5

(* An expression right below a function shares the cell of its parameters.  *)
LEMMA ParameterSeen ==
    ASSUME Typed, Shape, ParametersNear, NEW i \in Loads, NEW j \in MeantParameter(i)
    PROVE  /\ j \in Binders /\ BoundIn(j) = FunctionOf(uses[i].node)
           /\ Spelling(Identities, i) = Spelling(Identities, j)
<1> DEFINE n == uses[i].node
           f == uses[j].node
           q == ScopeOf(Parent(n))
<1>1. /\ i \in DOMAIN uses /\ uses[i].act = "load" /\ n \in DOMAIN nodes
      /\ j \in DOMAIN uses /\ uses[j].act = "parameter" /\ uses[j].name = uses[i].name
      /\ nodes[n].kind = "expression" /\ f = FunctionOf(n) /\ f = BodyOf(n)
  BY NodeOfUse DEF Loads, MeantParameter
<1>2. /\ f \in DOMAIN nodes /\ nodes[f].kind = "function"
      /\ FunctionOf(f) = f /\ BodyOf(f) = f
  BY <1>1, ParameterIs DEF Shape, UsesShape
<1>3. j \in Binders /\ BoundIn(j) = f
  BY <1>1, <1>2 DEF Binders, Binds, BoundIn
<1>4. /\ n \in Nat /\ n \in Line(n) /\ Line(n) \subseteq 1 .. n /\ f \in Line(n) /\ f # n /\ n # 1
      /\ \A m \in Line(n) : m <= f \/ nodes[m].kind = "expression"
  <2>1. /\ n \in Nat /\ n \in Line(n) /\ Line(n) \subseteq 1 .. n /\ BodyOf(n) \in Line(n)
        /\ \A m \in Line(n) : m <= BodyOf(n) \/ nodes[m].kind = "expression"
    BY <1>1, Above
  <2>2. n # 1
    BY <1>1 DEF Shape, NodesShape
  <2> QED BY <1>1, <1>2, <2>1, <2>2
<1>5. ScopeOf(n) = n
  <2>1. /\ ScopeOf(n) \in Line(n) /\ n \in Scopes
        /\ \A m \in Line(n) : m \in Scopes => m <= ScopeOf(n)
    BY <1>1, ScopeAbove DEF Scopes, OfKind
  <2>2. ScopeOf(n) \in Nat /\ ScopeOf(n) <= n /\ n <= ScopeOf(n)
    BY <1>4, <2>1
  <2> QED BY <1>4, <2>2
<1>6. /\ Parent(n) \in DOMAIN nodes /\ Line(Parent(n)) = Line(n) \ {n}
  BY <1>1, <1>4, ParentIs
<1>7. /\ q \in Line(Parent(n)) /\ q \in DOMAIN nodes /\ q \in Nat
      /\ nodes[q].kind \in {"module", "shell", "expression"}
      /\ \A m \in Line(Parent(n)) : m <= q \/ nodes[m].kind = "function"
  <2> DEFINE p == Parent(n)
  <2>1. p \in DOMAIN nodes
    BY <1>6
  <2> HIDE DEF p
  <2>2. /\ ScopeOf(p) \in Line(p)
        /\ nodes[ScopeOf(p)].kind \in {"module", "shell", "expression"}
        /\ \A m \in Line(p) : m <= ScopeOf(p) \/ nodes[m].kind = "function"
    BY <2>1, Above
  <2>3. ScopeOf(p) \in DOMAIN nodes /\ ScopeOf(p) \in Nat
    BY <2>1, <2>2, ScopeAbove
  <2> QED BY <2>2, <2>3 DEF p
<1>8. OuterScope(n) = q
  BY <1>4, <1>5 DEF OuterScope
<1>9. nodes[q].kind # "expression"
  BY <1>1, <1>7, <1>8 DEF ParametersNear, OfKind
<1>10. q = ScopeOf(f)
  <2>1. Line(f) = {k \in Line(n) : k <= f}
    BY <1>1, <1>4, LineAbove
  <2>2. q \in Line(f)
    BY <1>4, <1>6, <1>7, <1>9, <2>1
  <2>3. /\ ScopeOf(f) \in Line(f) /\ ScopeOf(f) \in Nat
        /\ nodes[ScopeOf(f)].kind \in {"module", "shell", "expression"}
        /\ \A m \in Line(f) : m <= ScopeOf(f) \/ nodes[m].kind = "function"
    BY <1>2, Above, ScopeAbove
  <2>4. q <= ScopeOf(f)
    BY <1>7, <2>2, <2>3
  <2>5. ScopeOf(f) \in Line(Parent(n))
    BY <1>4, <1>6, <2>1, <2>3
  <2>6. ScopeOf(f) <= q
    BY <1>7, <2>3, <2>5
  <2> HIDE DEF q
  <2> QED BY <1>7, <2>3, <2>4, <2>6
<1>11. /\ nodes[n].imports = {} /\ nodes[n].manages = {}
  BY <1>1 DEF Shape, OneDirective
<1>12. Identity(i) = LoadOccurrence(n, uses[i].name)
  BY <1>1, <1>5, <1>11 DEF Identity
<1>13. LoadRole(n, uses[i].name) = "external"
  <2>1. uses[i].name \in Parameters(n)
    BY <1>1, <1>2 DEF Parameters
  <2>2. ScopeOf(BodyOf(n)) # n
    <3>1. ScopeOf(f) \in Line(f) /\ Line(f) \subseteq 1 .. f /\ f \in Nat
      BY <1>2, Above
    <3>2. f < n
      BY <1>4
    <3> QED BY <1>1, <1>4, <3>1, <3>2
  <2> QED BY <1>4, <1>5, <1>11, <2>1, <2>2 DEF LoadRole
<1>14. Identity(i) = Occurrence(q, f, FALSE)
  BY <1>1, <1>5, <1>8, <1>11, <1>12, <1>13 DEF LoadOccurrence
<1>15. Identity(j) = Occurrence(ScopeOf(f), f, TRUE)
  BY <1>1, <1>2, DomainIs
<1>16. SameCell(i, j)
  BY <1>1, <1>10, <1>14, <1>15 DEF SameCell, Occurrence
<1> QED BY <1>1, <1>3, <1>16, SameCellSameSpelling

LEMMA ParametersHold ==
    ASSUME HInv, ParametersNear
    PROVE  ParametersStable
<1> SUFFICES ASSUME Emitted, NEW i \in DOMAIN uses
             PROVE  /\ uses[i].act = "parameter" => emitted[i] = Plain(uses[i].name)
                    /\ uses[i].act = "load" => \A j \in MeantParameter(i) : j \in SeenBy(i)
  BY DEF ParametersStable
<1>1. \A k \in DOMAIN uses : emitted[k] = Spelling(Identities, k)
  BY DEF HInv, Spelled
<1>2. uses[i].act = "parameter" => emitted[i] = Plain(uses[i].name)
  BY <1>1, ParameterPlain DEF HInv
<1>3. ASSUME uses[i].act = "load", NEW j \in MeantParameter(i) PROVE j \in SeenBy(i)
  <2>1. /\ j \in Binders /\ BoundIn(j) = FunctionOf(uses[i].node)
        /\ Spelling(Identities, i) = Spelling(Identities, j)
    BY <1>3, ParameterSeen DEF HInv, Loads
  <2>2. j \in {k \in Binders : emitted[k] = emitted[i]}
    BY <1>1, <2>1 DEF Binders
  <2> QED BY <2>1, <2>2, ResolveHere DEF SeenBy, HInv
<1> QED BY <1>2, <1>3

(* The store of an owner and the import that follows it share a cell, or    *)
(* both keep the name.                                                      *)
LEMMA ImportsHold ==
    ASSUME HInv, KeepsAgree, ManagedAbove, ManagedBoundOnce
    PROVE  ImportsFollowTheirOwner
<1> SUFFICES ASSUME Emitted, NEW i \in DOMAIN uses, NEW j \in DOMAIN uses,
                    Owner(i) # ScopeOf(uses[i].node),
                    uses[j].name = uses[i].name, uses[j].act = "store",
                    ScopeOf(uses[j].node) = Owner(i),
                    FunctionOf(uses[j].node) = FunctionOf(uses[i].node)
             PROVE  emitted[i] = emitted[j]
  BY DEF ImportsFollowTheirOwner
<1> DEFINE name == uses[i].name
           o == Owner(i)
<1>1. Shape /\ \A k \in DOMAIN uses : emitted[k] = Spelling(Identities, k)
  BY DEF HInv, Spelled
<1>2. Imported(i) /\ ~Shadowed(i)
  BY <1>1, OwnerIs
<1>3. uses[i].act \in {"load", "store"}
  <2>1. uses[i].act # "parameter"
    BY <1>1, ParameterIs
  <2>2. uses[i].act # "import"
    BY <1>1, <1>2, ImportIs DEF Imported
  <2> QED BY <1>1, <2>1, <2>2, NodeOfUse DEF Acts
<1>4. /\ name \notin nodes[o].imports
      /\ ScopeOf(uses[i].node) \in ImportersOf(name)
  BY <1>1, <1>2, OwnerIs
<1>5. ~Imported(j) /\ Owner(j) = o
  BY <1>4 DEF Imported, Owner
<1>6. CASE name \in Trusted
  <2>1. name \in nodes[o].keeps
    BY <1>4, <1>6 DEF KeepsAgree
  <2>2. Spelling(Identities, j) = Plain(name)
    BY <1>1, <2>1, KeptStore
  <2>3. Spelling(Identities, i) = Plain(name)
    BY <1>1, <1>2, <1>3, <1>6, TrustedImport
  <2> QED BY <1>1, <2>2, <2>3
<1>7. CASE name \notin Trusted
  <2>1. name \notin nodes[o].manages
    <3>1. j \in Binders
      BY DEF Binders, Binds
    <3> QED BY <1>5, <3>1 DEF ManagedBoundOnce
  <2>2. Identity(i).domain = FunctionOf(uses[i].node) /\ Identity(i).scope = o
    BY <1>1, <1>2, <1>3, <1>7, <2>1, ImportedCell
  <2>3. Identity(j) = Occurrence(o, FunctionOf(uses[i].node), name \in nodes[o].keeps)
    BY <1>4 DEF Identity, StoreOccurrence
  <2>4. SameCell(i, j)
    BY <2>2, <2>3 DEF SameCell, Occurrence
  <2> QED BY <1>1, <2>4, SameCellSameSpelling
<1> QED BY <1>6, <1>7

-----------------------------------------------------------------------------
(* What a read means and what it sees.                                      *)
Habitual ==
    /\ NoClosures /\ KeepsAgree /\ ManagedReadAtTop /\ ManagedBoundOnce
    /\ ManagedAbove /\ ImportsSeen

(* Bindings of one body stand in one scope of one function.                 *)
LEMMA SameBodySameCell ==
    ASSUME Shape, NEW n \in DOMAIN nodes, nodes[ScopeOf(n)].kind # "expression",
           NEW k \in DOMAIN uses, Binds(k), BodyOf(uses[k].node) = BodyOf(n)
    PROVE  ScopeOf(uses[k].node) = ScopeOf(n) /\ FunctionOf(uses[k].node) = FunctionOf(n)
<1> DEFINE m == uses[k].node
<1>1. m \in DOMAIN nodes /\ nodes[m].kind # "expression"
  BY DEF Shape, UsesShape, Binds
<1>2. nodes[ScopeOf(m)].kind # "expression"
  <2> HIDE DEF m
  <2>1. ScopeOf(m) \in Line(m)
    BY <1>1, Above
  <2> QED BY <1>1, <2>1, Above
<1>3. ScopeOf(BodyOf(m)) = ScopeOf(m) /\ FunctionOf(BodyOf(m)) = FunctionOf(m)
  BY <1>1, <1>2, BodyIsCell
<1>4. ScopeOf(BodyOf(n)) = ScopeOf(n) /\ FunctionOf(BodyOf(n)) = FunctionOf(n)
  BY BodyIsCell
<1> QED BY <1>3, <1>4

(* The cell of a plain read of a name bound or preserved around it.         *)
LEMMA LoadCell ==
    ASSUME Shape, NEW i \in Loads, ~Imported(i),
           nodes[ScopeOf(uses[i].node)].kind # "expression",
           uses[i].name \notin nodes[ScopeOf(uses[i].node)].manages,
           uses[i].name \in Bindings(uses[i].node) \/ uses[i].name \in Preserved
    PROVE  /\ Identity(i).scope = ScopeOf(uses[i].node)
           /\ Identity(i).domain = FunctionOf(uses[i].node)
           /\ uses[i].name \notin Bindings(uses[i].node) => Identity(i).kept
<1> DEFINE n == uses[i].node
           s == ScopeOf(n)
           name == uses[i].name
           role == LoadRole(n, name)
<1>1. i \in DOMAIN uses /\ uses[i].act = "load" /\ n \in DOMAIN nodes
  BY NodeOfUse DEF Loads
<1>2. ScopeOf(BodyOf(n)) = s
  BY <1>1, BodyIsCell
<1>3. Parameters(n) \subseteq Bindings(n)
  BY DEF Parameters, Bindings, Binds
<1>4. role = IF name \in Bindings(n) THEN "internal" ELSE "preserved"
  BY <1>2, <1>3 DEF LoadRole
<1>5. Identity(i) = LoadOccurrence(n, name)
  BY <1>1 DEF Identity, Imported
<1>6. CASE name \in Bindings(n)
  <2>1. role = "internal"
    BY <1>4, <1>6
  <2>2. Identity(i) = Occurrence(s, FunctionOf(n), FALSE)
    BY <1>5, <2>1 DEF LoadOccurrence
  <2> QED BY <1>6, <2>2 DEF Occurrence
<1>7. CASE name \notin Bindings(n)
  <2>1. role = "preserved"
    BY <1>4, <1>7
  <2>2. Identity(i) = Occurrence(s, FunctionOf(n), TRUE)
    BY <1>5, <2>1 DEF LoadOccurrence
  <2> QED BY <1>7, <2>2 DEF Occurrence
<1> QED BY <1>6, <1>7

(* A read is spelled like each binding of its owner in its function.        *)
LEMMA OwnSpelled ==
    ASSUME Typed, Shape, Habitual, NEW i \in Loads, NEW j \in Binders,
           uses[j].act # "import", uses[j].name = uses[i].name,
           Owner(j) = Owner(i), BoundIn(j) = FunctionOf(uses[i].node)
    PROVE  Spelling(Identities, i) = Spelling(Identities, j)
<1> DEFINE n == uses[i].node
           name == uses[i].name
           o == Owner(i)
           m == uses[j].node
<1>1. /\ i \in DOMAIN uses /\ uses[i].act = "load" /\ n \in DOMAIN nodes
      /\ j \in DOMAIN uses /\ uses[j].act \in {"store", "parameter"} /\ m \in DOMAIN nodes
      /\ Binds(j) /\ BoundIn(j) = FunctionOf(m) /\ FunctionOf(m) = FunctionOf(n)
  BY NodeOfUse DEF Loads, Binders, Binds, BoundIn
<1>2. name \notin nodes[o].manages
  BY DEF Habitual, ManagedBoundOnce
<1>3. nodes[o].kind # "expression"
  <2>1. nodes[m].kind # "expression"
    BY <1>1 DEF Shape, UsesShape
  <2>2. o \in Line(m)
    BY <1>1, OwnerIs
  <2> QED BY <1>1, <2>1, <2>2, Above
<1>4. Imported(j) => /\ ~Shadowed(j) /\ Owner(j) # ScopeOf(m) /\ uses[j].act = "store"
                     /\ ScopeOf(m) \in ImportersOf(name)
  BY <1>1, OwnerIs, ParameterIs DEF Habitual, ImportsSeen
<1>5. ~Imported(j) => o = ScopeOf(m)
  BY DEF Owner
<1>6. ~(Imported(j) /\ name \in Trusted) =>
         Identity(j).domain = FunctionOf(n) /\ Identity(j).scope = o
  BY <1>1, BinderCell DEF Habitual
<1>7. name \in Trusted /\ (Imported(i) \/ Imported(j)) => name \in nodes[o].keeps
  <2>1. Imported(i) => /\ Owner(i) # ScopeOf(n) /\ ScopeOf(n) \in ImportersOf(name)
    BY <1>1, OwnerIs DEF Habitual, ImportsSeen
  <2> QED BY <1>1, <1>4, <2>1 DEF Habitual, KeepsAgree
<1>8. name \in Trusted /\ name \in nodes[o].keeps => Spelling(Identities, j) = Plain(name)
  <2>1. CASE uses[j].act = "parameter"
    BY <1>1, <2>1, ParameterPlain
  <2>2. CASE Imported(j) /\ name \in Trusted
    BY <1>1, <1>4, <2>2, TrustedImport
  <2>3. CASE uses[j].act = "store" /\ ~Imported(j)
    BY <1>1, <1>5, <2>3, KeptStore
  <2> QED BY <1>1, <2>1, <2>2, <2>3
<1>9. CASE Imported(i) /\ name \in Trusted
  BY <1>1, <1>7, <1>8, <1>9, TrustedImport
<1>10. CASE Imported(i) /\ name \notin Trusted
  <2>1. Identity(i).domain = FunctionOf(n) /\ Identity(i).scope = o
    BY <1>1, <1>2, <1>10, ImportedCell DEF Habitual, ImportsSeen
  <2>2. SameCell(i, j)
    BY <1>6, <1>10, <2>1 DEF SameCell
  <2> QED BY <1>1, <2>2, SameCellSameSpelling
<1>11. CASE ~Imported(i)
  <2>1. o = ScopeOf(n)
    BY <1>11 DEF Owner
  <2>2. name \in Bindings(n) \/ name \in Preserved
    <3>1. CASE Imported(j)
      <4>1. ScopeOf(m) \in DOMAIN nodes /\ name \in nodes[ScopeOf(m)].imports
        BY <1>1, <3>1, ScopeAbove DEF Imported
      <4> QED BY <4>1 DEF Preserved
    <3>2. CASE ~Imported(j)
      <4>1. BodyOf(n) = BodyOf(m)
        BY <1>1, <1>5, <2>1, <3>2, SameBody
      <4> QED BY <1>1, <4>1 DEF Bindings
    <3> QED BY <3>1, <3>2
  <2>3. /\ Identity(i).scope = o /\ Identity(i).domain = FunctionOf(n)
        /\ name \notin Bindings(n) => Identity(i).kept
    BY <1>2, <1>3, <1>11, <2>1, <2>2, LoadCell
  <2>4. CASE ~(Imported(j) /\ name \in Trusted)
    <3>1. SameCell(i, j)
      BY <1>6, <2>3, <2>4 DEF SameCell
    <3> QED BY <1>1, <3>1, SameCellSameSpelling
  <2>5. CASE Imported(j) /\ name \in Trusted
    <3>1. name \in nodes[o].keeps /\ Spelling(Identities, j) = Plain(name)
      BY <1>7, <1>8, <2>5
    <3>2. CASE name \notin Bindings(n)
      <4>1. SameCell(i, i) /\ Identity(i).kept
        BY <2>3, <3>2 DEF SameCell
      <4> QED BY <1>1, <2>5, <3>1, <4>1, KeptSpelledPlain
    <3>3. CASE name \in Bindings(n)
      <4>1. PICK k \in DOMAIN uses :
               Binds(k) /\ BodyOf(uses[k].node) = BodyOf(n) /\ uses[k].name = name
        BY <3>3 DEF Bindings
      <4>2. ScopeOf(uses[k].node) = o /\ FunctionOf(uses[k].node) = FunctionOf(n)
        BY <1>1, <1>3, <2>1, <4>1, SameBodySameCell
      <4>3. Identity(k) = Occurrence(o, FunctionOf(n), TRUE)
        <5>1. CASE uses[k].act = "parameter"
          BY <4>2, <5>1, DomainIs
        <5>2. CASE uses[k].act = "store"
          BY <1>11, <2>1, <3>1, <4>1, <4>2, <5>2 DEF Identity, Imported, StoreOccurrence
        <5> QED BY <4>1, <5>1, <5>2 DEF Binds
      <4>4. SameCell(i, k) /\ Identity(k).kept
        BY <2>3, <4>1, <4>3 DEF SameCell, Occurrence
      <4> QED BY <1>1, <2>5, <3>1, <4>4, KeptSpelledPlain
    <3> QED BY <3>2, <3>3
  <2> QED BY <2>4, <2>5
<1> QED BY <1>9, <1>10, <1>11

(* A managed import is nobody's spelling. *)
LEMMA ImportNotOwned ==
    ASSUME Shape, NEW j \in DOMAIN uses, uses[j].act = "import"
    PROVE  ~Owned(j)
<1>1. /\ ScopeOf(uses[j].node) = uses[j].node
      /\ nodes[uses[j].node].keeps = {} /\ nodes[uses[j].node].imports = {}
  BY ImportIs
<1>2. Owner(j) = uses[j].node
  BY <1>1 DEF Owner, Imported
<1>3. BoundIn(j) = 1
  BY DEF BoundIn
<1>4. \A k \in DOMAIN uses : uses[k].act = "parameter" => uses[k].node # 1
  BY DEF Shape, UsesShape, NodesShape
<1> QED BY <1>1, <1>2, <1>3, <1>4 DEF Owned

(* A read of a managed name is in the cell of its imports.                  *)
LEMMA ManagedRead ==
    ASSUME Typed, Shape, Habitual, NEW i \in Loads, MeantBy(i) # {},
           MeantBy(i) = Imports(uses[i].name), uses[i].name \in nodes[Owner(i)].manages,
           NEW j \in MeantBy(i)
    PROVE  Spelling(Identities, i) = Spelling(Identities, j)
<1> DEFINE n == uses[i].node
           name == uses[i].name
           o == Owner(i)
<1>1. /\ i \in DOMAIN uses /\ uses[i].act = "load" /\ n \in DOMAIN nodes
      /\ j \in DOMAIN uses /\ uses[j].act = "import" /\ uses[j].name = name
  BY NodeOfUse DEF Loads, Imports, Binders
<1>2. /\ o \in Line(n) /\ o \in DOMAIN nodes
  BY <1>1, OwnerIs, ScopeAbove
<1>3. nodes[o].keeps = {} /\ nodes[o].imports = {} /\ nodes[o].kind # "expression"
  BY <1>2 DEF Shape, OneDirective
<1>4. Identity(i).scope = TheImport /\ Identity(i).domain = 1
  <2>1. CASE Imported(i)
    <3>1. /\ ~Shadowed(i) /\ o # ScopeOf(n) /\ ScopeOf(n) \in ImportersOf(name)
      BY <1>1, <2>1, OwnerIs DEF Habitual, ImportsSeen
    <3>2. name \notin Trusted
      BY <1>1, <1>3, <3>1 DEF Habitual, KeepsAgree
    <3>3. FunctionOf(n) = 1
      BY <1>1, <3>1 DEF Habitual, ManagedReadAtTop
    <3> QED BY <1>1, <2>1, <3>1, <3>2, <3>3, ImportedCell DEF Habitual
  <2>2. CASE ~Imported(i)
    <3>1. o = ScopeOf(n)
      BY <2>2 DEF Owner
    <3>2. name \notin Bindings(n)
      <4> SUFFICES ASSUME NEW k \in DOMAIN uses, Binds(k), uses[k].name = name,
                          BodyOf(uses[k].node) = BodyOf(n)
                   PROVE  FALSE
        BY DEF Bindings
      <4>1. ScopeOf(uses[k].node) = o
        BY <1>1, <1>3, <3>1, SameBodySameCell
      <4>2. Owner(k) = o
        BY <1>3, <4>1 DEF Owner, Imported
      <4>3. k \in Binders /\ uses[k].act # "import"
        BY DEF Binders, Binds
      <4> QED BY <4>2, <4>3 DEF Habitual, ManagedBoundOnce
    <3>3. Identity(i) = Occurrence(TheImport, 1, FALSE)
      BY <1>1, <2>2, <3>1, <3>2 DEF Identity, Imported, LoadOccurrence
    <3> QED BY <3>3 DEF Occurrence
  <2> QED BY <2>1, <2>2
<1>5. Identity(j).scope = TheImport /\ Identity(j).domain = 1
  BY <1>1 DEF Identity, Occurrence
<1>6. SameCell(i, j)
  BY <1>1, <1>4, <1>5 DEF SameCell
<1> QED BY <1>1, <1>6, SameCellSameSpelling

LEMMA ReadsHold ==
    ASSUME HInv, Habitual
    PROVE  ReadsSeeTheirBindings
<1> SUFFICES ASSUME Emitted, NEW i \in Loads, MeantBy(i) # {}
             PROVE  /\ MeantBy(i) \subseteq SeenBy(i)
                    /\ \A k \in SeenBy(i) \ MeantBy(i) :
                          Owned(k) /\ \E j \in MeantBy(i) : Owned(j)
  BY DEF ReadsSeeTheirBindings
<1> DEFINE n == uses[i].node
           f == FunctionOf(n)
           name == uses[i].name
           o == Owner(i)
           Mine == {j \in Binders \ Imports(name) : uses[j].name = name /\ Owner(j) = o}
           own == Resolve(i, Mine)
           Alike == {k \in Binders : emitted[k] = emitted[i]}
<1>1. Typed /\ Shape /\ \A k \in DOMAIN uses : emitted[k] = Spelling(Identities, k)
  BY DEF HInv, Spelled
<1>2. /\ i \in DOMAIN uses /\ n \in DOMAIN nodes /\ Binders \subseteq DOMAIN uses
      /\ Loads \subseteq DOMAIN uses
  BY <1>1, NodeOfUse DEF Loads, Binders
<1>3. MeantBy(i) = IF own = {} /\ name \in nodes[o].manages THEN Imports(name) ELSE own
  BY DEF MeantBy
<1>4. SeenBy(i) = Resolve(i, Alike)
  BY DEF SeenBy
<1>5. \A k \in Alike : k \in Binders /\ uses[k].name = name
                      /\ \A j \in Alike : Spelling(Identities, j) = Spelling(Identities, k)
  BY <1>1, <1>2, SpelledAlike
<1>6. CASE ~(own = {} /\ name \in nodes[o].manages)
  <2>1. MeantBy(i) = own /\ own \subseteq Mine
    BY <1>3, <1>6 DEF Resolve
  <2>2. \A j \in MeantBy(i) :
           /\ j \in Binders /\ uses[j].act # "import" /\ uses[j].name = name /\ Owner(j) = o
           /\ BoundIn(j) = f /\ j \in Mine
    BY <2>1 DEF Habitual, NoClosures, Imports
  <2>3. \A j \in MeantBy(i) : j \in Alike
    BY <1>1, <1>2, <2>2, OwnSpelled
  <2>4. PICK j \in MeantBy(i) : TRUE
    OBVIOUS
  <2> HIDE DEF own, Mine, Alike
  <2>5. SeenBy(i) = {k \in Alike : BoundIn(k) = f}
    BY <1>1, <1>2, <1>4, <2>2, <2>3, <2>4, ResolveHere
  <2>6. MeantBy(i) = {k \in Mine : BoundIn(k) = f}
    BY <1>1, <1>2, <2>1, <2>2, <2>4, ResolveHere DEF own
  <2>7. MeantBy(i) \subseteq SeenBy(i)
    BY <2>2, <2>3, <2>5
  <2>8. ASSUME NEW k \in SeenBy(i) \ MeantBy(i) PROVE Owned(k) /\ Owned(j)
    <3>1. /\ k \in Binders /\ uses[k].name = name /\ BoundIn(k) = f
          /\ Spelling(Identities, j) = Spelling(Identities, k)
      BY <1>5, <2>3, <2>4, <2>5
    <3>2. k \in Imports(name) \/ Owner(k) # o
      BY <2>6, <2>8, <3>1 DEF Mine
    <3>3. Owner(k) # Owner(j) \/ "import" \in {uses[k].act, uses[j].act}
      BY <2>2, <2>4, <3>2 DEF Imports
    <3>4. {uses[k].act, uses[j].act} # {"import"} /\ {uses[j].act, uses[k].act} # {"import"}
      BY <2>2, <2>4
    <3>5. j \in Binders /\ BoundIn(j) = f
      BY <2>2, <2>4
    <3>6. Owned(k)
      BY <1>1, <3>1, <3>3, <3>4, <3>5, AlikeOwned DEF Habitual
    <3>7. Owned(j)
      BY <1>1, <3>1, <3>3, <3>4, <3>5, AlikeOwned DEF Habitual
    <3> QED BY <3>6, <3>7
  <2> QED BY <2>4, <2>7, <2>8
<1>7. CASE own = {} /\ name \in nodes[o].manages
  <2>1. MeantBy(i) = Imports(name)
    BY <1>3, <1>7
  <2>2. \A j \in MeantBy(i) :
           /\ j \in Binders /\ j \in DOMAIN uses /\ uses[j].act = "import" /\ uses[j].name = name
           /\ BoundIn(j) = 1
    BY <1>2, <2>1 DEF Imports, BoundIn
  <2>3. \A j \in MeantBy(i) : j \in Alike
    BY <1>1, <1>2, <1>7, <2>1, <2>2, ManagedRead
  <2>4. PICK j \in MeantBy(i) : TRUE
    OBVIOUS
  <2> HIDE DEF own, Mine, Alike
  <2>5. /\ f \in DOMAIN nodes /\ Line(f) \subseteq Line(n) /\ 1 \in Line(f)
        /\ f = 1 => Line(f) = {1}
    <3>1. f \in Line(n)
      BY <1>1, <1>2, Above
    <3>2. f \in DOMAIN nodes /\ Line(f) = {k \in Line(n) : k <= f}
      BY <1>1, <1>2, <3>1, LineAbove
    <3>3. 1 \in Line(f) /\ Line(f) \subseteq 1 .. f
      BY <1>1, <3>2, Above
    <3> QED BY <3>2, <3>3
  <2>6. \A k \in Alike : BoundIn(k) \in Line(f) => BoundIn(k) = 1
    BY <1>2, <1>5, <2>2, <2>4, <2>5 DEF Habitual, ManagedReadAtTop
  <2>7. SeenBy(i) = {k \in Alike : BoundIn(k) = 1}
    <3> DEFINE around == {k \in Alike : BoundIn(k) \in Line(f)}
               bodies == {BoundIn(k) : k \in around}
    <3>1. around = {k \in Alike : BoundIn(k) = 1}
      BY <2>5, <2>6
    <3>2. j \in around
      BY <2>2, <2>3, <2>4, <3>1
    <3>3. bodies = {1}
      BY <3>1, <3>2
    <3>4. Max(bodies) = 1
      <4>1. {1} \subseteq 1 .. 1 /\ {1} # {}
        OBVIOUS
      <4>2. Max({1}) \in {1}
        BY <4>1, MaxIs
      <4> HIDE DEF bodies
      <4> QED BY <3>3, <4>2
    <3>5. SeenBy(i) = {k \in around : BoundIn(k) = Max(bodies)}
      BY <1>4, <3>2 DEF Resolve
    <3> QED BY <3>1, <3>4, <3>5
  <2>8. MeantBy(i) \subseteq SeenBy(i)
    BY <2>2, <2>3, <2>7
  <2>9. ASSUME NEW k \in SeenBy(i) \ MeantBy(i) PROVE FALSE
    <3>1. /\ k \in Binders /\ uses[k].name = name /\ BoundIn(k) = 1
          /\ Spelling(Identities, j) = Spelling(Identities, k)
      BY <1>5, <2>3, <2>4, <2>7
    <3>2. uses[k].act # "import"
      BY <2>1, <2>9, <3>1 DEF Imports
    <3>3. j \in Binders /\ j \in DOMAIN uses /\ uses[j].act = "import" /\ BoundIn(j) = 1
      BY <2>2, <2>4
    <3>4. Owned(j)
      BY <1>1, <3>1, <3>2, <3>3, AlikeOwned DEF Habitual
    <3> QED BY <1>1, <3>3, <3>4, ImportNotOwned
  <2> QED BY <2>8, <2>9
<1> QED BY <1>6, <1>7

-----------------------------------------------------------------------------
(* The shape is kept while a tree is written.                               *)
LEMMA NextNode ==
    ASSUME Typed, Shape, NEW kind \in Kinds, NEW directive \in Directives,
           NEW firstUses, Enter(kind, directive, firstUses),
           NEW N, N = Len(nodes) + 1
    PROVE  /\ nodes' \in Seq(TreeNodes) /\ Len(nodes') = N
           /\ DOMAIN nodes' = DOMAIN nodes \cup {N}
           /\ Len(nodes) \in Nat /\ N \in Nat /\ N \notin DOMAIN nodes
           /\ \A n \in DOMAIN nodes : nodes'[n] = nodes[n] /\ Line(n)' = Line(n)
           /\ nodes'[N] = Node(Append(nodes[cur].path, N), kind, directive)
           /\ Line(N)' = Line(cur) \cup {N}
<1> DEFINE above == nodes[cur].path
           new == Node(Append(above, N), kind, directive)
<1>1. nodes \in Seq(TreeNodes) /\ Len(nodes) \in Nat /\ N \in Nat /\ above \in Seq(Nat)
  <2>1. nodes \in Seq(TreeNodes) /\ cur \in DOMAIN nodes
    BY DEF Typed
  <2>2. nodes[cur] \in TreeNodes /\ Len(nodes) \in Nat
    BY <2>1
  <2> QED BY <2>1, <2>2 DEF TreeNodes
<1>2. /\ Append(above, N) \in Seq(Nat) /\ Len(Append(above, N)) = Len(above) + 1
      /\ \A k \in 1 .. Len(above) : Append(above, N)[k] = above[k]
      /\ Append(above, N)[Len(above) + 1] = N
  BY <1>1, AppendProperties
<1>3. /\ directive.imports \subseteq Names /\ directive.keeps \subseteq Names
      /\ directive.manages \subseteq Names
  BY DEF Directives, NoDirective
<1>4. new \in TreeNodes
  BY <1>2, <1>3 DEF Node, TreeNodes
<1> HIDE DEF new
<1>5. nodes' = Append(nodes, new)
  BY DEF Enter, new
<1>6. /\ nodes' \in Seq(TreeNodes) /\ Len(nodes') = N
      /\ \A n \in 1 .. Len(nodes) : nodes'[n] = nodes[n]
      /\ nodes'[N] = new
  BY <1>1, <1>4, <1>5, AppendProperties
<1>7. DOMAIN nodes = 1 .. Len(nodes) /\ DOMAIN nodes' = 1 .. N
  BY <1>1, <1>6
<1>8. DOMAIN nodes' = DOMAIN nodes \cup {N} /\ N \notin DOMAIN nodes
  BY <1>1, <1>7
<1>9. \A n \in DOMAIN nodes : nodes'[n] = nodes[n]
  BY <1>6, <1>7
<1>10. \A n \in DOMAIN nodes : Line(n)' = Line(n)
  BY <1>9 DEF Line
<1>11. /\ new.path = Append(above, N) /\ new.kind = kind /\ new.imports = directive.imports
       /\ new.keeps = directive.keeps /\ new.manages = directive.manages
  BY DEF new, Node
<1>12. Line(N)' = {Append(above, N)[k] : k \in DOMAIN Append(above, N)}
  BY <1>6, <1>11 DEF Line
<1>13. /\ DOMAIN Append(above, N) = (1 .. Len(above)) \cup {Len(above) + 1}
       /\ Line(cur) = {above[k] : k \in 1 .. Len(above)}
  <2>1. Len(above) \in Nat /\ DOMAIN above = 1 .. Len(above)
        /\ DOMAIN Append(above, N) = 1 .. Len(above) + 1
    BY <1>1, <1>2
  <2> QED BY <2>1 DEF Line
<1> HIDE DEF above
<1>14. Line(N)' = Line(cur) \cup {N}
  BY <1>2, <1>12, <1>13
<1> QED BY <1>1, <1>6, <1>8, <1>9, <1>10, <1>14 DEF above, new

(* What a node writes as it is entered: parameters or a managed import.     *)
FirstUses(N, kind, directive, firstUses) ==
    /\ firstUses \in Seq(UsedNames)
    /\ \A k \in DOMAIN firstUses :
          /\ firstUses[k].node = N
          /\ \/ firstUses[k].act = "parameter" /\ kind = "function"
             \/ /\ firstUses[k].act = "import" /\ kind \in {"module", "shell"}
                /\ firstUses[k].name \in directive.manages

LEMMA EnterKeepsShape ==
    ASSUME Typed, Shape, NEW kind \in {"shell", "expression", "function"},
           NEW directive \in Directives,
           kind # "shell" => directive = NoDirective,
           nodes[cur].kind = "expression" => kind = "expression",
           NEW N, N = Len(nodes) + 1,
           NEW firstUses, FirstUses(N, kind, directive, firstUses),
           Enter(kind, directive, firstUses)
    PROVE  (Typed /\ Shape)'
<1>1. /\ nodes' \in Seq(TreeNodes) /\ Len(nodes') = N
      /\ DOMAIN nodes' = DOMAIN nodes \cup {N}
      /\ Len(nodes) \in Nat /\ N \in Nat /\ N \notin DOMAIN nodes
      /\ \A n \in DOMAIN nodes : nodes'[n] = nodes[n] /\ Line(n)' = Line(n)
      /\ nodes'[N].kind = kind /\ nodes'[N].imports = directive.imports
      /\ nodes'[N].keeps = directive.keeps /\ nodes'[N].manages = directive.manages
      /\ Line(N)' = Line(cur) \cup {N}
  <2>1. kind \in Kinds
    BY DEF Kinds
  <2>2. nodes' \in Seq(TreeNodes) /\ Len(nodes') = N
    BY <2>1, NextNode
  <2>7. Len(nodes) \in Nat /\ N \in Nat /\ N \notin DOMAIN nodes
    BY <2>1, NextNode
  <2>8. DOMAIN nodes' = DOMAIN nodes \cup {N}
    BY <2>1, NextNode
  <2>3. Line(N)' = Line(cur) \cup {N}
    BY <2>1, NextNode
  <2>4. \A n \in DOMAIN nodes : nodes'[n] = nodes[n] /\ Line(n)' = Line(n)
    BY <2>1, NextNode
  <2>5. nodes'[N] = Node(Append(nodes[cur].path, N), kind, directive)
    BY <2>1, NextNode
  <2>6. /\ nodes'[N].kind = kind /\ nodes'[N].imports = directive.imports
        /\ nodes'[N].keeps = directive.keeps /\ nodes'[N].manages = directive.manages
    BY <2>5 DEF Node
  <2> QED BY <2>2, <2>3, <2>4, <2>6, <2>7, <2>8
<1>2. /\ cur \in DOMAIN nodes /\ DOMAIN nodes = 1 .. Len(nodes)
      /\ Len(nodes) < MaxNodes /\ cur' = N
      /\ uses' = uses \o firstUses /\ uses \in Seq(UsedNames)
      /\ firstUses \in Seq(UsedNames)
  BY DEF Typed, Enter, FirstUses
<1>3. /\ uses' \in Seq(UsedNames) /\ Len(uses) \in Nat /\ Len(firstUses) \in Nat
      /\ DOMAIN uses = 1 .. Len(uses) /\ DOMAIN uses' = 1 .. Len(uses) + Len(firstUses)
      /\ \A i \in DOMAIN uses : uses'[i] = uses[i]
      /\ \A i \in DOMAIN uses' \ DOMAIN uses :
            /\ \E k \in DOMAIN firstUses : uses'[i] = firstUses[k]
            /\ \A j \in DOMAIN uses : j < i
      /\ DOMAIN uses \subseteq DOMAIN uses'
  <2>1. /\ uses' \in Seq(UsedNames) /\ Len(uses') = Len(uses) + Len(firstUses)
        /\ \A i \in 1 .. Len(uses) + Len(firstUses) :
              uses'[i] = IF i <= Len(uses) THEN uses[i] ELSE firstUses[i - Len(uses)]
    BY <1>2, ConcatProperties
  <2>2. /\ Len(uses) \in Nat /\ Len(firstUses) \in Nat
        /\ DOMAIN uses = 1 .. Len(uses) /\ DOMAIN uses' = 1 .. Len(uses) + Len(firstUses)
        /\ DOMAIN firstUses = 1 .. Len(firstUses)
    BY <1>2, <2>1
  <2>3. \A i \in DOMAIN uses : uses'[i] = uses[i] /\ i \in DOMAIN uses'
    BY <2>1, <2>2
  <2>4. \A i \in DOMAIN uses' \ DOMAIN uses :
           /\ uses'[i] = firstUses[i - Len(uses)] /\ i - Len(uses) \in DOMAIN firstUses
           /\ \A j \in DOMAIN uses : j < i
    BY <2>1, <2>2
  <2> QED BY <2>1, <2>2, <2>3, <2>4
<1>4. \A i \in DOMAIN uses' \ DOMAIN uses :
         /\ uses'[i].node = N
         /\ \/ uses'[i].act = "parameter" /\ kind = "function"
            \/ /\ uses'[i].act = "import" /\ kind \in {"module", "shell"}
               /\ uses'[i].name \in directive.manages
  BY <1>3 DEF FirstUses
<1>5. Typed'
  BY <1>1, <1>2, <1>3 DEF Typed
<1>6. NodesShape'
  <2>1. 1 \in DOMAIN nodes
    BY <1>2 DEF Shape, NodesShape
  <2>2. Len(nodes') \in 1 .. MaxNodes
    BY <1>1, <1>2, HygieneAssumption
  <2> QED BY <1>1, <2>1, <2>2 DEF Shape, NodesShape
<1>7. LinesNest'
  <2> DEFINE Nested(n) ==
        /\ Line(n) \subseteq 1 .. n /\ 1 \in Line(n) /\ n \in Line(n)
        /\ \A m \in Line(n) : Line(m) = {k \in Line(n) : k <= m}
        /\ \A m \in Line(n) : nodes[m].kind = "expression" => nodes[n].kind = "expression"
  <2>1. \A n \in DOMAIN nodes : Nested(n) /\ Line(n) \subseteq DOMAIN nodes
    BY <1>2, Above DEF Shape, LinesNest
  <2>2. \A n \in DOMAIN nodes : Nested(n)'
    BY <1>1, <2>1
  <2>3. Nested(N)'
    <3>1. /\ Line(cur) \subseteq 1 .. cur /\ 1 \in Line(cur) /\ cur \in 1 .. Len(nodes)
          /\ Line(cur) \subseteq DOMAIN nodes
      BY <1>2, <2>1
    <3>2. Line(N)' \subseteq 1 .. N /\ 1 \in Line(N)' /\ N \in Line(N)'
          /\ \A m \in Line(cur) : m < N
      BY <1>1, <3>1
    <3>3. \A m \in Line(cur) : Line(m)' = {k \in Line(N)' : k <= m}
      <4>1. \A m \in Line(cur) : Line(m)' = {k \in Line(cur) : k <= m}
        BY <1>1, <1>2, <2>1, <3>1
      <4>2. \A m \in Line(cur) : m \in Nat /\ ~(N <= m)
        BY <1>1, <3>1, <3>2
      <4> QED BY <1>1, <4>1, <4>2
    <3>4. Line(N)' = {k \in Line(N)' : k <= N}
      BY <1>1, <3>2
    <3>5. \A m \in Line(N)' : Line(m)' = {k \in Line(N)' : k <= m}
      BY <1>1, <3>3, <3>4
    <3>6. \A m \in Line(N)' : nodes'[m].kind = "expression" => nodes'[N].kind = "expression"
      BY <1>1, <1>2, <2>1, <3>1
    <3> QED BY <3>2, <3>5, <3>6
  <2>4. \A n \in DOMAIN nodes' : Nested(n)'
    BY <1>1, <2>2, <2>3
  <2> QED BY <2>4 DEF LinesNest
<1>8. OneDirective'
  <2>1. /\ directive.imports = {} \/ (directive.keeps = {} /\ directive.manages = {})
        /\ directive.keeps = {} \/ directive.manages = {}
    BY DEF Directives, NoDirective
  <2>2. kind # "shell" => directive.imports = {} /\ directive.keeps = {} /\ directive.manages = {}
    BY DEF NoDirective
  <2> QED BY <1>1, <2>1, <2>2 DEF Shape, OneDirective
<1>9. UsesShape'
  <2>1. ASSUME NEW i \in DOMAIN uses
        PROVE  /\ uses'[i] = uses[i] /\ uses[i].node \in DOMAIN nodes
               /\ nodes'[uses[i].node] = nodes[uses[i].node]
    BY <1>1, <1>3, NodeOfUse
  <2>2. ASSUME NEW i \in DOMAIN uses' \ DOMAIN uses
        PROVE  /\ uses'[i].node \in DOMAIN nodes' /\ uses'[i].act \in Acts
               /\ uses'[i].act = "parameter" => nodes'[uses'[i].node].kind = "function"
               /\ uses'[i].act # "load" => nodes'[uses'[i].node].kind # "expression"
               /\ uses'[i].act = "import" => uses'[i].name \in nodes'[uses'[i].node].manages
    BY <1>1, <1>4, <2>2 DEF Acts
  <2> QED BY <1>1, <2>1, <2>2 DEF Shape, UsesShape
<1>10. ParametersFirst'
  <2> SUFFICES ASSUME NEW i \in DOMAIN uses', NEW j \in DOMAIN uses', NEW n,
                      uses'[i].act = "parameter", uses'[j].act # "parameter",
                      uses'[j].node = n, uses'[i].node \in Line(n)'
               PROVE  i < j
    BY DEF ParametersFirst, Line
  <2>1. CASE i \in DOMAIN uses /\ j \in DOMAIN uses
    <3>1. uses'[i] = uses[i] /\ uses'[j] = uses[j] /\ uses[j].node \in DOMAIN nodes
      BY <1>3, <2>1, NodeOfUse
    <3>2. Line(n)' = Line(uses[j].node)
      BY <1>1, <3>1
    <3> QED BY <2>1, <3>1, <3>2 DEF Shape, ParametersFirst
  <2>2. CASE i \in DOMAIN uses /\ j \notin DOMAIN uses
    BY <1>3, <2>2
  <2>3. CASE i \notin DOMAIN uses /\ j \in DOMAIN uses
    <3>1. uses'[i].node = N
      BY <1>4, <2>3
    <3>2. uses'[j] = uses[j] /\ uses[j].node \in DOMAIN nodes
      BY <1>3, <2>3, NodeOfUse
    <3>3. n \in DOMAIN nodes /\ Line(n) \subseteq DOMAIN nodes
      BY <3>2, Above
    <3>4. Line(n)' \subseteq DOMAIN nodes
      BY <1>1, <3>3
    <3> QED BY <1>1, <3>1, <3>4
  <2>4. CASE i \notin DOMAIN uses /\ j \notin DOMAIN uses
    BY <1>4, <2>4
  <2> QED BY <2>1, <2>2, <2>3, <2>4
<1> QED BY <1>5, <1>6, <1>7, <1>8, <1>9, <1>10 DEF Shape

LEMMA DeclaredIs ==
    ASSUME NEW N \in Nat, NEW directive \in Directives, NEW kind \in {"module", "shell"}
    PROVE  FirstUses(N, kind, directive, Declared(N, directive))
<1> DEFINE m == CHOOSE name \in directive.manages : TRUE
<1>1. CASE directive.manages = {}
  <2>1. Declared(N, directive) = <<>>
    BY <1>1 DEF Declared
  <2>2. <<>> \in Seq(UsedNames) /\ DOMAIN <<>> = {}
    OBVIOUS
  <2> QED BY <2>1, <2>2 DEF FirstUses
<1>2. CASE directive.manages # {}
  <2>1. m \in directive.manages /\ directive.manages \subseteq Names
    BY <1>2 DEF Directives, NoDirective
  <2>2. Declared(N, directive) = <<Use(N, m, "import")>>
    BY <1>2 DEF Declared
  <2> HIDE DEF m
  <2>3. Use(N, m, "import") \in UsedNames
    BY <2>1 DEF Use, UsedNames, Acts
  <2>4. /\ <<Use(N, m, "import")>> \in Seq(UsedNames)
        /\ DOMAIN <<Use(N, m, "import")>> = {1}
    BY <2>3
  <2>5. /\ Use(N, m, "import").node = N /\ Use(N, m, "import").act = "import"
        /\ Use(N, m, "import").name = m
    BY DEF Use
  <2> QED BY <2>1, <2>2, <2>4, <2>5 DEF FirstUses
<1> QED BY <1>1, <1>2

(* A finite set can be listed.                                              *)
LEMMA ListIs ==
    ASSUME NEW S, IsFiniteSet(S)
    PROVE  SetToSeq(S) \in Seq(S)
<1>1. PICK n \in Nat : ExistsBijection(1 .. n, S)
  BY FS_NatBijection
<1>2. Cardinality(S) = n
  BY <1>1, FS_CountingElements
<1>3. \E f \in [1 .. n -> S] : IsInjective(f)
  BY <1>1 DEF ExistsBijection, Bijection, Injection, IsInjective
<1>4. SetToSeq(S) \in [1 .. n -> S]
  BY <1>2, <1>3 DEF SetToSeq
<1> QED BY <1>4

LEMMA ParametersAre ==
    ASSUME NEW N \in Nat, NEW parameters \in SUBSET Names
    PROVE  FirstUses(N, "function", NoDirective,
                     SetToSeq({Use(N, p, "parameter") : p \in parameters}))
<1> DEFINE S == {Use(N, p, "parameter") : p \in parameters}
           list == SetToSeq(S)
<1>1. IsFiniteSet(parameters)
  BY HygieneAssumption, FS_Subset
<1>2. [p \in parameters |-> Use(N, p, "parameter")] \in Surjection(parameters, S)
  BY DEF Surjection
<1>3. IsFiniteSet(S)
  BY <1>1, <1>2, FS_Surjection
<1>4. \A u \in S : u \in UsedNames /\ u.node = N /\ u.act = "parameter"
  BY DEF Use, UsedNames, Acts
<1> HIDE DEF S
<1>5. list \in Seq(S)
  BY <1>3, ListIs
<1> HIDE DEF list
<1>6. list \in Seq(UsedNames) /\ \A k \in DOMAIN list : list[k] \in S
  BY <1>4, <1>5
<1> QED BY <1>4, <1>6 DEF FirstUses, list, S

LEMMA HygieneInit == Init => HInv
<1> SUFFICES ASSUME NEW directive \in Directives, directive.imports = {},
                    nodes = <<Node(<< 1 >>, "module", directive)>>,
                    uses = Declared(1, directive), cur = 1, emitted = <<>>
             PROVE  HInv
  BY DEF Init
<1> DEFINE root == Node(<<1>>, "module", directive)
<1>1. /\ directive.imports \subseteq Names /\ directive.keeps \subseteq Names
      /\ directive.manages \subseteq Names
      /\ directive.keeps = {} \/ directive.manages = {}
  BY DEF Directives, NoDirective
<1>2. /\ root.path = <<1>> /\ root.kind = "module" /\ root.imports = {}
      /\ root.keeps = directive.keeps /\ root.manages = directive.manages
      /\ root \in TreeNodes
  <2>1. <<1>> \in Seq(Nat)
    OBVIOUS
  <2> QED BY <1>1, <2>1 DEF Node, TreeNodes, Kinds
<1> HIDE DEF root
<1>3. nodes \in Seq(TreeNodes) /\ Len(nodes) = 1 /\ DOMAIN nodes = {1} /\ nodes[1] = root
  BY <1>2 DEF root
<1>4. FirstUses(1, "module", directive, uses)
  BY DeclaredIs
<1>5. Typed
  BY <1>3, <1>4 DEF Typed, FirstUses
<1>6. Line(1) = {1}
  BY <1>2, <1>3 DEF Line
<1>7. NodesShape
  BY <1>2, <1>3, HygieneAssumption DEF NodesShape
<1>8. LinesNest
  BY <1>2, <1>3, <1>6 DEF LinesNest
<1>9. OneDirective
  BY <1>1, <1>2, <1>3 DEF OneDirective
<1>10. \A i \in DOMAIN uses :
          uses[i].node = 1 /\ uses[i].act = "import" /\ uses[i].name \in directive.manages
  BY <1>4 DEF FirstUses
<1>11. UsesShape
  BY <1>2, <1>3, <1>10 DEF UsesShape, Acts
<1>12. ParametersFirst
  BY <1>10 DEF ParametersFirst
<1> QED BY <1>5, <1>7, <1>8, <1>9, <1>11, <1>12 DEF HInv, Shape, Spelled, Emitted

(* What is read off a tree stays as it is while the tree does.              *)
LEMMA SameTree ==
    ASSUME nodes' = nodes, uses' = uses
    PROVE  /\ Shape' = Shape /\ Identities' = Identities
           /\ \A i \in DOMAIN uses : Spelling(Identities, i)' = Spelling(Identities, i)
           /\ \A habit \in Habits : Breaks(habit)' = Breaks(habit)
<1>1. \A n : Line(n)' = Line(n)
  BY DEF Line
<1>2. \A kinds : OfKind(kinds)' = OfKind(kinds)
  BY DEF OfKind
<1>3. Shape' = Shape
  BY <1>1 DEF Shape, NodesShape, LinesNest, OneDirective, UsesShape, ParametersFirst
<1>4. /\ Scopes' = Scopes
      /\ \A n : ScopeOf(n)' = ScopeOf(n) /\ BodyOf(n)' = BodyOf(n)
      /\ \A n : FunctionOf(n)' = FunctionOf(n) /\ Parent(n)' = Parent(n)
  BY <1>1, <1>2 DEF Scopes, ScopeOf, BodyOf, FunctionOf, Nearest, Parent
<1>5. \A i \in DOMAIN uses : Identity(i)' = Identity(i)
  <2>1. \A i : Binds(i)' = Binds(i)
    BY DEF Binds
  <2>2. \A n : Bindings(n)' = Bindings(n)
    BY <1>4, <2>1 DEF Bindings
  <2>3. \A n : Parameters(n)' = Parameters(n)
    BY <1>4 DEF Parameters
  <2>4. \A n : OuterScope(n)' = OuterScope(n)
    BY <1>4 DEF OuterScope
  <2>5. \A n : \A scope : \A name : ImportOrigin(scope, name)' = ImportOrigin(scope, name)
    BY <1>1, <1>4 DEF ImportOrigin, Nearest, ImportersOf
  <2>6. Trusted' = Trusted /\ Preserved' = Preserved
    BY DEF Trusted, Preserved
  <2>7. \A n, name : LoadRole(n, name)' = LoadRole(n, name)
    BY <1>4, <2>2, <2>3, <2>6 DEF LoadRole
  <2>8. \A n, name : ImportedOccurrence(n, name)' = ImportedOccurrence(n, name)
    BY <1>4, <2>5, <2>6 DEF ImportedOccurrence
  <2>9. \A n, name : LoadOccurrence(n, name)' = LoadOccurrence(n, name)
    BY <1>4, <2>2, <2>4, <2>7 DEF LoadOccurrence
  <2>10. \A n, name : StoreOccurrence(n, name)' = StoreOccurrence(n, name)
    BY <1>4 DEF StoreOccurrence
  <2>11. \A n : ParameterOccurrence(n)' = ParameterOccurrence(n)
    BY <1>4 DEF ParameterOccurrence
  <2> QED BY <1>4, <2>8, <2>9, <2>10, <2>11 DEF Identity
<1>6. Identities' = Identities
  BY <1>5 DEF Identities
<1>7. \A i \in DOMAIN uses : Spelling(Identities, i)' = Spelling(Identities, i)
  <2>1. \A name, group : KeptScopes(name, group, Identities)' = KeptScopes(name, group, Identities)
    BY <1>6 DEF KeptScopes, Trusted
  <2> QED BY <1>6, <2>1 DEF Spelling
<1>8. /\ \A i : Shadowed(i)' = Shadowed(i) /\ Imported(i)' = Imported(i)
      /\ \A name : ImportersOf(name)' = ImportersOf(name)
      /\ \A i : Owner(i)' = Owner(i)
  BY <1>1, <1>4 DEF Shadowed, Imported, ImportersOf, Owner, Nearest
<1>9. /\ Binders' = Binders /\ Loads' = Loads /\ Trusted' = Trusted
      /\ \A name : Imports(name)' = Imports(name)
      /\ \A j : BoundIn(j)' = BoundIn(j)
  BY <1>4 DEF Binders, Loads, Trusted, Binds, Imports, BoundIn
<1>10. \A i : MeantBy(i)' = MeantBy(i)
  <2>1. \A i, binders : Resolve(i, binders)' = Resolve(i, binders)
    BY <1>1, <1>4, <1>9 DEF Resolve
  <2> QED BY <1>8, <1>9, <2>1 DEF MeantBy
<1>11. \A i : MeantParameter(i)' = MeantParameter(i) /\ OuterScope(i)' = OuterScope(i)
  BY <1>4 DEF MeantParameter, OuterScope
<1>12. \A habit \in Habits : Breaks(habit)' = Breaks(habit)
  BY <1>1, <1>2, <1>4, <1>8, <1>9, <1>10, <1>11 DEF Habits, Breaks
<1> QED BY <1>3, <1>6, <1>7, <1>12

LEMMA HygieneStep == HInv /\ [Next]_vars => HInv'
<1> SUFFICES ASSUME HInv, [Next]_vars
             PROVE  HInv'
  OBVIOUS
<1>1. Typed /\ Shape /\ Spelled
  BY DEF HInv
<1>2. Len(nodes) + 1 \in Nat
  BY <1>1 DEF Typed
<1>3. NoDirective \in Directives
  BY DEF Directives
<1>4. ASSUME (Typed /\ Shape)', emitted = <<>>, emitted' = emitted
      PROVE  HInv'
  BY <1>4 DEF HInv, Spelled, Emitted
<1>5. ASSUME NEW directive \in Directives, EnterShell(directive)
      PROVE  HInv'
  <2>1. /\ nodes[cur].kind # "expression"
        /\ Enter("shell", directive, Declared(Len(nodes) + 1, directive))
    BY <1>5 DEF EnterShell
  <2>2. FirstUses(Len(nodes) + 1, "shell", directive, Declared(Len(nodes) + 1, directive))
    BY <1>2, DeclaredIs
  <2>3. (Typed /\ Shape)'
    BY <1>1, <2>1, <2>2, EnterKeepsShape
  <2> QED BY <1>4, <2>1, <2>3 DEF Enter
<1>6. CASE EnterExpression
  <2>1. Enter("expression", NoDirective, <<>>)
    BY <1>6 DEF EnterExpression
  <2>2. FirstUses(Len(nodes) + 1, "expression", NoDirective, <<>>)
    BY DEF FirstUses
  <2>3. (Typed /\ Shape)'
    BY <1>1, <1>3, <2>1, <2>2, EnterKeepsShape
  <2> QED BY <1>4, <2>1, <2>3 DEF Enter
<1>7. ASSUME NEW parameters \in SUBSET Names, EnterFunction(parameters)
      PROVE  HInv'
  <2> DEFINE list == SetToSeq({Use(Len(nodes) + 1, p, "parameter") : p \in parameters})
  <2>1. nodes[cur].kind # "expression" /\ Enter("function", NoDirective, list)
    BY <1>7 DEF EnterFunction
  <2>2. FirstUses(Len(nodes) + 1, "function", NoDirective, list)
    BY <1>2, ParametersAre
  <2> HIDE DEF list
  <2>3. (Typed /\ Shape)'
    BY <1>1, <1>3, <2>1, <2>2, EnterKeepsShape
  <2> QED BY <1>4, <2>1, <2>3 DEF Enter
<1>8. CASE Leave
  <2>1. emitted = <<>> /\ cur # 1 /\ cur' = Parent(cur) /\ nodes' = nodes /\ uses' = uses
        /\ emitted' = emitted
    BY <1>8 DEF Leave
  <2>2. Parent(cur) \in DOMAIN nodes
    BY <1>1, <2>1, ParentIs DEF Typed
  <2>3. Shape'
    BY <1>1, <2>1, SameTree
  <2> QED BY <1>1, <1>4, <2>1, <2>2, <2>3 DEF Typed
<1>9. ASSUME NEW name \in Names, NEW act \in {"load", "store"}, Write(name, act)
      PROVE  HInv'
  <2>1. /\ emitted = <<>> /\ nodes' = nodes /\ cur' = cur /\ emitted' = emitted
        /\ nodes[cur].kind = "expression" => act = "load"
        /\ uses' = Append(uses, Use(cur, name, act))
    BY <1>9 DEF Write
  <2>2. uses \in Seq(UsedNames) /\ cur \in DOMAIN nodes /\ cur \in Nat /\ Len(uses) \in Nat
        /\ DOMAIN uses = 1 .. Len(uses)
    BY <1>1 DEF Typed
  <2>3. Use(cur, name, act) \in UsedNames
    BY <2>2 DEF Use, UsedNames, Acts
  <2>4. /\ uses' \in Seq(UsedNames) /\ DOMAIN uses' = 1 .. Len(uses) + 1
        /\ \A i \in DOMAIN uses : uses'[i] = uses[i]
        /\ uses'[Len(uses) + 1] = Use(cur, name, act)
    BY <2>1, <2>2, <2>3, AppendProperties
  <2>5. \A n : Line(n)' = Line(n)
    BY <2>1 DEF Line
  <2>6. \A i \in DOMAIN uses' \ DOMAIN uses :
           /\ uses'[i].node = cur /\ uses'[i].act = act
           /\ \A j \in DOMAIN uses : j < i
    BY <2>2, <2>4 DEF Use
  <2>7. NodesShape' /\ LinesNest' /\ OneDirective'
    BY <1>1, <2>1, <2>5 DEF Shape, NodesShape, LinesNest, OneDirective
  <2>8. UsesShape'
    BY <1>1, <2>1, <2>2, <2>4, <2>6 DEF Shape, UsesShape, Acts
  <2>9. ParametersFirst'
    <3> SUFFICES ASSUME NEW i \in DOMAIN uses', NEW j \in DOMAIN uses', NEW n,
                        uses'[i].act = "parameter", uses'[j].act # "parameter",
                        uses'[j].node = n, uses'[i].node \in Line(n)'
                 PROVE  i < j
      BY DEF ParametersFirst, Line
    <3>1. i \in DOMAIN uses /\ uses'[i] = uses[i]
      BY <2>4, <2>6
    <3>2. CASE j \in DOMAIN uses
      <4>1. uses'[j] = uses[j] /\ Line(n)' = Line(uses[j].node)
        BY <2>4, <2>5, <3>2
      <4> QED BY <1>1, <3>1, <3>2, <4>1 DEF Shape, ParametersFirst
    <3>3. CASE j \notin DOMAIN uses
      BY <2>6, <3>1, <3>3
    <3> QED BY <3>2, <3>3
  <2>10. Typed'
    BY <1>1, <2>1, <2>4 DEF Typed
  <2> QED BY <1>4, <2>1, <2>7, <2>8, <2>9, <2>10 DEF Shape
<1>10. CASE Materialize
  <2>1. /\ nodes' = nodes /\ cur' = cur /\ uses' = uses
        /\ \A habit \in Avoided : ~Breaks(habit)
        /\ emitted' = [i \in DOMAIN uses |-> Spelling(Identities, i)]
    BY <1>10 DEF Materialize, Identities
  <2>2. /\ Shape' = Shape /\ Identities' = Identities
        /\ \A i \in DOMAIN uses : Spelling(Identities, i)' = Spelling(Identities, i)
        /\ \A habit \in Habits : Breaks(habit)' = Breaks(habit)
    BY <2>1, SameTree
  <2>3. Spelled'
    BY <2>1, <2>2, HygieneAssumption DEF Spelled
  <2> QED BY <1>1, <2>1, <2>2, <2>3 DEF HInv, Typed
<1>11. CASE UNCHANGED vars
  <2>1. nodes' = nodes /\ cur' = cur /\ uses' = uses /\ emitted' = emitted
    BY <1>11 DEF vars
  <2>2. /\ Shape' = Shape /\ Identities' = Identities
        /\ \A i \in DOMAIN uses : Spelling(Identities, i)' = Spelling(Identities, i)
        /\ \A habit \in Habits : Breaks(habit)' = Breaks(habit)
    BY <2>1, SameTree
  <2>3. Spelled'
    BY <1>1, <2>1, <2>2, HygieneAssumption DEF Spelled, Emitted
  <2> QED BY <1>1, <2>1, <2>2, <2>3 DEF HInv, Typed
<1> QED BY <1>5, <1>6, <1>7, <1>8, <1>9, <1>10, <1>11 DEF Next

LEMMA HygieneInvariant == Spec => []HInv
BY HygieneInit, HygieneStep, PTL DEF Spec

-----------------------------------------------------------------------------
(* What the pass promises, and the habits each promise leans on.            *)

(* A name its snippet keeps is emitted as written wherever that snippet     *)
(* writes it, whatever the snippets around it do (the trust model,          *)
(* hygiene/api.py:441): no habit is needed.                                 *)
THEOREM NamesKeptLiteral == Spec => []KeptNamesLiteral
BY HygieneInvariant, KeptNamesHold, PTL

(* A parameter is never renamed and an expression inserted in its function  *)
(* reads it (hygiene/api.py:1072, 1274), as long as no expression is        *)
(* inserted into an inserted expression there.                              *)
THEOREM ParametersStay ==
    ASSUME "parameters below a nested expression" \in Avoided
    PROVE  Spec => []ParametersStable
<1>1. HInv => ParametersStable
  <2>1. HInv /\ Emitted => ParametersNear
    BY HabitsLeave DEF HInv, Spelled
  <2> QED BY <2>1, ParametersHold DEF ParametersStable
<1> QED BY <1>1, HygieneInvariant, PTL

(* An import is spelled as the binding of its owner is, through any number  *)
(* of scopes that pass the name on (hygiene/api.py:966), unless the name is *)
(* kept by a stranger or is a managed one.                                  *)
THEOREM ImportsFollow ==
    ASSUME "keeping a name someone imports" \in Avoided,
           "importing below a managed name" \in Avoided,
           "rebinding a managed name" \in Avoided
    PROVE  Spec => []ImportsFollowTheirOwner
<1>1. HInv => ImportsFollowTheirOwner
  <2>1. HInv /\ Emitted => KeepsAgree /\ ManagedAbove /\ ManagedBoundOnce
    BY HabitsLeave DEF HInv, Spelled
  <2> QED BY <2>1, ImportsHold DEF ImportsFollowTheirOwner
<1> QED BY <1>1, HygieneInvariant, PTL

(* Two snippets share a variable of a function only where both own its      *)
(* spelling (hygiene/api.py:405), in trees of any depth and width; reading  *)
(* a name from an enclosing function is no danger to that.                  *)
THEOREM BindingsStayApart ==
    ASSUME "keeping a name someone imports" \in Avoided,
           "importing below a managed name" \in Avoided,
           "rebinding a managed name" \in Avoided,
           "shadowing an imported name" \in Avoided
    PROVE  Spec => []BindingsApart
<1>1. HInv => BindingsApart
  <2>1. HInv /\ Emitted => KeepsAgree /\ ManagedAbove /\ ManagedBoundOnce /\ ImportsSeen
    BY HabitsLeave DEF HInv, Spelled
  <2> QED BY <2>1, BindingsApartHolds DEF BindingsApart
<1> QED BY <1>1, HygieneInvariant, PTL

(* Every read of the flat program sees the bindings its author meant and,   *)
(* apart from spellings both sides own, no other: hygiene changes what a    *)
(* program is spelled like, never what it says (scope identities and        *)
(* renames, hygiene/api.py:405, 961).                                       *)
THEOREM ReadsSeeTheirs ==
    ASSUME Habits \ {"parameters below a nested expression"} \subseteq Avoided
    PROVE  Spec => []ReadsSeeTheirBindings
<1>1. HInv => ReadsSeeTheirBindings
  <2>1. HInv /\ Emitted => Habitual
    BY HabitsLeave DEF HInv, Spelled, Habits, Habitual
  <2> QED BY <2>1, ReadsHold DEF ReadsSeeTheirBindings
<1> QED BY <1>1, HygieneInvariant, PTL
=============================================================================
