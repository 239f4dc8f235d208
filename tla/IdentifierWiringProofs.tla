----------------------- MODULE IdentifierWiringProofs -----------------------
(***************************************************************************)
(* Careful wirings hold, for any pieces, names and number of wirings.      *)
(* Each wiring rewrites the trees twice: its target's tree is prepared (a  *)
(* supply renamed, an alias published), then the demand takes its name.    *)
(* The invariant says what every slot a wiring speaks of is spelled, once  *)
(* for the wirings that are applied and once for those that are not; the   *)
(* Careful discipline is what keeps one wiring's rewriting off the slots   *)
(* of the others.                                                          *)
(***************************************************************************)
EXTENDS IdentifierWiring, SequenceTheorems, FiniteSetTheorems, TLAPS

-----------------------------------------------------------------------------
(* What the three rewritings do to one tree. *)
IsTree(tree) == DOMAIN tree = {"spelled", "declared", "open"}

LEMMA RespelledIs ==
    ASSUME NEW tree, IsTree(tree), NEW old, NEW new
    PROVE  LET after == Respelled(tree, old, new)
           IN  /\ IsTree(after)
               /\ after.declared = tree.declared /\ after.open = tree.open
               /\ DOMAIN after.spelled = DOMAIN tree.spelled
               /\ \A s \in DOMAIN tree.spelled :
                     after.spelled[s] = IF Renames(tree, s, old) THEN new
                                                                ELSE tree.spelled[s]
BY DEF Respelled, IsTree

(* The preparation of a renamed supply. *)
LEMMA RenamedIs ==
    ASSUME NEW tree, IsTree(tree), NEW old, NEW new
    PROVE  LET after == Renamed(tree, old, new)
           IN  /\ IsTree(after)
               /\ after.open = tree.open
               /\ tree.declared \ {old} \subseteq after.declared
               /\ DOMAIN after.spelled = DOMAIN tree.spelled
               /\ \A s \in DOMAIN tree.spelled :
                     /\ tree.spelled[s] # old \/ s[1] = "def" =>
                           after.spelled[s] = tree.spelled[s]
                     /\ tree.spelled[s] = old /\ s[1] = "supply" =>
                           after.spelled[s] = new
<1> DEFINE middle == Respelled(tree, old, new)
           after == Renamed(tree, old, new)
<1>1. /\ IsTree(middle)
      /\ middle.declared = tree.declared /\ middle.open = tree.open
      /\ DOMAIN middle.spelled = DOMAIN tree.spelled
      /\ \A s \in DOMAIN tree.spelled :
            middle.spelled[s] = IF Renames(tree, s, old) THEN new ELSE tree.spelled[s]
  BY RespelledIs
<1>2. after = [middle EXCEPT !.declared = Redeclared(@, old, new)]
  BY DEF Renamed
<1> HIDE DEF middle, after
<1>3. /\ IsTree(after)
      /\ after.open = middle.open /\ after.spelled = middle.spelled
      /\ after.declared = Redeclared(middle.declared, old, new)
  BY <1>1, <1>2 DEF IsTree
<1>4. tree.declared \ {old} \subseteq after.declared
  BY <1>1, <1>3 DEF Redeclared
<1>5. \A s \in DOMAIN tree.spelled :
         /\ tree.spelled[s] # old \/ s[1] = "def" =>
               after.spelled[s] = tree.spelled[s]
         /\ tree.spelled[s] = old /\ s[1] = "supply" =>
               after.spelled[s] = new
  BY <1>1, <1>3 DEF Renames
<1> QED BY <1>1, <1>3, <1>4, <1>5 DEF after

(* The preparation of an ambiguous one. *)
LEMMA AliasPublishedIs ==
    ASSUME NEW tree, IsTree(tree), NEW v
    PROVE  LET after == AliasPublished(tree, v)
           IN  /\ IsTree(after)
               /\ after.declared = tree.declared /\ after.open = tree.open
               /\ DOMAIN after.spelled = DOMAIN tree.spelled \cup {AliasSlot(v)}
               /\ \A s \in DOMAIN tree.spelled : after.spelled[s] = tree.spelled[s]
               /\ AliasSlot(v) \notin DOMAIN tree.spelled =>
                     after.spelled[AliasSlot(v)] = v
BY DEF AliasPublished, IsTree

(* The rewriting of a demand. *)
LEMMA DemandRewrittenIs ==
    ASSUME NEW tree, IsTree(tree), NEW x, NEW new, NEW rm \in BOOLEAN
    PROVE  LET after == DemandRewritten(tree, x, new, rm)
           IN  /\ IsTree(after)
               /\ after.open = tree.open \ {x}
               /\ tree.declared \ {x} \subseteq after.declared
               /\ DOMAIN after.spelled = DOMAIN tree.spelled
               /\ \A s \in DOMAIN tree.spelled :
                     /\ s = ArgSlot(x) /\ x \in tree.open => after.spelled[s] = new
                     /\ s[1] = "pass" /\ tree.spelled[s] = x => after.spelled[s] = new
                     /\ s[1] = "import" /\ tree.spelled[s] = x /\ x \in tree.declared =>
                           after.spelled[s] = new
                     /\ s # ArgSlot(x) /\ (tree.spelled[s] # x \/ s[1] = "def") =>
                           after.spelled[s] = tree.spelled[s]
<1> DEFINE resolved == ArgResolved(tree, x, new)
           middle == Respelled(resolved, x, new)
           after == DemandRewritten(tree, x, new, rm)
<1>1. /\ IsTree(resolved)
      /\ resolved.declared = tree.declared /\ resolved.open = tree.open \ {x}
      /\ DOMAIN resolved.spelled = DOMAIN tree.spelled
      /\ \A s \in DOMAIN tree.spelled :
            resolved.spelled[s] = IF \/ s = ArgSlot(x) /\ x \in tree.open
                                     \/ s[1] = "pass" /\ tree.spelled[s] = x
                                  THEN new ELSE tree.spelled[s]
  BY DEF ArgResolved, IsTree
<1> HIDE DEF resolved
<1>2. /\ IsTree(middle)
      /\ middle.declared = resolved.declared /\ middle.open = resolved.open
      /\ DOMAIN middle.spelled = DOMAIN resolved.spelled
      /\ \A s \in DOMAIN resolved.spelled :
            middle.spelled[s] = IF Renames(resolved, s, x) THEN new
                                                          ELSE resolved.spelled[s]
  BY <1>1, RespelledIs
<1> HIDE DEF middle
<1>3. CASE x \notin tree.declared
  <2>1. after = resolved
    BY <1>1, <1>3 DEF DemandRewritten, resolved
  <2> HIDE DEF after
  <2>2. /\ IsTree(after) /\ after.open = tree.open \ {x}
        /\ tree.declared \ {x} \subseteq after.declared
        /\ DOMAIN after.spelled = DOMAIN tree.spelled
    BY <1>1, <2>1
  <2>3. \A s \in DOMAIN tree.spelled :
           /\ s = ArgSlot(x) /\ x \in tree.open => after.spelled[s] = new
           /\ s[1] = "pass" /\ tree.spelled[s] = x => after.spelled[s] = new
           /\ s # ArgSlot(x) /\ (tree.spelled[s] # x \/ s[1] # "pass") =>
                 after.spelled[s] = tree.spelled[s]
    BY <1>1, <2>1
  <2> QED BY <1>3, <2>2, <2>3 DEF after
<1>4. CASE x \in tree.declared
  <2> DEFINE kept == IF rm THEN middle.declared \ {x}
                           ELSE Redeclared(middle.declared, x, new)
  <2>1. after = [middle EXCEPT !.declared = kept]
    BY <1>1, <1>4 DEF DemandRewritten, resolved, middle
  <2>2. tree.declared \ {x} \subseteq kept
    BY <1>1, <1>2 DEF Redeclared
  <2> HIDE DEF after, kept
  <2>3. /\ IsTree(after) /\ after.open = middle.open
        /\ after.declared = kept /\ after.spelled = middle.spelled
    BY <1>2, <2>1 DEF IsTree
  <2>4. \A s \in DOMAIN tree.spelled :
           /\ s = ArgSlot(x) /\ x \in tree.open => middle.spelled[s] = new
           /\ s[1] = "pass" /\ tree.spelled[s] = x => middle.spelled[s] = new
           /\ s[1] = "import" /\ tree.spelled[s] = x => middle.spelled[s] = new
           /\ s # ArgSlot(x) /\ (tree.spelled[s] # x \/ s[1] = "def") =>
                 middle.spelled[s] = tree.spelled[s]
    BY <1>1, <1>2 DEF Renames, ArgSlot
  <2> QED BY <1>1, <1>2, <2>2, <2>3, <2>4 DEF after
<1> QED BY <1>3, <1>4
-----------------------------------------------------------------------------
(* The lists the builder lets through, and the name each wiring gives to    *)
(* its demand.                                                              *)
ListsOK ==
    /\ assigns \in Seq(Binding) /\ Len(assigns) <= MaxBindings
    /\ bindings \in Seq(Binding) /\ Len(bindings) <= MaxBindings
    /\ WiredOnce(assigns) /\ WiredOnce(bindings)
    /\ \A a \in ToSet(assigns), b \in ToSet(bindings) : a.demand # b.demand

Ambiguous(b) == AmbiguousFor(b.demand.instance, b.supply.name)

Given(b) ==
    IF b \in ToSet(assigns)
    THEN IF Ambiguous(b) THEN AliasName(b.supply.instance, b.supply.name)
                         ELSE b.supply.name
    ELSE DirectName(CHOOSE k \in DOMAIN bindings : bindings[k] = b)

LEMMA DeclaredTyped ==
    ASSUME ListsOK, NEW b \in Declared
    PROVE  /\ b \in Binding
           /\ b.demand.name \in Ident /\ b.supply.name \in Ident
           /\ b.demand = [instance |-> b.demand.instance, name |-> b.demand.name]
           /\ b.supply = [instance |-> b.supply.instance, name |-> b.supply.name]
<1>1. b \in Binding
  BY DEF ListsOK, Declared, ToSet
<1> QED BY <1>1 DEF Binding, Site

(* A demand belongs to one wiring. *)
LEMMA OneWiring ==
    ASSUME ListsOK, NEW a \in Declared, NEW b \in Declared, a.demand = b.demand
    PROVE  a = b
BY DEF ListsOK, Declared, ToSet, WiredOnce

LEMMA GivenOfBinding ==
    ASSUME ListsOK, NEW k \in DOMAIN bindings
    PROVE  Given(bindings[k]) = DirectName(k) /\ bindings[k] \notin ToSet(assigns)
<1>1. bindings[k] \notin ToSet(assigns)
  BY DEF ListsOK, ToSet
<1>2. (CHOOSE j \in DOMAIN bindings : bindings[j] = bindings[k]) = k
  BY DEF ListsOK, WiredOnce
<1> QED BY <1>1, <1>2 DEF Given

(* The number a scoped name carries is at least one, and less than the      *)
(* position of its binding.                                                 *)
LEMMA SeenCounted ==
    ASSUME ListsOK, NEW k \in DOMAIN bindings
    PROVE  /\ IsFiniteSet(SeenTargets(k))
           /\ SeenTargets(k) # {} => Cardinality(SeenTargets(k)) \in 1 .. MaxBindings
<1>1. k \in Nat /\ k - 1 \in Nat /\ k - 1 <= MaxBindings
  BY WiringAssumption DEF ListsOK
<1> DEFINE J == {i \in 1 .. k - 1 : bindings[i].supply.name = bindings[k].supply.name}
           f == [j \in J |-> bindings[j].supply.instance]
<1>2. IsFiniteSet(1 .. k - 1) /\ Cardinality(1 .. k - 1) = k - 1
  BY <1>1, FS_Interval
<1>3. IsFiniteSet(J) /\ Cardinality(J) <= k - 1
  BY <1>2, FS_Subset
<1>4. f \in Surjection(J, SeenTargets(k))
  <2>1. SeenTargets(k) = {bindings[j].supply.instance : j \in J}
    BY DEF SeenTargets
  <2> HIDE DEF J
  <2> QED BY <2>1 DEF Surjection
<1> HIDE DEF f, J
<1>5. IsFiniteSet(SeenTargets(k)) /\ Cardinality(SeenTargets(k)) <= Cardinality(J)
  BY <1>3, <1>4, FS_Surjection
<1>6. Cardinality(J) \in Nat /\ Cardinality(SeenTargets(k)) \in Nat
  BY <1>3, <1>5, FS_CardinalityType
<1>7. SeenTargets(k) # {} => Cardinality(SeenTargets(k)) # 0
  BY <1>5, FS_EmptySet
<1>8. MaxBindings \in Nat
  BY WiringAssumption
<1> QED BY <1>1, <1>3, <1>5, <1>6, <1>7, <1>8

(* A demand takes its supply's name, or one that no author writes.          *)
LEMMA GivenIs ==
    ASSUME ListsOK, Careful, NEW b \in Declared
    PROVE  Given(b) = b.supply.name \/ Given(b) \notin Ident
<1>1. b.supply.name \in Ident /\ b.supply.instance \in Inst
  BY DeclaredTyped DEF Careful, Grounded
<1>2. CASE b \in ToSet(assigns)
  BY <1>1, <1>2, MadeUpNamesApart DEF Given, AliasName
<1>3. CASE b \notin ToSet(assigns)
  <2>1. PICK k \in DOMAIN bindings : b = bindings[k]
    BY <1>3 DEF Declared, ToSet
  <2>2. Given(b) = DirectName(k)
    BY <2>1, GivenOfBinding
  <2>3. CASE SeenTargets(k) = {} \/ bindings[k].supply.instance \in SeenTargets(k)
    BY <2>1, <2>2, <2>3 DEF DirectName
  <2>4. CASE ~(SeenTargets(k) = {} \/ bindings[k].supply.instance \in SeenTargets(k))
    <3>1. Given(b) = <<b.supply.name, Cardinality(SeenTargets(k))>>
      BY <2>1, <2>2, <2>4 DEF DirectName, Scoped
    <3>2. Cardinality(SeenTargets(k)) \in 1 .. MaxBindings
      BY <2>4, SeenCounted
    <3> QED BY <1>1, <3>1, <3>2, MadeUpNamesApart
  <2> QED BY <2>3, <2>4
<1> QED BY <1>2, <1>3

(* A supply that a binding renames is nobody else's. *)
LEMMA RenamedIsPrivate ==
    ASSUME ListsOK, Careful, NEW b \in Declared, b \notin ToSet(assigns),
           Given(b) # b.supply.name
    PROVE  /\ b.supply.name \notin Definitions[b.supply.instance]
           /\ \A c \in Declared \ {b} :
                 /\ c.supply # b.supply
                 /\ c.demand.instance = b.supply.instance => c.supply.name # b.supply.name
<1>1. PICK k \in DOMAIN bindings : b = bindings[k]
  BY DEF Declared, ToSet
<1>2. RenamesSupply(k)
  BY <1>1, GivenOfBinding DEF RenamesSupply
<1> QED BY <1>1, <1>2 DEF Careful, RenamedSuppliesPrivate

-----------------------------------------------------------------------------
(* What the trees T spell, when the wirings in S have prepared their        *)
(* targets and those in D have their demands rewritten.                     *)
Pending(b, T) ==
    LET tree == T[b.demand.instance]
        x    == b.demand.name
    IN  /\ x \in Imports[b.demand.instance] =>
              tree.spelled[ImportSlot(x)] = x /\ x \in tree.declared
        /\ x \in Args[b.demand.instance] => x \in tree.open
        /\ x \in Passes[b.demand.instance] => tree.spelled[PassSlot(x)] = x

Reads(b, T) ==
    \A s \in DemandSlots(b) : T[b.demand.instance].spelled[s] = Given(b)

SupplySpelled(b, T, S) ==
    \A s \in SupplySlots(b) :
        T[b.supply.instance].spelled[s] =
            IF b \in S /\ b \notin ToSet(assigns) THEN Given(b) ELSE b.supply.name

AliasThere(b, T) ==
    b \in ToSet(assigns) /\ Ambiguous(b) =>
        AliasSlot(b.supply.name) \in DOMAIN T[b.supply.instance].spelled

AliasesRead(T) ==
    \A t \in Inst : \A v : AliasSlot(v) \in DOMAIN T[t].spelled =>
        /\ T[t].spelled[AliasSlot(v)] = v
        /\ \E c \in ToSet(assigns) : c.supply = [instance |-> t, name |-> v]

TreesOK(T, S, D) ==
    /\ DOMAIN T = Inst
    /\ \A i \in Inst : IsTree(T[i]) /\ SlotsOf(i) \subseteq DOMAIN T[i].spelled
    /\ \A b \in Declared \ D : Pending(b, T)
    /\ \A b \in Declared \cap D : Reads(b, T)
    /\ \A b \in Declared : SupplySpelled(b, T, S)
    /\ \A b \in Declared \cap S : AliasThere(b, T)
    /\ AliasesRead(T)

(* The target's tree as the wiring b leaves it. *)
Prepared(b, tree) ==
    IF b \in ToSet(assigns)
    THEN IF Ambiguous(b) THEN AliasPublished(tree, b.supply.name) ELSE tree
    ELSE IF Given(b) = b.supply.name THEN tree
                                     ELSE Renamed(tree, b.supply.name, Given(b))

(* Slots of different kinds, or of different names, are different slots.    *)
LEMMA SlotsApart ==
    \A x, y : /\ ImportSlot(x) # ArgSlot(y) /\ SupplySlot(x) # ArgSlot(y)
              /\ DefSlot(x) # ArgSlot(y) /\ AliasSlot(x) # ArgSlot(y)
              /\ PassSlot(x) # ArgSlot(y) /\ AliasSlot(x) # PassSlot(y)
              /\ ArgSlot(x) = ArgSlot(y) => x = y
              /\ AliasSlot(x) = AliasSlot(y) => x = y
              /\ ImportSlot(x)[1] = "import" /\ SupplySlot(x)[1] = "supply"
              /\ DefSlot(x)[1] = "def" /\ PassSlot(x)[1] = "pass"
BY DEF ImportSlot, ArgSlot, PassSlot, SupplySlot, DefSlot, AliasSlot

(* What preparing a target does, whatever the kind of wiring.               *)
LEMMA PreparedIs ==
    ASSUME ListsOK, NEW b \in Declared, NEW tree, IsTree(tree)
    PROVE  LET after == Prepared(b, tree)
               v == b.supply.name
               renames == b \notin ToSet(assigns) /\ Given(b) # v
           IN  /\ IsTree(after) /\ after.open = tree.open
               /\ tree.declared \ {v} \subseteq after.declared
               /\ DOMAIN tree.spelled \subseteq DOMAIN after.spelled
               /\ \A s \in DOMAIN tree.spelled :
                     /\ ~renames \/ tree.spelled[s] # v \/ s[1] = "def" =>
                           after.spelled[s] = tree.spelled[s]
                     /\ renames /\ tree.spelled[s] = v /\ s[1] = "supply" =>
                           after.spelled[s] = Given(b)
               /\ b \in ToSet(assigns) /\ Ambiguous(b) =>
                     AliasSlot(v) \in DOMAIN after.spelled
               /\ \A s \in DOMAIN after.spelled \ DOMAIN tree.spelled :
                     s = AliasSlot(v) /\ after.spelled[s] = v /\ b \in ToSet(assigns)
<1>1. CASE b \in ToSet(assigns) /\ Ambiguous(b)
  BY <1>1, AliasPublishedIs DEF Prepared
<1>2. CASE b \notin ToSet(assigns) /\ Given(b) # b.supply.name
  BY <1>2, RenamedIs DEF Prepared
<1>3. CASE Prepared(b, tree) = tree /\ ~(b \in ToSet(assigns) /\ Ambiguous(b))
           /\ ~(b \notin ToSet(assigns) /\ Given(b) # b.supply.name)
  BY <1>3
<1> QED BY <1>1, <1>2, <1>3 DEF Prepared

-----------------------------------------------------------------------------
(* Preparing the target of a wiring that is not applied yet disturbs none   *)
(* of the others.                                                           *)
LEMMA PrepareKeeps ==
    ASSUME ListsOK, Careful, NEW T, NEW D, TreesOK(T, D, D),
           NEW b \in Declared, b \notin D
    PROVE  TreesOK([T EXCEPT ![b.supply.instance] = Prepared(b, @)], D \cup {b}, D)
<1> DEFINE t == b.supply.instance
           v == b.supply.name
           renames == b \notin ToSet(assigns) /\ Given(b) # v
           U == [T EXCEPT ![t] = Prepared(b, @)]
<1>1. /\ t \in Inst /\ v \in Ident /\ b.supply = [instance |-> t, name |-> v]
  BY DeclaredTyped DEF Careful, Grounded
<1>2. /\ DOMAIN T = Inst
      /\ \A i \in Inst : IsTree(T[i]) /\ SlotsOf(i) \subseteq DOMAIN T[i].spelled
  BY DEF TreesOK
<1>3. DOMAIN U = Inst /\ \A i \in Inst : U[i] = IF i = t THEN Prepared(b, T[t]) ELSE T[i]
  BY <1>1, <1>2
<1>4. /\ IsTree(U[t]) /\ U[t].open = T[t].open
      /\ T[t].declared \ {v} \subseteq U[t].declared
      /\ DOMAIN T[t].spelled \subseteq DOMAIN U[t].spelled
      /\ \A s \in DOMAIN T[t].spelled :
            /\ ~renames \/ T[t].spelled[s] # v \/ s[1] = "def" =>
                  U[t].spelled[s] = T[t].spelled[s]
            /\ renames /\ T[t].spelled[s] = v /\ s[1] = "supply" =>
                  U[t].spelled[s] = Given(b)
      /\ b \in ToSet(assigns) /\ Ambiguous(b) => AliasSlot(v) \in DOMAIN U[t].spelled
      /\ \A s \in DOMAIN U[t].spelled \ DOMAIN T[t].spelled :
            s = AliasSlot(v) /\ U[t].spelled[s] = v /\ b \in ToSet(assigns)
  BY <1>1, <1>2, <1>3, PreparedIs
<1>5. \A c \in Declared : Given(c) = c.supply.name \/ Given(c) \notin Ident
  BY GivenIs
<1>6. \A c \in Declared : /\ c.supply.name \in Ident
                          /\ c.demand.instance \in Inst /\ c.supply.instance \in Inst
                          /\ c.demand = [instance |-> c.demand.instance, name |-> c.demand.name]
                          /\ c.supply = [instance |-> c.supply.instance, name |-> c.supply.name]
  BY DeclaredTyped DEF Careful, Grounded
<1>7. renames => /\ v \notin Definitions[t]
                 /\ \A c \in Declared \ {b} :
                       /\ c.supply # b.supply
                       /\ c.demand.instance = t => c.supply.name # v
  BY RenamedIsPrivate
<1> HIDE DEF U
<1>8. \A i \in Inst : IsTree(U[i]) /\ SlotsOf(i) \subseteq DOMAIN U[i].spelled
  BY <1>2, <1>3, <1>4
<1>9. ASSUME NEW c \in Declared \ D PROVE Pending(c, U)
  <2>1. Pending(c, T)
    BY DEF TreesOK
  <2>2. CASE c.demand.instance # t
    BY <1>3, <1>6, <2>1, <2>2 DEF Pending
  <2>3. CASE c.demand.instance = t
    <3>1. c.demand.name # v
      BY <1>1, <1>6, <2>3 DEF Careful, NoDemandSupplied
    <3>2. c.demand.name \in Imports[t] => ImportSlot(c.demand.name) \in DOMAIN T[t].spelled
      BY <1>1, <1>2 DEF SlotsOf
    <3>3. c.demand.name \in Passes[t] => PassSlot(c.demand.name) \in DOMAIN T[t].spelled
      BY <1>1, <1>2 DEF SlotsOf
    <3> QED BY <1>4, <2>1, <2>3, <3>1, <3>2, <3>3 DEF Pending
  <2> QED BY <2>2, <2>3
<1>10. ASSUME NEW c \in Declared \cap D PROVE Reads(c, U)
  <2>1. Reads(c, T)
    BY DEF TreesOK
  <2>2. CASE c.demand.instance # t
    BY <1>3, <1>6, <2>1, <2>2 DEF Reads
  <2>3. CASE c.demand.instance = t
    <3>1. renames => Given(c) # v
      BY <1>1, <1>5, <1>6, <1>7, <2>3
    <3>2. DemandSlots(c) \subseteq DOMAIN T[t].spelled
      BY <1>1, <1>2, <2>3 DEF DemandSlots
    <3> QED BY <1>4, <2>1, <2>3, <3>1, <3>2 DEF Reads
  <2> QED BY <2>2, <2>3
<1>11. ASSUME NEW c \in Declared PROVE SupplySpelled(c, U, D \cup {b})
  <2>1. SupplySpelled(c, T, D)
    BY DEF TreesOK
  <2>2. CASE c.supply.instance # t
    BY <1>3, <1>6, <2>1, <2>2 DEF SupplySpelled
  <2>3. CASE c = b
    <3>1. SupplySlots(b) \subseteq DOMAIN T[t].spelled
      BY <1>1, <1>2 DEF SupplySlots
    <3>2. ASSUME renames, NEW s \in SupplySlots(b) PROVE s[1] = "supply"
      <4>1. DefSlot(v) \notin SlotsOf(t)
        BY <1>7, <3>2 DEF SlotsOf, ImportSlot, ArgSlot, PassSlot, SupplySlot, DefSlot
      <4> QED BY <4>1 DEF SupplySlots, SupplySlot
    <3>3. \A s \in SupplySlots(b) : T[t].spelled[s] = v
      BY <2>1, <2>3 DEF SupplySpelled
    <3>4. \A s \in SupplySlots(b) :
             U[t].spelled[s] = IF renames THEN Given(b) ELSE v
      BY <1>4, <3>1, <3>2, <3>3
    <3> QED BY <2>3, <3>4 DEF SupplySpelled
  <2>4. CASE c # b /\ c.supply.instance = t
    <3>1. SupplySlots(c) \subseteq DOMAIN T[t].spelled
      BY <1>1, <1>2, <2>4 DEF SupplySlots
    <3> DEFINE w == IF c \in D /\ c \notin ToSet(assigns) THEN Given(c) ELSE c.supply.name
    <3>2. \A s \in SupplySlots(c) : T[t].spelled[s] = w
      BY <2>1, <2>4 DEF SupplySpelled
    <3>3. renames => w # v
      <4>1. renames => c.supply.name # v
        BY <1>1, <1>6, <1>7, <2>4
      <4> QED BY <1>1, <1>5, <1>6, <4>1
    <3>4. \A s \in SupplySlots(c) : U[t].spelled[s] = w
      BY <1>4, <3>1, <3>2, <3>3
    <3> QED BY <2>4, <3>4 DEF SupplySpelled
  <2> QED BY <2>2, <2>3, <2>4
<1>12. ASSUME NEW c \in Declared \cap (D \cup {b}) PROVE AliasThere(c, U)
  <2>1. CASE c = b
    BY <1>4, <2>1 DEF AliasThere
  <2>2. CASE c # b
    <3>1. AliasThere(c, T)
      BY <2>2 DEF TreesOK
    <3> QED BY <1>3, <1>4, <1>6, <3>1 DEF AliasThere
  <2> QED BY <2>1, <2>2
<1>13. AliasesRead(U)
  <2> SUFFICES ASSUME NEW i \in Inst, NEW w, AliasSlot(w) \in DOMAIN U[i].spelled
               PROVE  /\ U[i].spelled[AliasSlot(w)] = w
                      /\ \E c \in ToSet(assigns) : c.supply = [instance |-> i, name |-> w]
    BY DEF AliasesRead
  <2>1. CASE AliasSlot(w) \in DOMAIN T[i].spelled
    <3>1. /\ T[i].spelled[AliasSlot(w)] = w
          /\ \E c \in ToSet(assigns) : c.supply = [instance |-> i, name |-> w]
      BY <2>1 DEF TreesOK, AliasesRead
    <3>2. i = t /\ renames => w # v
      BY <1>1, <1>7, <3>1 DEF Declared
    <3> QED BY <1>3, <1>4, <2>1, <3>1, <3>2
  <2>2. CASE AliasSlot(w) \notin DOMAIN T[i].spelled
    <3>1. i = t
      BY <1>3, <2>2
    <3>2. AliasSlot(w) = AliasSlot(v) /\ U[t].spelled[AliasSlot(w)] = v /\ b \in ToSet(assigns)
      BY <1>4, <2>2, <3>1
    <3>3. w = v
      BY <3>2, SlotsApart
    <3> QED BY <1>1, <3>1, <3>2, <3>3
  <2> QED BY <2>1, <2>2
<1> QED BY <1>3, <1>8, <1>9, <1>10, <1>11, <1>12, <1>13 DEF TreesOK, U

(* Nor does rewriting its demand, which is still there to be rewritten.     *)
LEMMA RewriteKeeps ==
    ASSUME ListsOK, Careful, NEW T, NEW D,
           NEW b \in Declared, b \notin D, TreesOK(T, D \cup {b}, D),
           NEW rm \in BOOLEAN
    PROVE  LET x == b.demand.name
               i == b.demand.instance
           IN  /\ x \in DemandedNames(T[i])
               /\ TreesOK([T EXCEPT ![i] = DemandRewritten(@, x, Given(b), rm)],
                          D \cup {b}, D \cup {b})
<1> DEFINE i == b.demand.instance
           x == b.demand.name
           U == [T EXCEPT ![i] = DemandRewritten(@, x, Given(b), rm)]
<1>1. \A c \in Declared : /\ c.supply.name \in Ident /\ c.demand.name \in Ident
                          /\ c.demand.instance \in Inst /\ c.supply.instance \in Inst
                          /\ c.demand = [instance |-> c.demand.instance, name |-> c.demand.name]
                          /\ c.supply = [instance |-> c.supply.instance, name |-> c.supply.name]
  BY DeclaredTyped DEF Careful, Grounded
<1>2. \A c \in Declared : Given(c) = c.supply.name \/ Given(c) \notin Ident
  BY GivenIs
<1>3. /\ DOMAIN T = Inst
      /\ \A j \in Inst : IsTree(T[j]) /\ SlotsOf(j) \subseteq DOMAIN T[j].spelled
  BY DEF TreesOK
<1>4. DOMAIN U = Inst /\ \A j \in Inst :
         U[j] = IF j = i THEN DemandRewritten(T[i], x, Given(b), rm) ELSE T[j]
  BY <1>1, <1>3
<1> DEFINE tree == T[i]
           after == DemandRewritten(tree, x, Given(b), rm)
<1> HIDE DEF U
<1>5. /\ IsTree(U[i]) /\ U[i].open = T[i].open \ {x}
      /\ T[i].declared \ {x} \subseteq U[i].declared
      /\ DOMAIN U[i].spelled = DOMAIN T[i].spelled
      /\ \A s \in DOMAIN T[i].spelled :
            /\ s = ArgSlot(x) /\ x \in T[i].open => U[i].spelled[s] = Given(b)
            /\ s[1] = "pass" /\ T[i].spelled[s] = x => U[i].spelled[s] = Given(b)
            /\ s[1] = "import" /\ T[i].spelled[s] = x /\ x \in T[i].declared =>
                  U[i].spelled[s] = Given(b)
            /\ s # ArgSlot(x) /\ (T[i].spelled[s] # x \/ s[1] = "def") =>
                  U[i].spelled[s] = T[i].spelled[s]
  <2>1. i \in Inst /\ tree = T[i] /\ U[i] = after /\ IsTree(tree)
    BY <1>1, <1>3, <1>4
  <2>2. /\ IsTree(after) /\ after.open = tree.open \ {x}
        /\ tree.declared \ {x} \subseteq after.declared
        /\ DOMAIN after.spelled = DOMAIN tree.spelled
        /\ \A s \in DOMAIN tree.spelled :
              /\ s = ArgSlot(x) /\ x \in tree.open => after.spelled[s] = Given(b)
              /\ s[1] = "pass" /\ tree.spelled[s] = x => after.spelled[s] = Given(b)
              /\ s[1] = "import" /\ tree.spelled[s] = x /\ x \in tree.declared =>
                    after.spelled[s] = Given(b)
              /\ s # ArgSlot(x) /\ (tree.spelled[s] # x \/ s[1] = "def") =>
                    after.spelled[s] = tree.spelled[s]
    <3> HIDE DEF tree
    <3> QED BY <2>1, DemandRewrittenIs
  <2> HIDE DEF tree, after
  <2> QED BY <2>1, <2>2
<1>6. Pending(b, T)
  BY DEF TreesOK
<1>7. x \in Imports[i] \cup Args[i] \cup Passes[i]
  BY DEF Careful, Grounded
<1>8. x \in DemandedNames(T[i])
  <2>1. ASSUME x \in Passes[i] PROVE x \in DemandedNames(T[i])
    <3>1. PassSlot(x) \in DOMAIN T[i].spelled /\ T[i].spelled[PassSlot(x)] = x
      BY <1>1, <1>3, <1>6, <2>1 DEF Pending, SlotsOf
    <3>2. PassSlot(x)[1] = "pass"
      BY SlotsApart
    <3> QED BY <3>1, <3>2 DEF DemandedNames
  <2>2. ASSUME x \in Imports[i] \cup Args[i] PROVE x \in DemandedNames(T[i])
    BY <1>6, <2>2 DEF Pending, DemandedNames
  <2> QED BY <1>7, <2>1, <2>2
<1>9. \A j \in Inst : IsTree(U[j]) /\ SlotsOf(j) \subseteq DOMAIN U[j].spelled
  BY <1>3, <1>4, <1>5
<1>10. \A c \in Declared \ {b} : c.demand.instance = i => c.demand.name # x
  BY <1>1, OneWiring
<1>11. ASSUME NEW c \in Declared \ (D \cup {b}) PROVE Pending(c, U)
  <2>1. Pending(c, T)
    BY DEF TreesOK
  <2>2. CASE c.demand.instance # i
    BY <1>1, <1>4, <2>1, <2>2 DEF Pending
  <2>3. CASE c.demand.instance = i
    <3>1. c.demand.name \in Imports[i] => ImportSlot(c.demand.name) \in DOMAIN T[i].spelled
      BY <1>1, <1>3 DEF SlotsOf
    <3>2. ImportSlot(c.demand.name) # ArgSlot(x)
      BY SlotsApart
    <3>3. c.demand.name \in Passes[i] => PassSlot(c.demand.name) \in DOMAIN T[i].spelled
      BY <1>1, <1>3 DEF SlotsOf
    <3>4. PassSlot(c.demand.name) # ArgSlot(x)
      BY SlotsApart
    <3> QED BY <1>5, <1>10, <2>1, <2>3, <3>1, <3>2, <3>3, <3>4 DEF Pending
  <2> QED BY <2>2, <2>3
<1>12. ASSUME NEW c \in Declared \cap (D \cup {b}) PROVE Reads(c, U)
  <2>1. CASE c = b
    <3>1. DemandSlots(b) \subseteq DOMAIN T[i].spelled
      BY <1>1, <1>3 DEF DemandSlots
    <3>2. ASSUME NEW s \in DemandSlots(b), s = ImportSlot(x) PROVE U[i].spelled[s] = Given(b)
      <4>1. x \in Imports[i]
        BY <3>2 DEF DemandSlots, SlotsOf, ImportSlot, ArgSlot, PassSlot, SupplySlot, DefSlot
      <4>2. s[1] = "import"
        BY <3>2, SlotsApart
      <4> QED BY <1>5, <1>6, <3>1, <3>2, <4>1, <4>2 DEF Pending
    <3>3. ASSUME NEW s \in DemandSlots(b), s = ArgSlot(x) PROVE U[i].spelled[s] = Given(b)
      <4>1. x \in Args[i]
        BY <3>3 DEF DemandSlots, SlotsOf, ImportSlot, ArgSlot, PassSlot, SupplySlot, DefSlot
      <4> QED BY <1>5, <1>6, <3>1, <3>3, <4>1 DEF Pending
    <3>4. ASSUME NEW s \in DemandSlots(b), s = PassSlot(x) PROVE U[i].spelled[s] = Given(b)
      <4>1. x \in Passes[i]
        BY <3>4 DEF DemandSlots, SlotsOf, ImportSlot, ArgSlot, PassSlot, SupplySlot, DefSlot
      <4>2. s[1] = "pass"
        BY <3>4, SlotsApart
      <4> QED BY <1>5, <1>6, <3>1, <3>4, <4>1, <4>2 DEF Pending
    <3> QED BY <2>1, <3>2, <3>3, <3>4 DEF Reads, DemandSlots
  <2>2. CASE c # b
    <3>1. Reads(c, T)
      BY <2>2 DEF TreesOK
    <3>2. CASE c.demand.instance # i
      BY <1>1, <1>4, <3>1, <3>2 DEF Reads
    <3>3. CASE c.demand.instance = i
      <4>1. DemandSlots(c) \subseteq DOMAIN T[i].spelled
        BY <1>1, <1>3, <3>3 DEF DemandSlots
      <4>2. Given(c) # x
        <5>1. c.supply.name # x
          BY <1>1, <1>10, <2>2, <3>3 DEF Careful, NoCapture
        <5> QED BY <1>1, <1>2, <5>1
      <4>3. \A s \in DemandSlots(c) : s # ArgSlot(x)
        BY <1>10, <2>2, <3>3, SlotsApart DEF DemandSlots
      <4> QED BY <1>5, <3>1, <3>3, <4>1, <4>2, <4>3 DEF Reads
    <3> QED BY <3>2, <3>3
  <2> QED BY <2>1, <2>2
<1>13. \A c \in Declared : c.supply.instance = i => c.supply.name # x
  BY <1>1 DEF Careful, NoDemandSupplied
<1>14. ASSUME NEW c \in Declared PROVE SupplySpelled(c, U, D \cup {b})
  <2>1. SupplySpelled(c, T, D \cup {b})
    BY DEF TreesOK
  <2>2. CASE c.supply.instance # i
    BY <1>1, <1>4, <2>1, <2>2 DEF SupplySpelled
  <2>3. CASE c.supply.instance = i
    <3> DEFINE w == IF c \in D \cup {b} /\ c \notin ToSet(assigns) THEN Given(c)
                                                                  ELSE c.supply.name
    <3>1. SupplySlots(c) \subseteq DOMAIN T[i].spelled
      BY <1>1, <1>3, <2>3 DEF SupplySlots
    <3>2. \A s \in SupplySlots(c) : T[i].spelled[s] = w /\ s # ArgSlot(x)
      BY <2>1, <2>3, SlotsApart DEF SupplySpelled, SupplySlots
    <3>3. w # x
      BY <1>1, <1>2, <1>13, <2>3
    <3>4. \A s \in SupplySlots(c) : U[i].spelled[s] = w
      BY <1>5, <3>1, <3>2, <3>3
    <3> QED BY <2>3, <3>4 DEF SupplySpelled
  <2> QED BY <2>2, <2>3
<1>15. ASSUME NEW c \in Declared \cap (D \cup {b}) PROVE AliasThere(c, U)
  <2>1. AliasThere(c, T)
    BY DEF TreesOK
  <2> QED BY <1>1, <1>4, <1>5, <2>1 DEF AliasThere
<1>16. AliasesRead(U)
  <2> SUFFICES ASSUME NEW j \in Inst, NEW w, AliasSlot(w) \in DOMAIN U[j].spelled
               PROVE  /\ U[j].spelled[AliasSlot(w)] = w
                      /\ \E c \in ToSet(assigns) : c.supply = [instance |-> j, name |-> w]
    BY DEF AliasesRead
  <2>1. AliasSlot(w) \in DOMAIN T[j].spelled
    BY <1>4, <1>5
  <2>2. /\ T[j].spelled[AliasSlot(w)] = w
        /\ \E c \in ToSet(assigns) : c.supply = [instance |-> j, name |-> w]
    BY <2>1 DEF TreesOK, AliasesRead
  <2>3. j = i => w # x
    BY <1>13, <2>2 DEF Declared
  <2>4. AliasSlot(w) # ArgSlot(x)
    BY SlotsApart
  <2> QED BY <1>4, <1>5, <2>1, <2>2, <2>3, <2>4
<1> QED BY <1>4, <1>8, <1>9, <1>11, <1>12, <1>14, <1>15, <1>16 DEF TreesOK, U

-----------------------------------------------------------------------------
(* Between two wirings, those already done have prepared their targets and  *)
(* have their demands rewritten.                                            *)
Done ==
    CASE stage = "assign" -> {assigns[j] : j \in 1 .. next - 1}
      [] stage = "bind"   -> ToSet(assigns) \cup {bindings[j] : j \in 1 .. next - 1}
      [] OTHER            -> Declared

InProgress ==
    /\ \/ stage = "assign" /\ next \in 1 .. Len(assigns) + 1
       \/ stage = "bind" /\ next \in 1 .. Len(bindings) + 1
       \/ stage = "done"
    /\ TreesOK(trees, Done, Done)

WInv == ListsOK /\ (Careful => InProgress)

LEMMA TableIs ==
    ASSUME NEW s \in Tables
    PROVE  s \in Seq(Binding) /\ Len(s) <= MaxBindings /\ WiredOnce(s)
<1>1. PICK n \in 0 .. MaxBindings : s \in [1 .. n -> Wirings]
  BY DEF Tables
<1>2. n \in Nat /\ s \in [1 .. n -> Binding]
  BY <1>1, WiringAssumption
<1>3. s \in Seq(Binding) /\ Len(s) = n
  BY <1>2, SeqDef
<1> QED BY <1>1, <1>3, WiringAssumption DEF Tables

LEMMA WiringInit == Init => WInv
<1> SUFFICES ASSUME Init PROVE WInv
  OBVIOUS
<1>1. ListsOK
  BY TableIs DEF Init, ListsOK
<1>2. ASSUME Careful PROVE TreesOK(trees, {}, {})
  <2>1. /\ DOMAIN trees = Inst
        /\ \A i \in Inst : /\ DOMAIN trees[i] = {"spelled", "declared", "open"}
                           /\ trees[i].declared = Imports[i] /\ trees[i].open = Args[i]
                           /\ DOMAIN trees[i].spelled = SlotsOf(i)
                           /\ \A s \in SlotsOf(i) : trees[i].spelled[s] = s[2]
    BY DEF Init, TreeOf
  <2>2. \A c \in Declared : c.demand.instance \in Inst /\ c.supply.instance \in Inst
    BY <1>2 DEF Careful, Grounded
  <2>3. \A c \in Declared : Pending(c, trees)
    BY <2>1, <2>2 DEF Pending, SlotsOf, ImportSlot, PassSlot
  <2>4. \A c \in Declared : SupplySpelled(c, trees, {})
    BY <2>1, <2>2 DEF SupplySpelled, SupplySlots, SupplySlot, DefSlot
  <2>5. \A i \in Inst : \A v : AliasSlot(v) \notin SlotsOf(i)
    BY DEF SlotsOf, AliasSlot, ImportSlot, ArgSlot, PassSlot, SupplySlot, DefSlot
  <2> QED BY <2>1, <2>3, <2>4, <2>5 DEF TreesOK, IsTree, AliasesRead
<1>3. /\ stage = "assign" /\ next = 1 /\ Done = {} /\ Len(assigns) \in Nat
  BY <1>1 DEF Init, Done, ListsOK
<1> QED BY <1>1, <1>2, <1>3 DEF WInv, InProgress

(* A supply its instance holds has a slot there. *)
LEMMA SupplyHasSlot ==
    ASSUME NEW b, b.supply.name \in Supplies[b.supply.instance]
                                      \cup Definitions[b.supply.instance]
    PROVE  \E s \in SupplySlots(b) : s[1] \in {"supply", "def"}
<1> DEFINE t == b.supply.instance
           v == b.supply.name
<1>1. CASE v \in Supplies[t]
  <2>1. SupplySlot(v) \in SupplySlots(b) /\ SupplySlot(v)[1] = "supply"
    BY <1>1, SlotsApart DEF SupplySlots, SlotsOf
  <2> QED BY <2>1
<1>2. CASE v \in Definitions[t]
  <2>1. DefSlot(v) \in SupplySlots(b) /\ DefSlot(v)[1] = "def"
    BY <1>2, SlotsApart DEF SupplySlots, SlotsOf
  <2> QED BY <2>1
<1> QED BY <1>1, <1>2

(* A wiring that is not applied yet finds what it needs.                    *)
LEMMA PendingAccepted ==
    ASSUME ListsOK, Careful, NEW D, TreesOK(trees, D, D),
           NEW b \in Declared, b \notin D
    PROVE  Accepted(b)
<1> DEFINE t == b.supply.instance
           v == b.supply.name
<1>1. /\ {b.demand.instance, t} \subseteq Inst
      /\ v \in Supplies[t] \cup Definitions[t]
  BY DEF Careful, Grounded
<1>2. PICK s \in SupplySlots(b) : s[1] \in {"supply", "def"}
  BY <1>1, SupplyHasSlot
<1>3. s \in DOMAIN trees[t].spelled /\ trees[t].spelled[s] = v
  BY <1>1, <1>2 DEF TreesOK, SupplySpelled, SupplySlots
<1>4. v \in SuppliedNames(t)
  BY <1>2, <1>3 DEF SuppliedNames
<1> QED BY <1>1, <1>4 DEF Accepted

(* Applying it is preparing its target, then rewriting its demand.          *)
LEMMA ApplyKeeps ==
    ASSUME ListsOK, Careful, NEW D, TreesOK(trees, D, D),
           NEW b \in Declared, b \notin D, NEW rm \in BOOLEAN,
           Apply(b, Prepared(b, trees[b.supply.instance]), Given(b), rm)
    PROVE  /\ TreesOK(trees', D \cup {b}, D \cup {b})
           /\ next' = next + 1 /\ UNCHANGED <<assigns, bindings, stage>>
<1> DEFINE T == [trees EXCEPT ![b.supply.instance] =
                    Prepared(b, trees[b.supply.instance])]
           i == b.demand.instance
           x == b.demand.name
<1>1. T = [trees EXCEPT ![b.supply.instance] = Prepared(b, @)]
  OBVIOUS
<1>2. TreesOK(T, D \cup {b}, D)
  BY <1>1, PrepareKeeps
<1>3. IF x \in DemandedNames(T[i])
      THEN /\ trees' = [T EXCEPT ![i] = DemandRewritten(@, x, Given(b), rm)]
           /\ next' = next + 1 /\ UNCHANGED <<assigns, bindings, stage>>
      ELSE stage' = "failed"
  BY DEF Apply
<1> HIDE DEF T
<1>4. /\ x \in DemandedNames(T[i])
      /\ TreesOK([T EXCEPT ![i] = DemandRewritten(@, x, Given(b), rm)],
                 D \cup {b}, D \cup {b})
  BY <1>2, RewriteKeeps
<1> QED BY <1>3, <1>4

(* None of what the invariant speaks of but the trees changes in a step.    *)
LEMMA ListsKept ==
    ASSUME UNCHANGED <<assigns, bindings>>
    PROVE  /\ ListsOK' = ListsOK /\ Careful' = Careful /\ Declared' = Declared
           /\ \A T, S, D : TreesOK(T, S, D) => TreesOK(T, S, D)'
<1>1. Declared' = Declared /\ ToSet(assigns)' = ToSet(assigns)
  BY DEF Declared, ToSet
<1>2. \A k : DirectName(k)' = DirectName(k)
  BY DEF DirectName, SeenTargets
<1>3. \A i, v : AmbiguousFor(i, v)' = AmbiguousFor(i, v)
  BY <1>1 DEF AmbiguousFor
<1>4. \A b : Given(b)' = Given(b)
  BY <1>1, <1>2, <1>3 DEF Given, Ambiguous
<1>5. ListsOK' = ListsOK
  BY <1>1 DEF ListsOK
<1>6. Careful' = Careful
  BY <1>1, <1>2 DEF Careful, NoCapture, NoDemandSupplied, RenamedSuppliesPrivate, RenamesSupply
<1>7. \A T : AliasesRead(T)' = AliasesRead(T)
  BY <1>1 DEF AliasesRead
<1>8. \A b, T : Reads(b, T)' = Reads(b, T) /\ AliasThere(b, T)' = AliasThere(b, T)
  BY <1>1, <1>3, <1>4 DEF Reads, AliasThere, Ambiguous
<1>9. \A b, T, S : SupplySpelled(b, T, S)' = SupplySpelled(b, T, S)
  BY <1>1, <1>4 DEF SupplySpelled
<1>10. \A T, S, D : TreesOK(T, S, D) => TreesOK(T, S, D)'
  BY <1>1, <1>7, <1>8, <1>9 DEF TreesOK
<1> QED BY <1>1, <1>5, <1>6, <1>10

LEMMA WiringStep == WInv /\ [Next]_vars => WInv'
<1> SUFFICES ASSUME WInv, [Next]_vars PROVE WInv'
  OBVIOUS
<1>1. UNCHANGED <<assigns, bindings>>
  BY DEF Next, AssignStep, AssignsApplied, BindingStep, BindingsApplied, Reject,
         ApplyAssign, ApplyBinding, Apply, vars
<1>2. /\ ListsOK /\ ListsOK' /\ Careful' = Careful /\ Declared' = Declared
      /\ ToSet(assigns)' = ToSet(assigns)
      /\ \A T, S, D : TreesOK(T, S, D) => TreesOK(T, S, D)'
  BY <1>1, ListsKept DEF WInv, ToSet
<1>3. SUFFICES ASSUME Careful PROVE InProgress'
  BY <1>2 DEF WInv
<1>4. InProgress /\ TreesOK(trees, Done, Done)
  BY <1>3 DEF WInv, InProgress
<1>5. /\ assigns \in Seq(Binding) /\ bindings \in Seq(Binding)
      /\ Len(assigns) \in Nat /\ Len(bindings) \in Nat
      /\ DOMAIN assigns = 1 .. Len(assigns) /\ DOMAIN bindings = 1 .. Len(bindings)
      /\ \A j, k \in DOMAIN assigns : assigns[j] = assigns[k] => j = k
      /\ \A j, k \in DOMAIN bindings : bindings[j] = bindings[k] => j = k
      /\ \A k \in DOMAIN bindings : bindings[k] \notin ToSet(assigns)
  <2>1. assigns \in Seq(Binding) /\ bindings \in Seq(Binding)
    BY <1>2 DEF ListsOK
  <2>2. /\ Len(assigns) \in Nat /\ Len(bindings) \in Nat
        /\ DOMAIN assigns = 1 .. Len(assigns) /\ DOMAIN bindings = 1 .. Len(bindings)
    BY <2>1
  <2>3. /\ \A j, k \in DOMAIN assigns : assigns[j] = assigns[k] => j = k
        /\ \A j, k \in DOMAIN bindings : bindings[j] = bindings[k] => j = k
    BY <1>2 DEF ListsOK, WiredOnce
  <2>4. \A k \in DOMAIN bindings : bindings[k] \notin ToSet(assigns)
    BY <1>2 DEF ListsOK, ToSet
  <2> QED BY <2>1, <2>2, <2>3, <2>4
<1>6. \A b \in Declared \ Done : Accepted(b)
  BY <1>2, <1>3, <1>4, PendingAccepted
<1>7. CASE AssignStep
  <2> DEFINE b == assigns[next]
  <2>1. /\ stage = "assign" /\ next \in DOMAIN assigns /\ b \in ToSet(assigns)
        /\ b \in Declared /\ Done = {assigns[j] : j \in 1 .. next - 1}
    BY <1>7 DEF AssignStep, Done, Declared, ToSet
  <2>2. b \notin Done
    BY <1>5, <2>1
  <2>3. ApplyAssign(b)
    BY <1>6, <1>7, <2>1, <2>2 DEF AssignStep, Reject
  <2>4. Apply(b, Prepared(b, trees[b.supply.instance]), Given(b), FALSE)
    BY <2>1, <2>3 DEF ApplyAssign, Prepared, Given, Ambiguous
  <2> HIDE DEF b
  <2>5. /\ TreesOK(trees', Done \cup {b}, Done \cup {b})
        /\ next' = next + 1 /\ UNCHANGED <<assigns, bindings, stage>>
    BY <1>2, <1>3, <1>4, <2>1, <2>2, <2>4, ApplyKeeps
  <2>6. Done' = {assigns[j] : j \in 1 .. next}
    BY <1>5, <2>1, <2>5 DEF Done
  <2>7. {assigns[j] : j \in 1 .. next} = Done \cup {b}
    BY <1>5, <2>1 DEF b
  <2>8. TreesOK(trees, Done, Done)'
    BY <1>2, <2>5, <2>6, <2>7
  <2>9. next' \in 1 .. Len(assigns) + 1
    BY <1>5, <2>1, <2>5
  <2> QED BY <2>1, <2>5, <2>8, <2>9 DEF InProgress
<1>8. CASE AssignsApplied
  <2>1. /\ stage = "assign" /\ next = Len(assigns) + 1 /\ stage' = "bind" /\ next' = 1
        /\ UNCHANGED <<assigns, bindings, trees>>
    BY <1>8 DEF AssignsApplied
  <2>2. Done = ToSet(assigns) /\ Done' = ToSet(assigns)
    BY <1>5, <2>1 DEF Done, ToSet
  <2>3. TreesOK(trees, Done, Done)'
    BY <1>2, <1>4, <2>1, <2>2
  <2> QED BY <1>5, <2>1, <2>3 DEF InProgress
<1>9. CASE BindingStep
  <2> DEFINE b == bindings[next]
  <2>1. /\ stage = "bind" /\ next \in DOMAIN bindings /\ b \notin ToSet(assigns)
        /\ b \in Declared
        /\ Done = ToSet(assigns) \cup {bindings[j] : j \in 1 .. next - 1}
    BY <1>5, <1>9 DEF BindingStep, Done, Declared, ToSet
  <2>2. b \notin Done
    BY <1>5, <2>1
  <2>3. ApplyBinding(b, DirectName(next))
    BY <1>6, <1>9, <2>1, <2>2 DEF BindingStep, Reject
  <2>4. Apply(b, Prepared(b, trees[b.supply.instance]), Given(b), TRUE)
    BY <1>2, <2>1, <2>3, GivenOfBinding DEF ApplyBinding, Prepared
  <2> HIDE DEF b
  <2>5. /\ TreesOK(trees', Done \cup {b}, Done \cup {b})
        /\ next' = next + 1 /\ UNCHANGED <<assigns, bindings, stage>>
    BY <1>2, <1>3, <1>4, <2>1, <2>2, <2>4, ApplyKeeps
  <2>6. Done' = ToSet(assigns) \cup {bindings[j] : j \in 1 .. next}
    BY <1>2, <1>5, <2>1, <2>5 DEF Done
  <2>7. {bindings[j] : j \in 1 .. next} = {bindings[j] : j \in 1 .. next - 1} \cup {b}
    BY <1>5, <2>1 DEF b
  <2>8. Done' = Done \cup {b}
    BY <2>1, <2>6, <2>7
  <2>9. TreesOK(trees, Done, Done)'
    BY <1>2, <2>5, <2>8
  <2>10. next' \in 1 .. Len(bindings) + 1
    BY <1>5, <2>1, <2>5
  <2> QED BY <2>1, <2>5, <2>9, <2>10 DEF InProgress
<1>10. CASE BindingsApplied
  <2>1. /\ stage = "bind" /\ next = Len(bindings) + 1 /\ stage' = "done"
        /\ UNCHANGED <<assigns, bindings, next, trees>>
    BY <1>10 DEF BindingsApplied
  <2>2. Done = Declared /\ Done' = Declared
    BY <1>2, <1>5, <2>1 DEF Done, Declared, ToSet
  <2>3. TreesOK(trees, Done, Done)'
    BY <1>2, <1>4, <2>1, <2>2
  <2> QED BY <2>1, <2>3 DEF InProgress
<1>11. CASE UNCHANGED vars
  <2>1. UNCHANGED <<assigns, bindings, stage, next, trees>>
    BY <1>11 DEF vars
  <2>2. Done' = Done
    BY <1>2, <2>1 DEF Done
  <2>3. TreesOK(trees, Done, Done)'
    BY <1>2, <1>4, <2>1, <2>2
  <2> QED BY <1>4, <2>1, <2>3 DEF InProgress
<1> QED BY <1>7, <1>8, <1>9, <1>10, <1>11 DEF Next

LEMMA WiringInvariance == Spec => []WInv
BY WiringInit, WiringStep, PTL DEF Spec

(* At the end every demand reads what its supply, or its alias, is called.  *)
LEMMA WiringReads ==
    ASSUME WInv, Careful, stage = "done", NEW b \in Declared
    PROVE  ReadsItsSupply(b)
<1> DEFINE t == b.supply.instance
           v == b.supply.name
           own == {trees[t].spelled[s] : s \in SupplySlots(b)}
<1>1. ListsOK /\ TreesOK(trees, Declared, Declared)
  BY DEF WInv, InProgress, Done
<1>2. Reads(b, trees) /\ SupplySpelled(b, trees, Declared) /\ AliasThere(b, trees)
      /\ AliasesRead(trees)
  BY <1>1 DEF TreesOK
<1>3. t \in Inst /\ \E s \in SupplySlots(b) : s[1] \in {"supply", "def"}
  BY SupplyHasSlot DEF Careful, Grounded
<1>4. (IF b \in ToSet(assigns) THEN v ELSE Given(b)) \in own
  BY <1>2, <1>3 DEF SupplySpelled
<1>5. Given(b) \in NamesOfSupply(b)
  <2>1. own \subseteq NamesOfSupply(b)
    BY DEF NamesOfSupply
  <2>2. CASE Given(b) \in own
    BY <2>1, <2>2
  <2>3. CASE b \in ToSet(assigns) /\ Ambiguous(b)
    <3>1. Given(b) = AliasName(t, v)
      BY <2>3 DEF Given
    <3>2. AliasSlot(v) \in DOMAIN trees[t].spelled /\ trees[t].spelled[AliasSlot(v)] = v
      BY <1>2, <1>3, <2>3 DEF AliasThere, AliasesRead
    <3> QED BY <1>4, <2>3, <3>1, <3>2 DEF NamesOfSupply
  <2> QED BY <1>4, <2>2, <2>3 DEF Given
<1> QED BY <1>2, <1>5 DEF Reads, ReadsItsSupply

(* Under the Careful discipline no wiring is refused, whatever the order,   *)
(* and when all are applied each demand of the merged pieces reads the      *)
(* supply it was wired to: build_merge's in-place renames do not meet.      *)
THEOREM WiringsHold == Spec => []CarefulWiringsHold
<1>1. WInv => CarefulWiringsHold
  BY WiringReads DEF CarefulWiringsHold, WInv, InProgress
<1> QED BY <1>1, WiringInvariance, PTL

-----------------------------------------------------------------------------
(* A binding either gives the outer name itself or a scoped one, that no    *)
(* author writes, numbered by the targets seen before.                      *)
LEMMA DirectNameIs ==
    ASSUME ListsOK, NEW k \in DOMAIN bindings
    PROVE  LET v == bindings[k].supply.name
               seen == SeenTargets(k)
           IN  \/ /\ bindings[k].supply.instance \in seen \/ seen = {}
                  /\ DirectName(k) = v
               \/ /\ bindings[k].supply.instance \notin seen /\ seen # {}
                  /\ Cardinality(seen) \in 1 .. MaxBindings
                  /\ DirectName(k) = <<v, Cardinality(seen)>>
                  /\ DirectName(k) \notin Ident /\ RenamesSupply(k)
<1>1. bindings[k].supply.name \in Ident
  BY DeclaredTyped DEF Declared, ToSet
<1>2. SeenTargets(k) # {} => Cardinality(SeenTargets(k)) \in 1 .. MaxBindings
  BY SeenCounted
<1> QED BY <1>1, <1>2, MadeUpNamesApart DEF DirectName, Scoped, RenamesSupply

(* Who gives the outer name itself reads the target that occurred first     *)
(* under it: a target that occurs again was the first, or its supply would  *)
(* have been renamed and read twice.                                        *)
LEMMA OuterNameIsFirst ==
    ASSUME ListsOK, Careful, NEW k \in DOMAIN bindings,
           bindings[k].supply.instance \in SeenTargets(k) \/ SeenTargets(k) = {}
    PROVE  \E i \in DOMAIN bindings :
              bindings[i].supply = bindings[k].supply /\ SeenTargets(i) = {}
<1>1. CASE SeenTargets(k) = {}
  BY <1>1
<1>2. CASE bindings[k].supply.instance \in SeenTargets(k)
  <2> DEFINE Same == {i \in Nat : i \in DOMAIN bindings /\ i < k
                                    /\ bindings[i].supply = bindings[k].supply}
  <2>1. bindings \in Seq(Binding) /\ DOMAIN bindings = 1 .. Len(bindings)
        /\ Len(bindings) \in Nat
    BY DEF ListsOK
  <2>2. \A j \in DOMAIN bindings : bindings[j] \in Declared /\ bindings[j].supply =
           [instance |-> bindings[j].supply.instance, name |-> bindings[j].supply.name]
    BY DeclaredTyped DEF Declared, ToSet
  <2>3. PICK j \in 1 .. k - 1 : /\ bindings[j].supply.name = bindings[k].supply.name
                               /\ bindings[j].supply.instance = bindings[k].supply.instance
    BY <1>2 DEF SeenTargets
  <2>4. j \in Same
    <3>1. j \in DOMAIN bindings /\ j \in Nat /\ j < k
      BY <2>1
    <3>2. bindings[j].supply = bindings[k].supply
      BY <2>2, <2>3, <3>1
    <3> QED BY <3>1, <3>2
  <2>5. PICK i \in Same : \A j2 \in Same : ~(<<j2, i>> \in OpToRel(<, Nat))
    BY <2>4, WFMin, NatLessThanWellFounded
  <2>6. i \in DOMAIN bindings /\ i < k /\ i \in Nat
        /\ bindings[i].supply = bindings[k].supply
    BY <2>5
  <2>7. \A j2 \in Same : ~(j2 < i)
    BY <2>5 DEF OpToRel
  <2>8. bindings[i].supply.instance \notin SeenTargets(i)
    <3> SUFFICES ASSUME NEW j2 \in 1 .. i - 1,
                        bindings[j2].supply.name = bindings[i].supply.name,
                        bindings[j2].supply.instance = bindings[i].supply.instance
                 PROVE FALSE
      BY DEF SeenTargets
    <3>1. j2 \in DOMAIN bindings /\ j2 \in Nat /\ j2 < i /\ j2 < k
      BY <2>1, <2>6
    <3>2. bindings[j2].supply = bindings[k].supply
      BY <2>2, <2>6, <3>1
    <3> QED BY <2>7, <3>1, <3>2
  <2>9. ASSUME SeenTargets(i) # {} PROVE FALSE
    <3>1. RenamesSupply(i)
      BY <2>6, <2>8, <2>9, DirectNameIs
    <3>2. bindings[k] # bindings[i]
      BY <2>1, <2>6 DEF ListsOK, WiredOnce
    <3>3. bindings[k] \in Declared \ {bindings[i]}
      BY <2>2, <3>2
    <3> QED BY <2>6, <3>1, <3>3 DEF Careful, RenamedSuppliesPrivate
  <2> QED BY <2>6, <2>9
<1> QED BY <1>1, <1>2

(* Bindings to different supplies give different names.                     *)
LEMMA DirectNamesApart ==
    ASSUME ListsOK, Careful, NEW j \in DOMAIN bindings, NEW k \in DOMAIN bindings,
           bindings[j].supply # bindings[k].supply, j < k
    PROVE  DirectName(j) # DirectName(k)
<1> DEFINE v == bindings[j].supply.name
           w == bindings[k].supply.name
           s == bindings[j].supply.instance
           t == bindings[k].supply.instance
<1>1. /\ DOMAIN bindings = 1 .. Len(bindings) /\ Len(bindings) \in Nat
      /\ j \in Nat /\ k \in Nat
  BY DEF ListsOK
<1>2. /\ v \in Ident /\ w \in Ident /\ bindings[j].supply = [instance |-> s, name |-> v]
      /\ bindings[k].supply = [instance |-> t, name |-> w]
  BY DeclaredTyped DEF Declared, ToSet
<1>3. CASE v # w
  BY <1>2, <1>3, DirectNameIs
<1>4. CASE v = w
  <2>1. s # t
    BY <1>2, <1>4
  <2>2. s \in SeenTargets(k)
    BY <1>1, <1>4 DEF SeenTargets
  <2>3. SeenTargets(j) \subseteq SeenTargets(k)
    BY <1>1, <1>4 DEF SeenTargets
  <2>4. CASE s \in SeenTargets(j) \/ SeenTargets(j) = {}
    <3>1. DirectName(j) = v
      BY <2>4, DirectNameIs
    <3>2. CASE t \notin SeenTargets(k)
      BY <1>2, <2>2, <3>1, <3>2, DirectNameIs
    <3>3. CASE t \in SeenTargets(k)
      <4>1. PICK i1 \in DOMAIN bindings :
               bindings[i1].supply = bindings[j].supply /\ SeenTargets(i1) = {}
        BY <2>4, OuterNameIsFirst
      <4>2. PICK i2 \in DOMAIN bindings :
               bindings[i2].supply = bindings[k].supply /\ SeenTargets(i2) = {}
        BY <3>3, OuterNameIsFirst
      <4>3. /\ \A i \in 1 .. i1 - 1 : bindings[i].supply.name # v
            /\ \A i \in 1 .. i2 - 1 : bindings[i].supply.name # v
        BY <1>4, <4>1, <4>2 DEF SeenTargets
      <4>4. i1 \in 1 .. Len(bindings) /\ i2 \in 1 .. Len(bindings)
        BY <1>1
      <4>5. i2 \notin 1 .. i1 - 1 /\ i1 \notin 1 .. i2 - 1
        BY <1>4, <4>1, <4>2, <4>3
      <4>6. i1 = i2
        BY <1>1, <4>4, <4>5
      <4> QED BY <4>1, <4>2, <4>6
    <3> QED BY <3>2, <3>3
  <2>5. CASE ~(s \in SeenTargets(j) \/ SeenTargets(j) = {})
    <3>1. /\ DirectName(j) = <<v, Cardinality(SeenTargets(j))>>
          /\ DirectName(j) \notin Ident
      BY <2>5, DirectNameIs
    <3>2. CASE t \in SeenTargets(k)
      BY <1>2, <3>1, <3>2, DirectNameIs
    <3>3. CASE t \notin SeenTargets(k)
      <4>1. DirectName(k) = <<w, Cardinality(SeenTargets(k))>>
        BY <2>2, <3>3, DirectNameIs
      <4>2. IsFiniteSet(SeenTargets(k))
        BY SeenCounted
      <4>3. SeenTargets(j) # SeenTargets(k)
        BY <2>2, <2>5
      <4>4. Cardinality(SeenTargets(j)) # Cardinality(SeenTargets(k))
        BY <2>3, <4>2, <4>3, FS_Subset
      <4> QED BY <3>1, <4>1, <4>4
    <3> QED BY <3>2, <3>3
  <2> QED BY <2>4, <2>5
<1> QED BY <1>3, <1>4

(* So do the assigns of one piece.                                          *)
LEMMA AssignNamesApart ==
    ASSUME ListsOK, Careful, NEW a \in ToSet(assigns), NEW b \in ToSet(assigns),
           a.supply # b.supply, a.demand.instance = b.demand.instance
    PROVE  Given(a) # Given(b)
<1>1. a \in Declared /\ b \in Declared
  BY DEF Declared
<1>2. /\ a.supply.name \in Ident /\ b.supply.name \in Ident
      /\ a.supply = [instance |-> a.supply.instance, name |-> a.supply.name]
      /\ b.supply = [instance |-> b.supply.instance, name |-> b.supply.name]
      /\ a.supply.instance \in Inst /\ b.supply.instance \in Inst
  BY <1>1, DeclaredTyped DEF Careful, Grounded
<1>3. CASE a.supply.name = b.supply.name
  <2>1. a.supply.instance # b.supply.instance
    BY <1>2, <1>3
  <2>2. Ambiguous(a) /\ Ambiguous(b)
    BY <1>3, <2>1 DEF Ambiguous, AmbiguousFor
  <2> QED BY <1>3, <2>1, <2>2 DEF Given, AliasName
<1>4. CASE a.supply.name # b.supply.name
  BY <1>2, <1>4, MadeUpNamesApart DEF Given, AliasName
<1> QED BY <1>3, <1>4

(* Under the Careful discipline the demands wired to different supplies end *)
(* up reading different names: two bindings, whatever the pieces they stand *)
(* in, by scope renaming; two assigns of one piece, by their aliases.       *)
THEOREM WiringsApart == Spec => []SuppliesKeptApart
<1>1. ASSUME WInv, Careful, stage = "done" PROVE SuppliesKeptApart
  <2>1. ListsOK /\ TreesOK(trees, Declared, Declared)
    BY <1>1 DEF WInv, InProgress, Done
  <2>2. \A b \in Declared : SpelledDemands(b) \subseteq {Given(b)}
    BY <2>1 DEF TreesOK, Reads, SpelledDemands
  <2>3. ASSUME NEW a \in ToSet(bindings), NEW b \in ToSet(bindings) PROVE Apart(a, b)
    <3> SUFFICES ASSUME a.supply # b.supply PROVE Given(a) # Given(b)
      BY <2>2 DEF Apart, Declared
    <3>1. PICK j \in DOMAIN bindings, k \in DOMAIN bindings :
             a = bindings[j] /\ b = bindings[k]
      BY DEF ToSet
    <3>2. j \in Nat /\ k \in Nat /\ j # k
      BY <2>1, <3>1 DEF ListsOK
    <3>3. Given(a) = DirectName(j) /\ Given(b) = DirectName(k)
      BY <2>1, <3>1, GivenOfBinding
    <3>4. CASE j < k
      BY <1>1, <2>1, <3>1, <3>3, <3>4, DirectNamesApart
    <3>5. CASE k < j
      BY <1>1, <2>1, <3>1, <3>3, <3>5, DirectNamesApart
    <3> QED BY <3>2, <3>4, <3>5
  <2>4. ASSUME NEW a \in ToSet(assigns), NEW b \in ToSet(assigns),
               a.demand.instance = b.demand.instance
        PROVE  Apart(a, b)
    BY <1>1, <2>1, <2>2, <2>4, AssignNamesApart DEF Apart, Declared
  <2> QED BY <2>3, <2>4 DEF SuppliesKeptApart
<1>2. WInv => SuppliesKeptApart
  BY <1>1 DEF SuppliesKeptApart
<1> QED BY <1>2, WiringInvariance, PTL
=============================================================================
