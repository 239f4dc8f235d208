-------------------------- MODULE IdentifierWiring --------------------------
(***************************************************************************)
(* How build_merge applies the explicit identifier wirings of a graph to   *)
(* its local copies of the instances' trees: all assigns in declaration    *)
(* order (_apply_assign_bindings), then all direct bindings                *)
(* (_apply_identifier_bindings), both of materialize/api.py.  Each one     *)
(* rewrites names in place, so a later one reads what an earlier one wrote.*)
(*                                                                         *)
(* A tree is abstracted to its identifier slots: where a declared import   *)
(* is read, where an `x__astichi_arg__` or an `astichi_pass(x)` stands,    *)
(* where a supply is stored, and where a published alias reads its source. *)
(* Only root ref paths are modelled: a nested path names another body of   *)
(* the same shape.                                                         *)
(***************************************************************************)
EXTENDS Naturals, SequencesExt, FiniteSets

CONSTANTS
    Inst,         \* live registered instances
    Unknown,      \* names the wirings may mention but nobody registered
    Ident,        \* identifiers
    Imports,      \* astichi_import demands, a set per instance
    Args,         \* __astichi_arg__ demands, a set per instance
    Passes,       \* astichi_pass demands, a set per instance
    Supplies,     \* names stored, a set per instance
    Definitions,  \* names bound by def, class or import, a set per instance
    Wirings,      \* the wirings callers declare
    MaxBindings   \* bound on the number of wirings on each surface

Site    == [instance : Inst \cup Unknown, name : Ident]
Binding == [demand : Site, supply : Site]

ASSUME WiringAssumption ==
    /\ Imports \in [Inst -> SUBSET Ident]
    /\ Args \in [Inst -> SUBSET Ident]
    /\ Passes \in [Inst -> SUBSET Ident]
    /\ Supplies \in [Inst -> SUBSET Ident]
    /\ Definitions \in [Inst -> SUBSET Ident]
    /\ Wirings \subseteq Binding
    /\ MaxBindings \in Nat

(* Authors do not write the names that astichi makes up. *)
ASSUME MadeUpNamesApart ==
    /\ \A v \in Ident, k \in 1 .. MaxBindings : <<v, k>> \notin Ident
    /\ \A v \in Ident, t \in Inst : <<"assign", t, v>> \notin Ident

VARIABLES
    assigns,      \* the live assigns, in declaration order
    bindings,     \* the live direct bindings, in declaration order
    stage,        \* "assign", "bind", "done" or "failed"
    next,         \* position of the wiring to apply
    trees         \* the local tree copies, by instance

vars == <<assigns, bindings, stage, next, trees>>

-----------------------------------------------------------------------------
ImportSlot(x) == <<"import", x>>
ArgSlot(x)    == <<"arg", x>>
PassSlot(x)   == <<"pass", x>>
SupplySlot(v) == <<"supply", v>>
DefSlot(v)    == <<"def", v>>         \* the name field of a statement
AliasSlot(v)  == <<"alias", v>>       \* the read in `alias = v`

Scoped(v, k)    == <<v, k>>           \* v__astichi_scoped_k
AliasName(t, v) == <<"assign", t, v>> \* _assign_target_alias_name

SlotsOf(i) ==
    {ImportSlot(x) : x \in Imports[i]} \cup {ArgSlot(x) : x \in Args[i]}
        \cup {PassSlot(x) : x \in Passes[i]}
        \cup {SupplySlot(v) : v \in Supplies[i]}
        \cup {DefSlot(v) : v \in Definitions[i]}

(* spelled: the name each slot reads or stores now; declared: the names the *)
(* boundary imports declare now; open: the arg demands not yet resolved.    *)
TreeOf(i) == [spelled  |-> [s \in SlotsOf(i) |-> s[2]],
              declared |-> Imports[i],
              open     |-> Args[i]]

(* What the builder lets through (OneWiringPerDemand of BuilderGraph). *)
WiredOnce(s) == \A i, j \in DOMAIN s : s[i].demand = s[j].demand => i = j
Tables ==
    {s \in UNION {[1 .. n -> Wirings] : n \in 0 .. MaxBindings} : WiredOnce(s)}

Init ==
    /\ assigns \in Tables
    /\ bindings \in Tables
    /\ \A a \in ToSet(assigns), b \in ToSet(bindings) : a.demand # b.demand
    /\ stage = "assign"
    /\ next = 1
    /\ trees = [i \in Inst |-> TreeOf(i)]

-----------------------------------------------------------------------------
(* collect_identifier_suppliers_in_body, collect_identifier_demands_in_body *)
SuppliedNames(i) ==
    LET slots == DOMAIN trees[i].spelled
    IN  trees[i].declared
          \cup {trees[i].spelled[s] : s \in {r \in slots : r[1] \in {"supply", "def"}}}
          \cup {AliasName(i, s[2]) : s \in {r \in slots : r[1] = "alias"}}

(* A pass demands the name it is spelled with now, also once it is wired.   *)
DemandedNames(tree) ==
    tree.declared \cup tree.open
        \cup {tree.spelled[s] : s \in {r \in DOMAIN tree.spelled : r[1] = "pass"}}

(* _BoundaryImportRenamer changes each plain occurrence of a name, whatever *)
(* it stands for: not `x__astichi_arg__`, nor the name field of a def, a    *)
(* class or an import.                                                      *)
Renames(tree, s, old) ==
    /\ tree.spelled[s] = old
    /\ s[1] # "def"
    /\ ~(s[1] = "arg" /\ s[2] \in tree.open)

Respelled(tree, old, new) ==
    [tree EXCEPT !.spelled = [s \in DOMAIN @ |-> IF Renames(tree, s, old) THEN new ELSE @[s]]]

Redeclared(names, old, new) ==
    IF old \in names THEN (names \ {old}) \cup {new} ELSE names

Renamed(tree, old, new) ==
    [Respelled(tree, old, new) EXCEPT !.declared = Redeclared(@, old, new)]

(* _rewrite_identifier_demands_in_body: the arg slot of x and each pass     *)
(* spelled x take the new name, and if the body imports x so does           *)
(* everything spelled x; the import itself is rewritten by an assign and    *)
(* dropped by a binding.                                                    *)
ArgResolved(tree, x, new) ==
    [tree EXCEPT
        !.spelled = [s \in DOMAIN @ |->
            IF \/ s = ArgSlot(x) /\ x \in tree.open
               \/ s[1] = "pass" /\ @[s] = x
            THEN new ELSE @[s]],
        !.open = @ \ {x}]

DemandRewritten(tree, x, new, removeImports) ==
    LET resolved == ArgResolved(tree, x, new)
    IN  IF x \notin tree.declared THEN resolved
        ELSE [Respelled(resolved, x, new) EXCEPT !.declared =
                 IF removeImports THEN @ \ {x} ELSE Redeclared(@, x, new)]

(* _publish_assign_target_alias: `alias = v` at the end of the body, once.  *)
AliasPublished(tree, v) ==
    IF AliasSlot(v) \in DOMAIN tree.spelled THEN tree
    ELSE [tree EXCEPT !.spelled = [s \in DOMAIN @ \cup {AliasSlot(v)} |->
                                      IF s = AliasSlot(v) THEN v ELSE @[s]]]

-----------------------------------------------------------------------------
(* Mutant: two targets of one outer name do not get an alias. *)
NeverAmbiguous(i, v) == FALSE

(* An outer name is ambiguous for a source that reads it from two targets.  *)
AmbiguousFor(i, v) ==
    \E a, b \in ToSet(assigns) :
        /\ a.demand.instance = i /\ b.demand.instance = i
        /\ a.supply.name = v /\ b.supply.name = v
        /\ a.supply.instance # b.supply.instance

(* _identifier_binding_direct_names: the first target of an outer name      *)
(* keeps it, the k-th further one is renamed, and a binding whose target    *)
(* already occurred gets the outer name itself.                             *)
SeenTargets(k) ==
    {bindings[j].supply.instance :
        j \in {i \in 1 .. k - 1 : bindings[i].supply.name = bindings[k].supply.name}}

DirectName(k) ==
    LET seen == SeenTargets(k)
        v    == bindings[k].supply.name
    IN  IF bindings[k].supply.instance \in seen \/ seen = {} THEN v
        ELSE Scoped(v, Cardinality(seen))

-----------------------------------------------------------------------------
(* Both surfaces want known instances and a name the target supplies at     *)
(* this point of the build.                                                 *)
Accepted(b) ==
    /\ {b.demand.instance, b.supply.instance} \subseteq Inst
    /\ b.supply.name \in SuppliedNames(b.supply.instance)

(* The effect of one wiring, once its target's tree has been prepared.      *)
Apply(b, target, name, removeImports) ==
    LET a == b.demand.instance
        x == b.demand.name
        prepared == [trees EXCEPT ![b.supply.instance] = target]
    IN  IF x \in DemandedNames(prepared[a])
        THEN /\ trees' = [prepared EXCEPT ![a] = DemandRewritten(@, x, name, removeImports)]
             /\ next' = next + 1
             /\ UNCHANGED <<assigns, bindings, stage>>
        ELSE /\ stage' = "failed"
             /\ UNCHANGED <<assigns, bindings, next, trees>>

Reject(b) ==
    /\ ~Accepted(b)
    /\ stage' = "failed"
    /\ UNCHANGED <<assigns, bindings, next, trees>>

ApplyAssign(b) ==
    /\ Accepted(b)
    /\ LET t == b.supply.instance
           v == b.supply.name
       IN  IF AmbiguousFor(b.demand.instance, v)
           THEN Apply(b, AliasPublished(trees[t], v), AliasName(t, v), FALSE)
           ELSE Apply(b, trees[t], v, FALSE)

(* Mutant: the supply keeps its name. *)
BindDemandOnly(b, name) ==
    /\ Accepted(b)
    /\ Apply(b, trees[b.supply.instance], name, TRUE)

ApplyBinding(b, name) ==
    /\ Accepted(b)
    /\ LET t == b.supply.instance
           v == b.supply.name
       IN  Apply(b, IF name = v THEN trees[t] ELSE Renamed(trees[t], v, name), name, TRUE)

AssignStep ==
    /\ stage = "assign"
    /\ next \in DOMAIN assigns
    /\ Reject(assigns[next]) \/ ApplyAssign(assigns[next])

AssignsApplied ==
    /\ stage = "assign"
    /\ next = Len(assigns) + 1
    /\ stage' = "bind"
    /\ next' = 1
    /\ UNCHANGED <<assigns, bindings, trees>>

BindingStep ==
    /\ stage = "bind"
    /\ next \in DOMAIN bindings
    /\ Reject(bindings[next]) \/ ApplyBinding(bindings[next], DirectName(next))

BindingsApplied ==
    /\ stage = "bind"
    /\ next = Len(bindings) + 1
    /\ stage' = "done"
    /\ UNCHANGED <<assigns, bindings, next, trees>>

Next == AssignStep \/ AssignsApplied \/ BindingStep \/ BindingsApplied

Spec == Init /\ [][Next]_vars

-----------------------------------------------------------------------------
Declared == ToSet(assigns) \cup ToSet(bindings)

(* The instances hold what the wiring names, in the trees the build starts  *)
(* from.                                                                    *)
Grounded(b) ==
    /\ {b.demand.instance, b.supply.instance} \subseteq Inst
    /\ LET i == b.demand.instance
       IN  b.demand.name \in Imports[i] \cup Args[i] \cup Passes[i]
    /\ b.supply.name \in Supplies[b.supply.instance] \cup Definitions[b.supply.instance]

SupplySlots(b) ==
    {SupplySlot(b.supply.name), DefSlot(b.supply.name)} \cap SlotsOf(b.supply.instance)
DemandSlots(b) ==
    {ImportSlot(b.demand.name), ArgSlot(b.demand.name), PassSlot(b.demand.name)}
        \cap SlotsOf(b.demand.instance)

(* The names that mean b's supply in its target's tree: its own, and that   *)
(* of an alias that reads it.                                               *)
NamesOfSupply(b) ==
    LET tree == trees[b.supply.instance]
        v    == b.supply.name
        own  == {tree.spelled[s] : s \in SupplySlots(b)}
    IN  own \cup
        (IF AliasSlot(v) \in DOMAIN tree.spelled /\ tree.spelled[AliasSlot(v)] \in own
         THEN {AliasName(b.supply.instance, v)} ELSE {})

ReadsItsSupply(b) ==
    \A s \in DemandSlots(b) :
        trees[b.demand.instance].spelled[s] \in NamesOfSupply(b)

-----------------------------------------------------------------------------
(* When the in-place renames do not meet: no wiring writes, into a piece,   *)
(* a name that another wiring of the piece takes as its demand; a supply    *)
(* that a binding renames is a stored one, and is read by bindings only,    *)
(* once, and in its own piece by nothing that another binding wrote there.  *)
RenamesSupply(k) == DirectName(k) # bindings[k].supply.name

NoCapture ==
    \A a, b \in Declared :
        a.demand.instance = b.demand.instance /\ a.demand # b.demand =>
            a.supply.name # b.demand.name

NoDemandSupplied ==
    \A a, b \in Declared : a.demand # b.supply

RenamedSuppliesPrivate ==
    \A k \in DOMAIN bindings : RenamesSupply(k) =>
        LET supply == bindings[k].supply
        IN  /\ supply.name \notin Definitions[supply.instance]
            /\ \A b \in Declared \ {bindings[k]} :
                  /\ b.supply # supply
                  /\ b.demand.instance = supply.instance => b.supply.name # supply.name

Careful ==
    /\ \A b \in Declared : Grounded(b)
    /\ NoCapture
    /\ NoDemandSupplied
    /\ RenamedSuppliesPrivate

(* Under that discipline every wiring is applied, whatever their order, and *)
(* every demand reads the supply it was wired to.                           *)
CarefulWiringsHold ==
    Careful => /\ stage # "failed"
               /\ stage = "done" => \A b \in Declared : ReadsItsSupply(b)

(* Two direct bindings to one outer name of two pieces never end up reading *)
(* the same name, nor do two assigns of one piece: scope and alias renaming *)
(* keep them apart.                                                         *)
SpelledDemands(b) ==
    {trees[b.demand.instance].spelled[s] : s \in DemandSlots(b)}

Apart(a, b) == a.supply # b.supply => SpelledDemands(a) \cap SpelledDemands(b) = {}

SuppliesKeptApart ==
    stage = "done" /\ Careful =>
        /\ \A a, b \in ToSet(bindings) : Apart(a, b)
        /\ \A a, b \in ToSet(assigns) :
              a.demand.instance = b.demand.instance => Apart(a, b)
=============================================================================
