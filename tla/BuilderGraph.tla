---------------------------- MODULE BuilderGraph ----------------------------
(***************************************************************************)
(* The raw mutable builder graph of src/astichi/builder/graph.py, with the *)
(* one caller-visible removal path the fluent handles add to it (the roll  *)
(* back of an assign whose chain goes on too long, builder/handles.py).    *)
(*                                                                         *)
(* A rejected call raises before it changes the graph, so it is an action  *)
(* that is not enabled.  Strings are abstracted to members of small sets;  *)
(* what the code reads off an instance name (is it an identifier or an     *)
(* indexed family member, and of which stem) is given by constants.        *)
(***************************************************************************)
EXTENDS Integers, SequencesExt, FiniteSets

CONSTANTS
    Name,         \* instance names `add_instance` accepts
    Indexed,      \* those of the form Stem[i,...]: parse_indexed_instance_name
    StemOf,       \* instance_family_stem, a function on Name
    Body,         \* composables
    Ambiguous,    \* bodies with a duplicate non-root shell path
    Hole,         \* target names inside a root instance
    Order,        \* edge order values
    Ident,        \* identifiers a piece demands or supplies
    RefPath,      \* descendant shell paths inside an instance
    MaxEdges,     \* bound on the edge list
    MaxBindings,  \* bound on each of the two identifier tables
    MaxLeaves     \* bound on the assign leaves callers hold

ASSUME NamesAssumption ==
    /\ Indexed \subseteq Name
    /\ Ambiguous \subseteq Body
    /\ Order \subseteq Int
    /\ MaxEdges \in Nat /\ MaxBindings \in Nat /\ MaxLeaves \in Nat

VARIABLES
    instances,          \* _instances: name -> record, on the registered names
    edges,              \* _edges
    assigns,            \* _assigns
    identifierBindings, \* _identifier_bindings
    committed,          \* the _CommittedAssignBinding leaves callers hold, oldest first
    makers,             \* history: the leaf that made each assign, 0 for a plain call
    touched,            \* history: the leaves that took an assign back
    again               \* history: one of them did so more than once

graph == <<instances, edges, assigns, identifierBindings>>
leaves == <<committed, makers, touched, again>>
vars == <<graph, leaves>>

-----------------------------------------------------------------------------
RootCapable == "root_capable"
SourceOnly  == "source_only"
Placement   == {RootCapable, SourceOnly}

InstanceRecord == [body : Body, placement : Placement]
AdditiveEdge   == [target : Name, hole : Hole, source : Name, order : Order]
Site           == [instance : Name, path : RefPath, name : Ident]
Binding        == [demand : Site, supply : Site]
CommittedLeaf  == [binding : Binding, added : BOOLEAN]

Registered == DOMAIN instances

(* Mutant: only a direct dependency is looked for. *)
DirectDependency(E, start, goal) ==
    start = goal \/ \E e \in E : e.target = start /\ e.source = goal

(* `_dependency_path` finds a path from start to goal: every set that holds *)
(* start and is closed under dependencies holds goal.                       *)
Closed(E, S) == \A e \in E : e.target \in S => e.source \in S

DependencyPath(E, start, goal) ==
    \A S \in SUBSET Name : start \in S /\ Closed(E, S) => goal \in S

-----------------------------------------------------------------------------
Init ==
    /\ instances = [n \in {} |-> CHOOSE r \in InstanceRecord : TRUE]
    /\ edges = <<>>
    /\ assigns = <<>>
    /\ identifierBindings = <<>>
    /\ committed = <<>>
    /\ makers = <<>> /\ touched = {} /\ again = FALSE

(* Mutant: a base instance added to an existing family is let through. *)
MixesFamilyAsMember(n) ==
    \E m \in Registered : /\ StemOf[m] = StemOf[n]
                          /\ n \in Indexed /\ m \notin Indexed

(* A base instance `Stem` and members `Stem[i]` of its family never coexist. *)
MixesFamily(n) ==
    \E m \in Registered : /\ StemOf[m] = StemOf[n]
                          /\ (m \in Indexed) # (n \in Indexed)

AddInstance(n, b, p) ==
    /\ n \notin Registered
    /\ ~MixesFamily(n)
    /\ b \notin Ambiguous
    /\ instances' = [m \in Registered \cup {n} |->
                        IF m = n THEN [body |-> b, placement |-> p]
                                 ELSE instances[m]]
    /\ UNCHANGED <<edges, assigns, identifierBindings, leaves>>

(* Mutant: a replacement that forgets the placement. *)
ReplaceRecord(n, b) ==
    /\ n \in Registered
    /\ b \notin Ambiguous
    /\ instances' = [instances EXCEPT ![n] = [body |-> b]]
    /\ UNCHANGED <<edges, assigns, identifierBindings, leaves>>

ReplaceInstance(n, b) ==
    /\ n \in Registered
    /\ b \notin Ambiguous
    /\ instances' = [instances EXCEPT ![n].body = b]
    /\ UNCHANGED <<edges, assigns, identifierBindings, leaves>>

(* Mutant: the source instance is not looked up. *)
AddEdgeFromAnywhere(t, h, s, o) ==
    /\ Len(edges) < MaxEdges
    /\ t \in Registered
    /\ ~DependencyPath(ToSet(edges), s, t)
    /\ edges' = Append(edges, [target |-> t, hole |-> h, source |-> s, order |-> o])
    /\ UNCHANGED <<instances, assigns, identifierBindings, leaves>>

AddAdditiveEdge(t, h, s, o) ==
    /\ Len(edges) < MaxEdges
    /\ t \in Registered
    /\ s \in Registered
    /\ ~DependencyPath(ToSet(edges), s, t)
    /\ edges' = Append(edges, [target |-> t, hole |-> h, source |-> s, order |-> o])
    /\ UNCHANGED <<instances, assigns, identifierBindings, leaves>>

-----------------------------------------------------------------------------
(* `_validate_identifier_wiring_names` wants identifiers, which the name of *)
(* an indexed family member is not.                                         *)
WiringNamesValid(b) ==
    b.demand.instance \notin Indexed /\ b.supply.instance \notin Indexed

Wires(table, demand) == \E b \in ToSet(table) : b.demand = demand

(* Mutant: an assign does not look at the direct bindings. *)
CanAssignOnOwnSurface(b) ==
    /\ WiringNamesValid(b)
    /\ b \in ToSet(assigns) \/ ~Wires(assigns, b.demand)

(* add_assign returns the recorded binding for an exact duplicate and       *)
(* raises when the demand is wired otherwise, on either surface.            *)
CanAssign(b) ==
    /\ WiringNamesValid(b)
    /\ \/ b \in ToSet(assigns)
       \/ ~Wires(assigns, b.demand) /\ ~Wires(identifierBindings, b.demand)

RecordAssign(b, maker) ==
    IF b \in ToSet(assigns) THEN UNCHANGED <<assigns, makers>>
    ELSE /\ Len(assigns) < MaxBindings
         /\ assigns' = Append(assigns, b)
         /\ makers' = Append(makers, maker)

(* builder.assign(...), the data-driven call. *)
AddAssign(b) ==
    /\ CanAssign(b)
    /\ RecordAssign(b, 0)
    /\ UNCHANGED <<instances, edges, identifierBindings, committed, touched, again>>

(* builder.assign.A.x.to().B.y: the fluent leaf remembers whether its own   *)
(* call appended the binding.                                               *)
CommitAssign(b) ==
    /\ Len(committed) < MaxLeaves
    /\ CanAssign(b)
    /\ RecordAssign(b, Len(committed) + 1)
    /\ committed' = Append(committed, [binding |-> b, added |-> b \notin ToSet(assigns)])
    /\ UNCHANGED <<instances, edges, identifierBindings, touched, again>>

(* The last position of b, as the downward scan of _rollback_if_needed finds it. *)
LastIndexOf(s, b) ==
    CHOOSE i \in DOMAIN s : s[i] = b /\ \A j \in DOMAIN s : s[j] = b => j <= i

TakeBack(leaf) ==
    LET last == LastIndexOf(assigns, committed[leaf].binding)
    IN  /\ assigns' = RemoveAt(assigns, last)
        /\ makers' = RemoveAt(makers, last)
        /\ touched' = touched \cup {leaf}
        /\ again' = (again \/ leaf \in touched)
        /\ UNCHANGED <<instances, edges, identifierBindings, committed>>

(* Mutant: the leaf does not remember whether its own call appended. *)
ContinueAnyChain(leaf) ==
    /\ committed[leaf].binding \in ToSet(assigns)
    /\ TakeBack(leaf)

(* Touching a committed leaf (`leaf.more`, `leaf[0]`) raises, and first     *)
(* takes the leaf's binding back if its call had added it.  The leaf stays  *)
(* usable: touched again it takes back what equals its binding by then.     *)
ContinueChain(leaf) ==
    /\ committed[leaf].added
    /\ committed[leaf].binding \in ToSet(assigns)
    /\ TakeBack(leaf)

AddIdentifierBinding(b) ==
    /\ WiringNamesValid(b)
    /\ ~Wires(identifierBindings, b.demand)
    /\ ~Wires(assigns, b.demand)
    /\ Len(identifierBindings) < MaxBindings
    /\ identifierBindings' = Append(identifierBindings, b)
    /\ UNCHANGED <<instances, edges, assigns, leaves>>

-----------------------------------------------------------------------------
Next ==
    \/ \E n \in Name, b \in Body, p \in Placement : AddInstance(n, b, p)
    \/ \E n \in Name, b \in Body : ReplaceInstance(n, b)
    \/ \E t, s \in Name, h \in Hole, o \in Order : AddAdditiveEdge(t, h, s, o)
    \/ \E b \in Binding : AddAssign(b)
    \/ \E b \in Binding : CommitAssign(b)
    \/ \E leaf \in DOMAIN committed : ContinueChain(leaf)
    \/ \E b \in Binding : AddIdentifierBinding(b)

Spec == Init /\ [][Next]_vars

-----------------------------------------------------------------------------
(* Every variable holds values of the types the dataclasses declare.        *)
TypeOK ==
    /\ Registered \subseteq Name
    /\ instances \in [Registered -> InstanceRecord]
    /\ edges \in Seq(AdditiveEdge)
    /\ assigns \in Seq(Binding)
    /\ identifierBindings \in Seq(Binding)
    /\ committed \in Seq(CommittedLeaf)
    /\ makers \in Seq(Nat) /\ Len(makers) = Len(assigns)
    /\ again \in BOOLEAN

(* build_merge looks instances up by the names edges carry: an accepted     *)
(* edge joins registered instances, whatever is replaced afterwards.        *)
EdgesRegistered ==
    \A i \in DOMAIN edges : {edges[i].target, edges[i].source} \subseteq Registered

(* No group of instances in which each depends on another one of the group: *)
(* the check made on each edge against the edges accepted so far is enough  *)
(* to keep the whole graph acyclic, so resolution always has a next target. *)
Acyclic(E) ==
    \A S \in (SUBSET Name) \ {{}} :
        \E n \in S : \A e \in E : e.target = n => e.source \notin S

EdgesAcyclic == Acyclic(ToSet(edges))

(* The stem of a base instance is never also the stem of a family, so       *)
(* `builder.<Stem>` means one thing for the life of the graph.              *)
FamilyExclusive ==
    \A m, n \in Registered :
        StemOf[m] = StemOf[n] => ((m \in Indexed) <=> (n \in Indexed))

(* Each source demand has at most one explicit wiring, over both surfaces   *)
(* and whatever was undone and wired again in between: what the             *)
(* materialize-time conflict check relies on.                               *)
OneWiringPerDemand ==
    /\ \A i, j \in DOMAIN assigns :
          assigns[i].demand = assigns[j].demand => i = j
    /\ \A i, j \in DOMAIN identifierBindings :
          identifierBindings[i].demand = identifierBindings[j].demand => i = j
    /\ \A i \in DOMAIN assigns, j \in DOMAIN identifierBindings :
          assigns[i].demand # identifierBindings[j].demand

(* As long as nobody touches a leaf that has already taken its assign back, *)
(* a declaration disappears only when the leaf of the very call that made   *)
(* it is touched: not through a leaf that repeated it, nor through one that *)
(* declared the same before and was undone (handles.py:703).                *)
UndoneByOwnLeaf ==
    [][~again' => \A i \in DOMAIN assigns :
          assigns[i] \notin ToSet(assigns') => makers[i] \in touched' \ touched]_vars
=============================================================================
