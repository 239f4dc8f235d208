------------------------------ MODULE BuildMerge ------------------------------
(***************************************************************************)
(* build_merge of src/astichi/materialize/api.py over a builder graph: the *)
(* live view and the output roots (_resolve_build_graph), the order in     *)
(* which targets are resolved (_topo_sort_targets) and the in-place        *)
(* replacement of each target's holes by copies of its sources' trees.     *)
(*                                                                         *)
(* A tree is the function from holes to what has been put into them: a     *)
(* sequence of contributions, each with a copy of its source's tree as it  *)
(* was when the target was resolved.  Identifier wiring is another module. *)
(***************************************************************************)
EXTENDS BuilderGraph

VARIABLES
    phase,      \* "wiring", "merging" or "built"
    roots,      \* the output roots of the resolved graph
    liveEdges,  \* where its edges stand in `edges`, so in the order added
    trees,      \* the trees of the live instances, changed in place
    resolved,   \* targets whose holes have been replaced
    level,      \* targets of the current round of the topological sort
    places      \* history: for each hole, its edges in the order of the
                \* places they took when they were added

mergeVars == <<vars, phase, roots, liveEdges, trees, resolved, level, places>>

view == <<roots, liveEdges>>

-----------------------------------------------------------------------------
(* The live view. *)
Edges == ToSet(edges)
Consumed(E) == {e.source : e \in E}
CanEmitAsRoot(n) == instances[n].placement = RootCapable

UnconsumedRoots(E) == {n \in Registered : CanEmitAsRoot(n)} \ Consumed(E)
FallbackRoots(E) == {e.target : e \in {f \in E : CanEmitAsRoot(f.target)}}

RootNames ==
    IF UnconsumedRoots(Edges) # {} THEN UnconsumedRoots(Edges)
                                   ELSE FallbackRoots(Edges)

(* What the `while changed` loop reaches from the roots. *)
ReachableFrom(E, R) ==
    {n \in Name : \A S \in SUBSET Name : R \subseteq S /\ Closed(E, S) => n \in S}

LiveNames == ReachableFrom(Edges, RootNames)
Live(e) == e.target \in LiveNames /\ e.source \in LiveNames
LiveEdges == {i \in DOMAIN edges : Live(edges[i])}

-----------------------------------------------------------------------------
(* The resolution order. *)
(* Mutants: no dependency is seen; leaves without edges are waited for. *)
DependsOnNothing(n) == {}
DependsOnLeavesToo(n) ==
    {edges[i].source : i \in {j \in liveEdges : edges[j].target = n}}

Targets == {edges[i].target : i \in liveEdges}
DependsOn(n) ==
    {edges[i].source : i \in {j \in liveEdges : edges[j].target = n}} \cap Targets

(* Mutant: a finished target is taken again. *)
ReadyAgain(done) == {n \in Targets : DependsOn(n) \subseteq done}

Ready(done) == {n \in Targets \ done : DependsOn(n) \subseteq done}

(* A round takes every ready target; with none ready it takes the rest.     *)
NextLevel(done) == IF Ready(done) # {} THEN Ready(done) ELSE Targets \ done

-----------------------------------------------------------------------------
(* The edges into a hole, by (order, position among the live edges). *)
ContributionIndices(n, h) ==
    {i \in liveEdges : edges[i].target = n /\ edges[i].hole = h}

(* Mutant: the order value is ignored. *)
AddedEarlier(i, j) == i < j

Earlier(i, j) ==
    \/ edges[i].order < edges[j].order
    \/ edges[i].order = edges[j].order /\ i < j

(* A set of positions as a list, each one Earlier than those after it. *)
Sorted(I) ==
    CHOOSE q \in [1 .. Cardinality(I) -> I] :
        \A j, k \in 1 .. Cardinality(I) : j < k => Earlier(q[j], q[k])

Contributions(n, h) == Sorted(ContributionIndices(n, h))

Filled(n, h) ==
    LET order == Contributions(n, h)
    IN  [k \in DOMAIN order |->
            [source |-> edges[order[k]].source,
             tree   |-> trees[edges[order[k]].source]]]

EmptyTree == [h \in Hole |-> <<>>]

-----------------------------------------------------------------------------
MergeInit ==
    /\ Init
    /\ phase = "wiring"
    /\ roots = {}
    /\ liveEdges = {}
    /\ trees = <<>>
    /\ resolved = {}
    /\ level = {}
    /\ places = [at \in Name \X Hole |-> <<>>]

(* A caller who adds an edge puts it behind those of its hole whose order   *)
(* is not above its own, and in front of the others.                        *)
PlaceFor(list, order) ==
    Cardinality({k \in DOMAIN list : edges[list[k]].order <= order}) + 1
TakePlace(e, i) ==
    [places EXCEPT ![<<e.target, e.hole>>] = InsertAt(@, PlaceFor(@, e.order), i)]

(* The calls that shape the graph before `build()`. *)
Wire ==
    /\ phase = "wiring"
    /\ Next
    /\ places' = IF edges' = edges THEN places
                 ELSE TakePlace(edges'[Len(edges')], Len(edges'))
    /\ UNCHANGED <<phase, view, trees, resolved, level>>

(* An empty graph and a graph without a live output root are rejected. *)
StartBuild ==
    /\ phase = "wiring"
    /\ Registered # {}
    /\ RootNames # {}
    /\ UNCHANGED <<vars, places>>
    /\ phase' = "merging"
    /\ roots' = RootNames
    /\ liveEdges' = LiveEdges
    /\ trees' = [n \in LiveNames |-> EmptyTree]
    /\ resolved' = {}
    /\ level' = NextLevel({})'

ResolveTarget(n) ==
    /\ phase = "merging"
    /\ n \in level
    /\ trees' = [trees EXCEPT ![n] = [h \in Hole |-> Filled(n, h)]]
    /\ resolved' = resolved \cup {n}
    /\ level' = IF level = {n} THEN NextLevel(resolved') ELSE level \ {n}
    /\ UNCHANGED <<vars, phase, view, places>>

FinishBuild ==
    /\ phase = "merging"
    /\ level = {}
    /\ phase' = "built"
    /\ UNCHANGED <<vars, view, trees, resolved, level, places>>

MergeNext ==
    \/ Wire
    \/ StartBuild
    \/ \E n \in Name : ResolveTarget(n)
    \/ FinishBuild

MergeSpec ==
    /\ MergeInit /\ [][MergeNext]_mergeVars
    /\ WF_mergeVars(\E n \in Name : ResolveTarget(n))
    /\ WF_mergeVars(FinishBuild)

-----------------------------------------------------------------------------
(* In the result each live instance's holes hold, per live edge and lower   *)
(* order first, a copy of the source's tree as it is at the END: no copy    *)
(* was taken of a source that still had holes to be replaced.  On a graph   *)
(* without cycles one family of trees solves this equation, the full        *)
(* expansions (ExpansionIsUnique in BuildMergeProofs).                      *)
RootsFullyExpanded ==
    phase = "built" =>
        \A n \in DOMAIN trees : trees[n] = [h \in Hole |-> Filled(n, h)]

(* The topological sort never has to take targets that wait on each other:  *)
(* the branch that appends them anyway is dead code on an accepted graph.   *)
NeverStuck ==
    phase = "merging" /\ Targets \ resolved # {} => Ready(resolved) # {}

(* In every resolved hole the contributions stand where their edges took    *)
(* their places, each when it was added: no later edge, nor the choice of   *)
(* the live edges and their renumbering, moves or drops one                 *)
(* (docs/reference/builder-api.md, "Variadic order").                       *)
ContributionOrder ==
    \A n \in resolved, h \in Hole :
        LET list == places[<<n, h>>]
        IN  /\ DOMAIN trees[n][h] = DOMAIN list
            /\ \A k \in DOMAIN list : trees[n][h][k].source = edges[list[k]].source

(* A build that starts ends. *)
BuildTerminates == (phase = "merging") ~> (phase = "built")
=============================================================================
