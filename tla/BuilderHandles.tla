--------------------------- MODULE BuilderHandles ---------------------------
(***************************************************************************)
(* What the handles of builder/handles.py do with a BuilderGraph.  A graph *)
(* takes any wiring; the handles first look into the composables that are  *)
(* registered by then, and let pass what is about the others.  A wiring is *)
(* made in one call, or by a chain such as                                 *)
(*     builder.assign.A.piece.x.to().B.y                                   *)
(* whose every part is a handle the caller may keep: the demand is looked  *)
(* up at to(), the supplier at the last name, and pieces can be registered *)
(* or replaced between the two.  A name is taken for a shell of the target *)
(* where the target has one of that path, and else for the supplier.       *)
(*                                                                         *)
(* Left out: index segments of paths; edges into shells, and what an edge  *)
(* binds of its source (StagedBuild has the former).                       *)
(***************************************************************************)
EXTENDS BuilderGraph

CONSTANTS
    Demands,        \* Demands[b], Supplies[b]: the slots [path, name] of a body
    Supplies,
    ShellsIn,       \* ShellsIn[b]: the paths of the shells in a body
    HolesIn,        \* HolesIn[b]: its holes
    Placed,         \* the placements callers use: they matter to BuildMerge
    NoName,         \* stands for a target not yet named
    MaxHandled,     \* bound on wirings and handles
    MaxBeside       \* the same, in a graph with edges or indexed instances

ASSUME PathsAssumption ==
    /\ RefPath \subseteq Seq(Ident) /\ <<>> \in RefPath
    /\ Placed \subseteq Placement /\ NoName \notin Name

VARIABLES
    chain,          \* the wiring handle a caller has: {} or {one}
    late            \* history: instances added or replaced after a wiring
                    \* that mentions them was made, or begun

handleVars == <<vars, chain, late>>

Surface == {"assign", "bind_identifier"}
Chain == [surface : Surface, demand : Site, target : Name \cup {NoName}, path : RefPath]

HInit == Init /\ chain = {} /\ late = {}

-----------------------------------------------------------------------------
(* The names demanded and supplied at a path of a registered instance; of   *)
(* others nothing is known, and nothing is refused.                         *)
Slot(site) == [path |-> site.path, name |-> site.name]
HasDemand(site) ==
    site.instance \in Registered => Slot(site) \in Demands[instances[site.instance].body]
HasSupply(site) ==
    site.instance \in Registered => Slot(site) \in Supplies[instances[site.instance].body]
HasShell(n, path) == n \in Registered /\ path \in ShellsIn[instances[n].body]

Wirings == ToSet(assigns) \cup ToSet(identifierBindings)
Mentions(n) ==
    \/ \E b \in Wirings : n \in {b.demand.instance, b.supply.instance}
    \/ \E c \in chain : c.target # NoName /\ c.demand.instance = n
LateWith(n) == IF Mentions(n) THEN late \cup {n} ELSE late

(* builder.add and builder.define; the caller's own replacements.           *)
Register(n, b, p) == AddInstance(n, b, p) /\ late' = LateWith(n) /\ UNCHANGED chain
Replace(n, b) == ReplaceInstance(n, b) /\ late' = LateWith(n) /\ UNCHANGED chain

(* builder.A.hole.add.B(), builder.target(address).add("B").                *)
Connect(t, h, s, o) ==
    /\ t \in Registered /\ h \in HolesIn[instances[t].body]
    /\ AddAdditiveEdge(t, h, s, o)
    /\ UNCHANGED <<chain, late>>

(* builder.assign(...), builder.bind_identifier(...).                       *)
CallAssign(b) ==
    /\ HasDemand(b.demand) /\ HasSupply(b.supply)
    /\ AddAssign(b)
    /\ UNCHANGED <<chain, late>>
CallBind(b) ==
    /\ HasDemand(b.demand) /\ HasSupply(b.supply)
    /\ AddIdentifierBinding(b)
    /\ UNCHANGED <<chain, late>>

-----------------------------------------------------------------------------
(* builder.assign.A.x: the name may turn out to be the demand, or a shell.  *)
Begin(surface, n, x) ==
    /\ n \notin Indexed
    /\ chain' = {[surface |-> surface, demand |-> [instance |-> n, path |-> <<>>, name |-> x],
                  target |-> NoName, path |-> <<>>]}
    /\ UNCHANGED <<vars, late>>

DescendSource(c, x) ==
    LET path == Append(c.demand.path, c.demand.name)
    IN  /\ c.target = NoName /\ path \in RefPath
        /\ c.demand.instance \in Registered => HasShell(c.demand.instance, path)
        /\ chain' = {[c EXCEPT !.demand = [instance |-> c.demand.instance, path |-> path, name |-> x]]}
        /\ UNCHANGED <<vars, late>>

(* Mutant: the demand is not looked up. *)
ToUnchecked(c, n) ==
    /\ c.target = NoName /\ n \notin Indexed
    /\ chain' = {[c EXCEPT !.target = n]}
    /\ UNCHANGED <<vars, late>>

To(c, n) ==
    /\ c.target = NoName /\ n \notin Indexed
    /\ HasDemand(c.demand)
    /\ chain' = {[c EXCEPT !.target = n]}
    /\ UNCHANGED <<vars, late>>

DescendTarget(c, x) ==
    LET path == Append(c.path, x)
    IN  /\ c.target # NoName /\ path \in RefPath /\ HasShell(c.target, path)
        /\ chain' = {[c EXCEPT !.path = path]}
        /\ UNCHANGED <<vars, late>>

(* The last name makes the wiring.  The handle before it stays in hand.     *)
WiringOf(c, x) ==
    [demand |-> c.demand, supply |-> [instance |-> c.target, path |-> c.path, name |-> x]]
EndsAt(c, x) ==
    /\ c.target # NoName
    /\ ~HasShell(c.target, Append(c.path, x))
    /\ HasSupply(WiringOf(c, x).supply)

EndAssign(c, x) ==
    /\ c.surface = "assign" /\ EndsAt(c, x)
    /\ CommitAssign(WiringOf(c, x))
    /\ UNCHANGED <<chain, late>>
EndBind(c, x) ==
    /\ c.surface = "bind_identifier" /\ EndsAt(c, x)
    /\ AddIdentifierBinding(WiringOf(c, x))
    /\ UNCHANGED <<chain, late>>

(* One name too many: a committed assign takes itself back, and raises.     *)
Overrun(leaf) == ContinueChain(leaf) /\ UNCHANGED <<chain, late>>

-----------------------------------------------------------------------------
Handled == Len(assigns) + Len(identifierBindings) + Cardinality(chain) + Len(committed)
Bounded ==
    Handled <= IF edges = <<>> /\ Registered \cap Indexed = {} THEN MaxHandled ELSE MaxBeside

HNext ==
    /\ \/ \E n \in Name, b \in Body, p \in Placed : Register(n, b, p)
       \/ \E n \in Name, b \in Body : Replace(n, b)
       \/ \E t, s \in Name, h \in Hole, o \in Order : Connect(t, h, s, o)
       \/ Handled < MaxHandled /\ \E b \in Binding : CallAssign(b)
       \/ Handled < MaxHandled /\ \E b \in Binding : CallBind(b)
       \/ \E surface \in Surface, n \in Name, x \in Ident : Begin(surface, n, x)
       \/ \E c \in chain, x \in Ident : DescendSource(c, x)
       \/ \E c \in chain, n \in Name : To(c, n)
       \/ \E c \in chain, x \in Ident : DescendTarget(c, x)
       \/ \E c \in chain, x \in Ident : EndAssign(c, x)
       \/ \E c \in chain, x \in Ident : EndBind(c, x)
       \/ \E leaf \in DOMAIN committed : Overrun(leaf)
    /\ Bounded'

HSpec == HInit /\ [][HNext]_handleVars

-----------------------------------------------------------------------------
(* A wiring names slots its instances have, by whichever call or chain it   *)
(* was made and however long that took; all but those of an instance that   *)
(* came, or was replaced, when the wiring was made or begun (those          *)
(* build_merge has to check).                                               *)
WiringsNameSlots ==
    \A b \in Wirings :
        /\ b.demand.instance \notin late => HasDemand(b.demand)
        /\ b.supply.instance \notin late => HasSupply(b.supply)
=============================================================================
