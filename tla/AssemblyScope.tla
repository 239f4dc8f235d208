--------------------------- MODULE AssemblyScope ---------------------------
(***************************************************************************)
(* AssemblyScope (assembler/scope.py, Python engine) keeps one assembly    *)
(* twice.  Every applied candidate goes at once into the LOWER STATE, the  *)
(* occurrences, edges and overlays that build() materializes, and is only  *)
(* queued for the BUILDER GRAPH, the adapter that build(unroll=True), and  *)
(* build() when the lower path declines, drain before they merge.  The     *)
(* hazards are the places where the two stop being the same assembly.      *)
(*                                                                         *)
(* A record is one site of a piece, [kind, label]; its id is the build     *)
(* prefix of the occurrence and its ordinal in the piece, so a candidate   *)
(* names the record by POSITION.  Selectors are abstracted: the client may *)
(* apply any candidate it could have found.  Insertion orders and indexed  *)
(* build names are left out (BuildMerge and BuilderGraph have them).       *)
(***************************************************************************)
EXTENDS Naturals, Sequences, FiniteSets

CONSTANTS
    Name,           \* build names
    Word,           \* demand names, identifiers and external values
    Piece,          \* the composables the client registers
    Records,        \* Records[p]: the inventory records of p, in ordinal order
    Fits,           \* <<p, kind>>: a production of p satisfies holes of the kind
    Nothing,        \* stands for an instance that is not registered
    MaxOccurrences, MaxOverlays \* bounds of the exploration

HoleKinds == {"block", "scalar"}
BindKinds == {"external", "identifier"}
Record == [kind : HoleKinds \cup BindKinds \cup {"production"}, label : Word]

ASSUME PieceAssumption ==
    /\ Records \in [Piece -> Seq(Record)]
    /\ Fits \subseteq Piece \X HoleKinds
    /\ Nothing \notin Piece

VARIABLES
    occurrences,    \* the pieces registered, oldest first: [prefix, piece]
    satisfied,      \* the record ids <<occurrence, ordinal>> that are satisfied
    renames,        \* identifier bindings by occurrence: [at, from, to]
    edges,          \* the insertions of the lower state: [target, source]
    overlays,       \* its bindings: [kind, target, label, value]
    held,           \* candidates the client has found
    deferred,       \* insertions the builder has not seen: [owner, label, source, piece]
    queued,         \* bindings it has not seen: [kind, owner, label, value]
    instances,      \* builder: the piece of each registered instance
    links,          \* builder: its edges [owner, label, source, piece]
    bound,          \* builder: the bindings applied to its instances
    stage,          \* "idle", or what an adapter build is draining
    draining,       \* the insertions the build took
    flushing,       \* the bindings the build took
    raised          \* whether the last call raised

lower == <<occurrences, satisfied, renames, edges, overlays>>
builder == <<instances, links, bound>>
vars == <<lower, held, deferred, queued, builder, stage, draining, flushing, raised>>

Owner(prefix) == prefix[Len(prefix)]
Count == Len(occurrences)
RecordAt(id) == Records[occurrences[id[1]].piece][id[2]]
Ids == UNION {{i} \X DOMAIN Records[occurrences[i].piece] : i \in 1..Count}

-----------------------------------------------------------------------------
(* Re-registering a prefix kills the records of the occurrence before.      *)
Current(i) == \A j \in 1..Count : occurrences[j].prefix = occurrences[i].prefix => j <= i

Resolved(i, word) ==
    IF \E r \in renames : r.at = i /\ r.from = word
    THEN (CHOOSE r \in renames : r.at = i /\ r.from = word).to
    ELSE word

CandidateAt(i, k) ==
    LET record == Records[occurrences[i].piece][k]
    IN  [prefix |-> occurrences[i].prefix, at |-> k, kind |-> record.kind,
         label |-> Resolved(i, record.label)]

OpenSites(i) ==
    {k \in DOMAIN Records[occurrences[i].piece] :
        /\ <<i, k>> \notin satisfied
        /\ Records[occurrences[i].piece][k].kind # "production"}
Visible == UNION {{CandidateAt(i, k) : k \in OpenSites(i)} : i \in {j \in 1..Count : Current(j)}}

(* The record a candidate stands for when it is applied: the one at its     *)
(* ordinal in whatever piece is now registered at its prefix, if any.       *)
TargetOf(c) == {<<i, c.at>> : i \in {j \in 1..Count :
    /\ occurrences[j].prefix = c.prefix
    /\ Current(j)
    /\ c.at \in DOMAIN Records[occurrences[j].piece]}}

Init ==
    /\ occurrences = <<>> /\ edges = <<>> /\ overlays = <<>>
    /\ satisfied = {} /\ renames = {} /\ held = {}
    /\ deferred = <<>> /\ queued = {}
    /\ instances = [n \in Name |-> Nothing] /\ links = <<>> /\ bound = {}
    /\ stage = "idle" /\ draining = <<>> /\ flushing = {} /\ raised = FALSE

-----------------------------------------------------------------------------
(* scope.add: the builder refuses a name it has before anything changes.    *)
Add(n, p) ==
    /\ stage = "idle" /\ Count < MaxOccurrences
    /\ raised' = (instances[n] # Nothing)
    /\ \/ /\ raised'
          /\ UNCHANGED <<instances, occurrences>>
       \/ /\ ~raised'
          /\ instances' = [instances EXCEPT ![n] = p]
          /\ occurrences' = Append(occurrences, [prefix |-> <<n>>, piece |-> p])
    /\ UNCHANGED <<satisfied, renames, edges, overlays, held, deferred, queued,
                   links, bound, stage, draining, flushing>>

(* scope.find_candidates, with a selector that leaves nothing out.          *)
Find ==
    /\ stage = "idle"
    /\ held' = held \cup Visible
    /\ raised' = FALSE
    /\ UNCHANGED <<lower, deferred, queued, builder, stage, draining, flushing>>

(* Mutant: nothing is ever satisfied. *)
FilledLate(c) == {}

(* An insertion fills a single-value hole, and a binding its demand.        *)
Filled(c) == IF c.kind = "block" THEN {} ELSE TargetOf(c)

(* Mutant: a second insertion into a block hole gets no edge. *)
EdgesWithOnce(c) ==
    IF TargetOf(c) = {} \/ \E j \in DOMAIN edges : edges[j].target \in TargetOf(c) THEN edges
    ELSE Append(edges, [target |-> CHOOSE t \in TargetOf(c) : TRUE, source |-> Count + 1])
EdgesWith(c) ==
    IF TargetOf(c) = {} THEN edges
    ELSE Append(edges, [target |-> CHOOSE t \in TargetOf(c) : TRUE, source |-> Count + 1])

Insertion(c, p, n) == [owner |-> Owner(c.prefix), label |-> c.label, source |-> n, piece |-> p]

(* Mutant: the queue is filled from its front. *)
DeferredLast(c, p, n) == <<Insertion(c, p, n)>> \o deferred
DeferredWith(c, p, n) == Append(deferred, Insertion(c, p, n))

(* apply of a composable candidate.  Where the record is gone the piece is  *)
(* registered and queued all the same, without an edge.                     *)
InsertEffects(c, p, n) ==
    /\ occurrences' = Append(occurrences, [prefix |-> Append(c.prefix, n), piece |-> p])
    /\ edges' = EdgesWith(c)
    /\ satisfied' = satisfied \cup Filled(c)
    /\ deferred' = DeferredWith(c, p, n)
    /\ UNCHANGED <<renames, overlays, held, queued, builder, draining, flushing>>
Insert(c, p, n) ==
    /\ stage = "idle" /\ Count < MaxOccurrences
    /\ <<p, c.kind>> \in Fits
    /\ InsertEffects(c, p, n)
    /\ raised' = FALSE
    /\ UNCHANGED stage

SameSlot(q, r) == q.kind = r.kind /\ q.owner = r.owner /\ q.label = r.label
Binding(c, v) == [kind |-> c.kind, owner |-> Owner(c.prefix), label |-> c.label, value |-> v]

(* A second binding of a queued name raises, unless it is an identifier     *)
(* bound to the same word again.                                            *)
Collides(q) == \E r \in queued : SameSlot(q, r) /\ (q.kind = "external" \/ q.value # r.value)

OverlaysWith(c, v) ==
    IF TargetOf(c) = {} THEN overlays
    ELSE Append(overlays, [kind |-> c.kind, target |-> CHOOSE t \in TargetOf(c) : TRUE,
                           label |-> IF c.kind = "external" THEN c.label ELSE v, value |-> v])

RenamesWith(c, v) ==
    {r \in renames : <<r.at, c.at>> \notin TargetOf(c) \/ r.from # c.label}
        \cup {[at |-> t[1], from |-> c.label, to |-> v] : t \in TargetOf(c)}

(* apply of an external value or an identifier: the lower state has it      *)
(* before the queue can refuse it.                                          *)
BindEffects(c, v) ==
    /\ overlays' = OverlaysWith(c, v)
    /\ satisfied' = satisfied \cup Filled(c)
    /\ renames' = IF c.kind = "identifier" THEN RenamesWith(c, v) ELSE renames
    /\ queued' = IF Collides(Binding(c, v)) THEN queued ELSE queued \cup {Binding(c, v)}
    /\ UNCHANGED <<occurrences, edges, held, deferred, builder, draining, flushing>>
Bind(c, v) ==
    /\ stage = "idle" /\ Len(overlays) < MaxOverlays
    /\ c.kind \in BindKinds
    /\ BindEffects(c, v)
    /\ raised' = Collides(Binding(c, v))
    /\ UNCHANGED stage

-----------------------------------------------------------------------------
(* Mutant: the list is not cleared when it is taken. *)
StartBuildKeeping ==
    /\ stage = "idle"
    /\ stage' = "insertions" /\ draining' = deferred /\ deferred' = deferred
    /\ raised' = FALSE
    /\ UNCHANGED <<lower, held, queued, builder, flushing>>

(* _build_with_adapter drains the queued insertions, then the identifiers,  *)
(* then the values.  Each list is cleared before its first item is applied. *)
StartBuild ==
    /\ stage = "idle"
    /\ stage' = "insertions" /\ draining' = deferred /\ deferred' = <<>>
    /\ raised' = FALSE
    /\ UNCHANGED <<lower, held, queued, builder, flushing>>

Abort ==
    /\ stage' = "idle" /\ draining' = <<>> /\ flushing' = {} /\ raised' = TRUE
    /\ UNCHANGED <<lower, held, deferred, queued, links, bound>>

Registered(e) == [instances EXCEPT ![e.source] = e.piece]

(* builder.add registers the source, builder.target finds the owner and     *)
(* adds the edge; an instance cannot be inserted into itself.               *)
DrainEdge ==
    /\ stage = "insertions" /\ draining # <<>>
    /\ LET e == Head(draining)
       IN  \/ /\ instances[e.source] # Nothing
              /\ UNCHANGED instances
              /\ Abort
           \/ /\ instances[e.source] = Nothing
              /\ instances[e.owner] = Nothing
              /\ instances' = Registered(e)
              /\ Abort
           \/ /\ instances[e.source] = Nothing
              /\ instances[e.owner] # Nothing
              /\ instances' = Registered(e)
              /\ links' = Append(links, e)
              /\ draining' = Tail(draining)
              /\ UNCHANGED <<lower, held, deferred, queued, bound, stage, flushing, raised>>

(* Mutants: both queues are cleared; the queue is not cleared. *)
TakeAll(kind) ==
    /\ flushing' = {q \in queued : q.kind = kind}
    /\ queued' = {}
    /\ stage' = kind
    /\ UNCHANGED <<lower, held, deferred, builder, draining, raised>>
TakeKeeping(kind) ==
    /\ flushing' = {q \in queued : q.kind = kind}
    /\ queued' = queued
    /\ stage' = kind
    /\ UNCHANGED <<lower, held, deferred, builder, draining, raised>>
Take(kind) ==
    /\ flushing' = {q \in queued : q.kind = kind}
    /\ queued' = queued \ flushing'
    /\ stage' = kind
    /\ UNCHANGED <<lower, held, deferred, builder, draining, raised>>

TakeIdentifiers == stage = "insertions" /\ draining = <<>> /\ Take("identifier")
TakeExternals == stage = "identifier" /\ flushing = {} /\ Take("external")

Demanded(q) == \E k \in DOMAIN Records[instances[q.owner]] :
    Records[instances[q.owner]][k] = [kind |-> q.kind, label |-> q.label]

(* Mutant: what is bound already is not looked up. *)
AcceptsAny(q) == Demanded(q)
Accepts(q) ==
    LET before == {b \in bound : SameSlot(q, b)}
    IN  IF before = {} THEN Demanded(q)
        ELSE q.kind = "identifier" /\ \A b \in before : b.value = q.value

(* Mutant: a refusal does not leave the loop. *)
BindOwnerLoops ==
    /\ stage \in BindKinds
    /\ \E owner \in {q.owner : q \in flushing} :
        LET group == {q \in flushing : q.owner = owner}
            accepted == instances[owner] # Nothing /\ \A q \in group : Accepts(q)
        IN  /\ accepted
            /\ bound' = bound \cup group
            /\ flushing' = flushing \ group
            /\ UNCHANGED <<lower, held, deferred, queued, instances, links, stage,
                           draining, raised>>

(* The bindings of one instance are applied together or not at all.         *)
BindOwner ==
    /\ stage \in BindKinds
    /\ \E owner \in {q.owner : q \in flushing} :
        LET group == {q \in flushing : q.owner = owner}
            accepted == instances[owner] # Nothing /\ \A q \in group : Accepts(q)
        IN  \/ /\ accepted
               /\ bound' = bound \cup group
               /\ flushing' = flushing \ group
               /\ UNCHANGED <<lower, held, deferred, queued, instances, links, stage,
                              draining, raised>>
            \/ /\ ~accepted
               /\ UNCHANGED instances
               /\ Abort

(* builder.build on the graph as it now is: BuildMerge.                     *)
EndBuild ==
    /\ stage = "external" /\ flushing = {}
    /\ stage' = "idle"
    /\ UNCHANGED <<lower, held, deferred, queued, builder, draining, flushing, raised>>

Flush == DrainEdge \/ TakeIdentifiers \/ TakeExternals \/ BindOwner \/ EndBuild
Build == StartBuild \/ Flush

-----------------------------------------------------------------------------
(* Any client: it keeps candidates as long as it likes and uses any names.  *)
Next ==
    \/ \E n \in Name, p \in Piece : Add(n, p)
    \/ Find
    \/ \E c \in held, p \in Piece, n \in Name : Insert(c, p, n)
    \/ \E c \in held, v \in Word : Bind(c, v)
    \/ Build
Spec == Init /\ [][Next]_vars /\ WF_vars(Flush)

Fresh(n) == \A i \in 1..Count : Owner(occurrences[i].prefix) # n

-----------------------------------------------------------------------------
Occurrences == [prefix : Seq(Name) \ {<<>>}, piece : Piece]
Candidates == [prefix : Seq(Name) \ {<<>>}, at : Nat,
               kind : HoleKinds \cup BindKinds \cup {"production"}, label : Word]
Insertions == [owner : Name, label : Word, source : Name, piece : Piece]
Bindings == [kind : BindKinds, owner : Name, label : Word, value : Word]
Renamings == [at : Nat, from : Word, to : Word]
LowerEdges == [target : Nat \X Nat, source : Nat]
Overlays == [kind : BindKinds, target : Nat \X Nat, label : Word, value : Word]

TypeOK ==
    /\ occurrences \in Seq(Occurrences)
    /\ satisfied \subseteq Nat \X Nat
    /\ renames \subseteq Renamings
    /\ edges \in Seq(LowerEdges)
    /\ overlays \in Seq(Overlays)
    /\ held \subseteq Candidates
    /\ deferred \in Seq(Insertions) /\ draining \in Seq(Insertions)
    /\ links \in Seq(Insertions)
    /\ queued \subseteq Bindings /\ flushing \subseteq Bindings /\ bound \subseteq Bindings
    /\ instances \in [Name -> Piece \cup {Nothing}]
    /\ stage \in {"idle", "insertions"} \cup BindKinds
    /\ raised \in BOOLEAN

(* An insertion as the builder knows it: by the names of the instances.     *)
Inserted(o) == Len(o.prefix) > 1
Site(owner, source, piece) == [owner |-> owner, source |-> source, piece |-> piece]
SiteOf(o) == Site(o.prefix[Len(o.prefix) - 1], Owner(o.prefix), o.piece)
Known == links \o draining \o deferred
SitesOfBuilder ==
    [i \in DOMAIN Known |-> Site(Known[i].owner, Known[i].source, Known[i].piece)]

(* Whatever the client does, the builder has no insertion twice, none the   *)
(* scope has not, and none out of order.                                    *)
BuilderFollowsScope ==
    \E at \in [DOMAIN Known -> 1..Count] :
        /\ \A i, j \in DOMAIN Known : i < j => at[i] < at[j]
        /\ \A i \in DOMAIN Known :
              Inserted(occurrences[at[i]]) /\ SitesOfBuilder[i] = SiteOf(occurrences[at[i]])

(* The value the lower build gives a demand of an occurrence is the one its *)
(* last overlay carries; the builder has it bound, or will bind it.         *)
LowerValues(i, record) ==
    LET about == {j \in DOMAIN overlays :
                    overlays[j].target[1] = i /\ RecordAt(overlays[j].target) = record}
    IN  {overlays[j].value : j \in {k \in about : \A l \in about : l <= k}}
BuilderValues(i, record) ==
    {q.value : q \in {r \in queued \cup flushing \cup bound :
        /\ r.kind = record.kind /\ r.label = record.label
        /\ r.owner = Owner(occurrences[i].prefix)}}
BindingsAgree ==
    \A id \in Ids : Current(id[1]) /\ RecordAt(id).kind \in BindKinds =>
        LowerValues(id[1], RecordAt(id)) = BuilderValues(id[1], RecordAt(id))

(* No name of an instance is bound twice, whatever was queued in between.   *)
BoundOnce == \A b, q \in bound : SameSlot(b, q) => b = q

(* The lower plan of any client is a forest: an edge leads from a record    *)
(* that exists to a younger occurrence, and no occurrence is in two places. *)
LowerForest ==
    /\ \A j \in DOMAIN edges :
        /\ edges[j].target \in Ids /\ edges[j].source \in 1..Count
        /\ edges[j].target[1] < edges[j].source
    /\ \A j, k \in DOMAIN edges : edges[j].source = edges[k].source => j = k

(* A hole that takes one value is given one.                                *)
ScalarFilledOnce ==
    \A j, k \in DOMAIN edges :
        edges[j].target = edges[k].target /\ j # k => RecordAt(edges[j].target).kind # "scalar"

(* A plan starts at the first root and is a tree over all that was placed:  *)
(* an edge leads to every other occurrence, one only, from an older one.    *)
TreeOverAll(placed, inserted) ==
    \A i \in 2..Len(placed) :
        \E j \in DOMAIN inserted :
            /\ inserted[j].source = i /\ inserted[j].target[1] < i
            /\ \A k \in DOMAIN inserted : inserted[k].source = i => k = j

(* A careful client is never refused.                                       *)
NeverRaises == ~raised

(* An adapter build comes to its end, by a merge or by raising.             *)
BuildsEnd == stage # "idle" ~> stage = "idle"
=============================================================================
