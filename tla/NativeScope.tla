---------------------------- MODULE NativeScope ----------------------------
(***************************************************************************)
(* AssemblyScope on the native engine.  The scope then keeps its assembly  *)
(* a third time, in a NATIVE STATE of occurrences, edges and overlays      *)
(* (native_engine/src/occurrence_store.rs).  A single call changes the     *)
(* Python lower state, here called the mirror, and repeats the step        *)
(* natively through handles kept by build path.  apply_batch goes the      *)
(* other way: the native side resolves and applies every request, and the  *)
(* scope then either only notes the new handles and the external values,   *)
(* by overlay number (engine "native"), or replays each event into the     *)
(* mirror (engine "mirrored").  Both sides count occurrences and overlays  *)
(* on their own, and a native answer names a record by those counts: the   *)
(* hazard is that the counts, or the states, part.  On engine "python" a   *)
(* batch is the single calls it names, one after the other.                *)
(*                                                                         *)
(* Engine "mirrored" is the compatibility path: an extension that does not *)
(* advertise the direct one, with ASTICHI_NATIVE_SCOPE_MIRROR_REPLAY set.  *)
(* The repository's own extension advertises it (capabilities.rs), so it   *)
(* runs as engine "native".                                                *)
(*                                                                         *)
(* Abstracted: selectors (a request names the first of the equivalent      *)
(* sites it can select), code owners, insertion orders, template packages; *)
(* every piece carries native template metadata.                           *)
(***************************************************************************)
EXTENDS AssemblyScope

CONSTANTS
    Values,         \* the words the client binds
    MaxBatch        \* bound: requests in one batch

ASSUME ValuesAssumption == Values \subseteq Word

VARIABLES
    engine,         \* "python", "native" or "mirrored": fixed for a scope
    nOccurrences,   \* native: [prefix, piece], oldest first
    nEdges,         \* native: [target, source]
    nOverlays,      \* native: [kind, target, label]
    nSatisfied,     \* native: record ids
    handles,        \* the native occurrence by build path
    literals,       \* the external values by overlay number
    events,         \* what the running batch has applied
    batched,        \* a batch was made
    failed,         \* a batch raised
    askedPieces,    \* history: the pieces accepted, in order
    askedValues     \* history: the bindings accepted

native == <<nOccurrences, nEdges, nOverlays, nSatisfied>>
scope == <<handles, literals, events, batched, failed>>
asked == <<askedPieces, askedValues>>
allVars == <<vars, engine, native, scope, asked>>

NInit ==
    /\ Init
    /\ engine \in {"python", "native", "mirrored"}
    /\ nOccurrences = <<>> /\ nEdges = <<>> /\ nOverlays = <<>> /\ nSatisfied = {}
    /\ handles = <<>> /\ literals = <<>> /\ events = <<>>
    /\ batched = FALSE /\ failed = FALSE
    /\ askedPieces = <<>> /\ askedValues = {}

-----------------------------------------------------------------------------
(* Names are resolved natively with the identifier overlays, the last one   *)
(* of a name first.                                                         *)
NRecord(id) == Records[nOccurrences[id[1]].piece][id[2]]
NIds == UNION {{i} \X DOMAIN Records[nOccurrences[i].piece] : i \in DOMAIN nOccurrences}

NLabel(id) ==
    LET renaming == {j \in DOMAIN nOverlays :
            /\ nOverlays[j].kind = "identifier"
            /\ nOverlays[j].target[1] = id[1]
            /\ NRecord(nOverlays[j].target).label = NRecord(id).label}
    IN  IF renaming = {} THEN NRecord(id).label
        ELSE nOverlays[CHOOSE j \in renaming : \A k \in renaming : k <= j].label

(* Mutant: an applied demand stays in the answer. *)
NVisibleAlways == {id \in NIds : NRecord(id).kind # "production"}
NVisible == {id \in NIds : id \notin nSatisfied /\ NRecord(id).kind # "production"}

Equivalent(id, other) ==
    /\ id[1] = other[1]
    /\ NRecord(id).kind = NRecord(other).kind
    /\ NLabel(id) = NLabel(other)

(* What a batch request can select: one site, or the first of equivalent    *)
(* ones.                                                                    *)
Selectable == {id \in NVisible :
    \A other \in NVisible : Equivalent(id, other) => id[2] <= other[2]}

(* The candidate a site of occurrence i would be in the Python mirror.      *)
InMirror(id) == id[1] \in 1..Count /\ Current(id[1]) /\ id[2] \in OpenSites(id[1])

(* find_candidates: the native answer, each record number read as one of    *)
(* the mirror's, and the mirror's own answer where nothing is left of it.   *)
NativeAnswer == {CandidateAt(id[1], id[2]) : id \in {x \in NVisible : InMirror(x)}}
Offered ==
    IF engine = "python" THEN Visible
    ELSE NativeAnswer \cup {c \in Visible :
            ~\E d \in NativeAnswer : d.prefix = c.prefix /\ d.label = c.label}

-----------------------------------------------------------------------------
(* The native half of a single call.                                        *)
NativeId(id) == <<handles[occurrences[id[1]].prefix], id[2]>>

With(f, x, v) == [y \in DOMAIN f \cup {x} |-> IF y = x THEN v ELSE f[y]]

AppendNative(path, p) ==
    /\ nOccurrences' = Append(nOccurrences, [prefix |-> path, piece |-> p])
    /\ handles' = With(handles, path, Len(nOccurrences) + 1)

(* Mutant: a filled hole is not marked natively. *)
InsertNativelyOpen(c, p, n) ==
    /\ AppendNative(Append(c.prefix, n), p)
    /\ nSatisfied' = nSatisfied
    /\ nEdges' = nEdges \o [i \in 1..Cardinality(TargetOf(c)) |->
            [target |-> NativeId(CHOOSE t \in TargetOf(c) : TRUE), source |-> Len(nOccurrences) + 1]]
    /\ UNCHANGED nOverlays
InsertNatively(c, p, n) ==
    /\ AppendNative(Append(c.prefix, n), p)
    /\ nSatisfied' = nSatisfied \cup {NativeId(t) : t \in Filled(c)}
    /\ nEdges' = nEdges \o [i \in 1..Cardinality(TargetOf(c)) |->
            [target |-> NativeId(CHOOSE t \in TargetOf(c) : TRUE), source |-> Len(nOccurrences) + 1]]
    /\ UNCHANGED nOverlays

BindNatively(c, v) ==
    /\ nOverlays' = nOverlays \o [i \in 1..Cardinality(TargetOf(c)) |->
            [kind |-> c.kind, target |-> NativeId(CHOOSE t \in TargetOf(c) : TRUE),
             label |-> IF c.kind = "external" THEN c.label ELSE v]]
    /\ nSatisfied' = nSatisfied \cup {NativeId(t) : t \in Filled(c)}
    /\ UNCHANGED <<nOccurrences, nEdges, handles>>

WithLiteral(kind, j, v) == IF kind = "external" THEN With(literals, j, v) ELSE literals

Placed(prefix, at, n, p) ==
    /\ askedPieces' = Append(askedPieces, [prefix |-> prefix, at |-> at, name |-> n, piece |-> p])
    /\ UNCHANGED askedValues
Valued(prefix, at, v) ==
    /\ askedValues' = askedValues \cup {[prefix |-> prefix, at |-> at, value |-> v]}
    /\ UNCHANGED askedPieces

(* add, wire: find_candidates and apply in one.                             *)
AddRoot(n, p) ==
    /\ Count = 0 /\ stage = "idle"
    /\ Add(n, p)
    /\ IF engine = "python" THEN UNCHANGED <<nOccurrences, handles>> ELSE AppendNative(<<n>>, p)
    /\ Placed(<<>>, 0, n, p)
    /\ UNCHANGED <<engine, nEdges, nOverlays, nSatisfied, literals, events, batched, failed>>

WireInsert(c, p, n) ==
    /\ Insert(c, p, n)
    /\ IF engine = "python" THEN UNCHANGED <<native, handles>> ELSE InsertNatively(c, p, n)
    /\ Placed(c.prefix, c.at, n, p)
    /\ UNCHANGED <<engine, literals, events, batched, failed>>

WireBind(c, v) ==
    /\ Bind(c, v)
    /\ IF engine = "python" THEN UNCHANGED <<native, handles>> ELSE BindNatively(c, v)
    /\ literals' = WithLiteral(c.kind, Len(overlays) + 1, v)
    /\ Valued(c.prefix, c.at, v)
    /\ UNCHANGED <<engine, events, batched, failed>>

-----------------------------------------------------------------------------
(* apply_batch: each request is resolved and applied natively before the    *)
(* next is looked at.                                                       *)
StartBatch ==
    /\ stage = "idle" /\ engine # "python"
    /\ stage' = "batch" /\ batched' = TRUE /\ raised' = FALSE
    /\ UNCHANGED <<lower, held, deferred, queued, builder, draining, flushing,
                   engine, native, handles, literals, events, failed, asked>>

Hole(id) == NRecord(id).kind \in HoleKinds

BatchInsert(id, p, n) ==
    /\ stage = "batch" /\ Len(events) < MaxBatch /\ Len(nOccurrences) < MaxOccurrences
    /\ Hole(id) /\ <<p, NRecord(id).kind>> \in Fits
    /\ LET path == Append(nOccurrences[id[1]].prefix, n)
       IN  /\ nOccurrences' = Append(nOccurrences, [prefix |-> path, piece |-> p])
           /\ events' = Append(events, [kind |-> "insert", target |-> id, path |-> path,
                                        source |-> Len(nOccurrences) + 1, name |-> n, piece |-> p])
    /\ nEdges' = Append(nEdges, [target |-> id, source |-> Len(nOccurrences) + 1])
    /\ nSatisfied' = IF NRecord(id).kind = "block" THEN nSatisfied ELSE nSatisfied \cup {id}
    /\ Placed(nOccurrences[id[1]].prefix, id[2], n, p)
    /\ UNCHANGED <<vars, engine, nOverlays, handles, literals, batched, failed>>

BatchBind(id, v) ==
    /\ stage = "batch" /\ Len(events) < MaxBatch /\ Len(nOverlays) < MaxOverlays
    /\ NRecord(id).kind \in BindKinds
    /\ nOverlays' = Append(nOverlays, [kind |-> NRecord(id).kind, target |-> id,
            label |-> IF NRecord(id).kind = "external" THEN NLabel(id) ELSE v])
    /\ nSatisfied' = nSatisfied \cup {id}
    /\ events' = Append(events, [kind |-> NRecord(id).kind, target |-> id,
                                 overlay |-> Len(nOverlays) + 1, value |-> v])
    /\ Valued(nOccurrences[id[1]].prefix, id[2], v)
    /\ UNCHANGED <<vars, engine, nOccurrences, nEdges, handles, literals, batched, failed>>

(* A request without exactly one candidate raises.  The requests before it  *)
(* stay applied natively; the scope hears of none of them.                  *)
BatchRaises ==
    /\ stage = "batch"
    /\ stage' = "idle" /\ events' = <<>> /\ failed' = TRUE
    /\ UNCHANGED <<lower, held, deferred, queued, builder, draining, flushing, raised,
                   engine, native, handles, literals, batched, asked>>

Inserts == {j \in DOMAIN events : events[j].kind = "insert"}
Externals == {j \in DOMAIN events : events[j].kind = "external"}

NoteHandles ==
    handles' = [path \in DOMAIN handles \cup {events[j].path : j \in Inserts} |->
        IF \E j \in Inserts : events[j].path = path
        THEN events[CHOOSE j \in Inserts : events[j].path = path].source
        ELSE handles[path]]

(* Mutant: a value is kept under its place in the batch. *)
NoteEventsByPlace ==
    /\ NoteHandles
    /\ literals' = [o \in DOMAIN literals \cup Externals |->
            IF o \in Externals THEN events[o].value ELSE literals[o]]
NoteEvents ==
    /\ NoteHandles
    /\ literals' = [o \in DOMAIN literals \cup {events[j].overlay : j \in Externals} |->
            IF \E j \in Externals : events[j].overlay = o
            THEN events[CHOOSE j \in Externals : events[j].overlay = o].value
            ELSE literals[o]]

(* By default the mirror is told nothing else.                              *)
CommitBatch ==
    /\ stage = "batch" /\ engine = "native" /\ events # <<>>
    /\ stage' = "idle" /\ events' = <<>>
    /\ NoteEvents
    /\ UNCHANGED <<lower, held, deferred, queued, builder, draining, flushing, raised,
                   engine, native, batched, failed, asked>>

(* Replay: the events change the mirror and the builder's queues as single  *)
(* calls would; an overlay number that differs raises.                      *)
StartReplay ==
    /\ stage = "batch" /\ engine = "mirrored" /\ events # <<>>
    /\ stage' = "replay"
    /\ UNCHANGED <<lower, held, deferred, queued, builder, draining, flushing, raised,
                   engine, native, scope, asked>>

(* Mutant: a binding that is replayed is not queued for the builder. *)
BindMirrorUnqueued(c, v) ==
    /\ overlays' = OverlaysWith(c, v)
    /\ satisfied' = satisfied \cup Filled(c)
    /\ renames' = IF c.kind = "identifier" THEN RenamesWith(c, v) ELSE renames
    /\ UNCHANGED <<occurrences, edges, held, deferred, queued, builder, draining, flushing>>
BindMirror(c, v) == BindEffects(c, v)

ReplayEvent ==
    /\ stage = "replay" /\ events # <<>>
    /\ LET e == Head(events)
           c == CandidateAt(e.target[1], e.target[2])
       IN  \/ /\ e.kind = "insert"
              /\ InsertEffects(c, e.piece, e.name)
              /\ handles' = With(handles, e.path, e.source)
              /\ UNCHANGED <<literals, raised>>
           \/ /\ e.kind \in BindKinds
              /\ BindMirror(c, e.value)
              /\ literals' = WithLiteral(e.kind, Len(overlays) + 1, e.value)
              /\ raised' = (Collides(Binding(c, e.value)) \/ e.overlay # Len(overlays) + 1)
              /\ UNCHANGED handles
    /\ events' = Tail(events)
    /\ stage' = IF events' = <<>> \/ raised' THEN "idle" ELSE stage
    /\ UNCHANGED <<engine, native, batched, failed, asked>>

-----------------------------------------------------------------------------
(* What build() returns: the native assembly where it is complete, else the *)
(* mirror where that is, else nothing (the adapter, on engine "python").    *)
(* An assembly is complete when no marker is left in what it expands to.    *)
Complete(placed, inserted, bindings) ==
    /\ placed # <<>>
    /\ \A i \in DOMAIN placed : \A k \in DOMAIN Records[placed[i].piece] :
        LET record == Records[placed[i].piece][k]
        IN  CASE record.kind = "production" -> TRUE
              [] record.kind \in HoleKinds -> \E j \in DOMAIN inserted : inserted[j].target = <<i, k>>
              [] record.kind \in BindKinds -> \E j \in DOMAIN bindings :
                    /\ bindings[j].target[1] = i
                    /\ Records[placed[i].piece][bindings[j].target[2]] = record

Unvalued(bindings) == {j \in DOMAIN bindings : bindings[j].kind = "external"} \ DOMAIN literals

Product(placed, inserted, bindings) ==
    [root |-> placed[1],
     pieces |-> [j \in DOMAIN inserted |->
        [prefix |-> placed[inserted[j].target[1]].prefix, at |-> inserted[j].target[2],
         name |-> Owner(placed[inserted[j].source].prefix),
         piece |-> placed[inserted[j].source].piece]],
     values |-> {[prefix |-> placed[bindings[j].target[1]].prefix, at |-> bindings[j].target[2],
                  value |-> IF bindings[j].kind = "external" THEN literals[j] ELSE bindings[j].label]
                    : j \in DOMAIN bindings}]

FromNative ==
    IF engine # "python" /\ Complete(nOccurrences, nEdges, nOverlays) /\ Unvalued(nOverlays) = {}
    THEN {Product(nOccurrences, nEdges, nOverlays)} ELSE {}
FromMirror ==
    IF Complete(occurrences, edges, overlays) /\ Unvalued(overlays) = {}
    THEN {Product(occurrences, edges, overlays)} ELSE {}

BuildReturns == IF FromNative # {} THEN FromNative ELSE FromMirror

-----------------------------------------------------------------------------
(* The client: one root, no instance name twice, no demand bound twice; a   *)
(* word that a piece demands as a value and as an identifier is bound as a  *)
(* value first (the other way round the scope offers the value under the    *)
(* name the identifier got, which the piece does not demand).  It applies   *)
(* candidates as they are found.  After a batch the default engine is only  *)
(* given batches, and a mirrored scope is dropped when one raises.          *)
Unused(n) == Fresh(n) /\ \A i \in DOMAIN nOccurrences : Owner(nOccurrences[i].prefix) # n
Unbound(c) == \A t \in TargetOf(c) : \A j \in DOMAIN overlays :
    overlays[j].target[1] = t[1] => RecordAt(overlays[j].target) # RecordAt(t)
NUnbound(id) == \A j \in DOMAIN nOverlays :
    nOverlays[j].target[1] = id[1] => NRecord(nOverlays[j].target) # NRecord(id)

ValueFirst(placed, bindings, id) ==
    LET records == Records[placed[id[1]].piece]
        twin == [kind |-> "external", label |-> records[id[2]].label]
    IN  records[id[2]].kind = "identifier" /\ (\E k \in DOMAIN records : records[k] = twin) =>
            \E j \in DOMAIN bindings :
                bindings[j].target[1] = id[1] /\ records[bindings[j].target[2]] = twin

Singly == ~(engine = "native" /\ batched) /\ ~failed
Wire ==
    \/ \E c \in Offered, p \in Piece, n \in Name : Unused(n) /\ WireInsert(c, p, n)
    \/ \E c \in Offered, v \in Values :
        /\ Unbound(c) /\ \A t \in TargetOf(c) : ValueFirst(occurrences, overlays, t)
        /\ WireBind(c, v)
Adapt == Build /\ UNCHANGED <<engine, native, scope, asked>>
Batch ==
    \/ Count > 0 /\ ~(engine = "mirrored" /\ failed) /\ StartBatch
    \/ \E id \in Selectable, p \in Piece, n \in Name : Unused(n) /\ BatchInsert(id, p, n)
    \/ \E id \in Selectable, v \in Values :
        NUnbound(id) /\ ValueFirst(nOccurrences, nOverlays, id) /\ BatchBind(id, v)
    \/ BatchRaises
    \/ CommitBatch
    \/ StartReplay
    \/ ReplayEvent

NNext ==
    \/ \E n \in Name, p \in Piece : AddRoot(n, p)
    \/ Singly /\ Wire
    \/ Singly /\ Adapt
    \/ Batch
NSpec == NInit /\ [][NNext]_allVars

-----------------------------------------------------------------------------
Settled ==
    /\ askedPieces # <<>>
    /\ \A j \in DOMAIN askedPieces :
        LET prefix == Append(askedPieces[j].prefix, askedPieces[j].name)
            records == Records[askedPieces[j].piece]
        IN  \A k \in DOMAIN records :
              /\ records[k].kind \in HoleKinds =>
                    \E l \in DOMAIN askedPieces : askedPieces[l].prefix = prefix /\ askedPieces[l].at = k
              /\ records[k].kind \in BindKinds =>
                    \E a \in askedValues : a.prefix = prefix /\ records[a.at] = records[k]

Asked ==
    [root |-> [prefix |-> <<askedPieces[1].name>>, piece |-> askedPieces[1].piece],
     pieces |-> Tail(askedPieces),
     values |-> askedValues]

(* A build returns what the scope was asked for, every piece in its hole    *)
(* and every value at its demand, and returns nothing while something of it *)
(* is still open.                                                           *)
BuildsWhatWasAsked ==
    stage = "idle" => BuildReturns = IF Settled THEN {Asked} ELSE {}

(* It does on every engine, as long as the default one is not built before  *)
(* a batch is settled, and no batch raised that had taken values.           *)
Trusted ==
    /\ engine = "native" /\ batched => Settled
    /\ failed => engine = "native" /\ Unvalued(nOverlays) = {}
CarefulBuildsWhatWasAsked == Trusted => BuildsWhatWasAsked

(* In the default engine a build that the native side cannot do is refused. *)
RejectsFallback ==
    stage = "idle" /\ engine = "native" /\ ~failed => BuildReturns = FromNative

(* The native state and the mirror offer the same sites under the same      *)
(* names, whichever of them applied what came before.                       *)
MirrorInForce == stage = "idle" /\ ~failed /\ (engine = "mirrored" \/ (engine = "native" /\ ~batched))
EnginesOfferAlike ==
    MirrorInForce =>
        {[prefix |-> nOccurrences[id[1]].prefix, at |-> id[2], kind |-> NRecord(id).kind,
          label |-> NLabel(id)] : id \in NVisible} = Visible

(* Every insertion the scope accepted, and nothing else, is in the native   *)
(* state in the order it was asked for, batches and what a raising batch    *)
(* left included; and the builder has been given it or will be, where the   *)
(* builder is told: a batch of the default engine tells it nothing.         *)
AskedSites ==
    [i \in 1..Len(askedPieces) - 1 |->
        Site(Owner(askedPieces[i + 1].prefix), askedPieces[i + 1].name, askedPieces[i + 1].piece)]
NativeSites ==
    [j \in DOMAIN nEdges |->
        Site(Owner(nOccurrences[nEdges[j].target[1]].prefix),
             Owner(nOccurrences[nEdges[j].source].prefix), nOccurrences[nEdges[j].source].piece)]
BuilderIsTold == Singly /\ stage \notin {"batch", "replay"}
NothingForgotten ==
    /\ engine # "python" => NativeSites = AskedSites
    /\ BuilderIsTold => SitesOfBuilder = AskedSites

(* The mirror and the native state are each a tree over what they hold: a   *)
(* build takes no piece of its own side twice and leaves none out.          *)
PlanIsWhole == TreeOverAll(occurrences, edges) /\ TreeOverAll(nOccurrences, nEdges)

(* A hole or demand that takes one thing is given one, on either side.      *)
FilledOnce ==
    /\ ScalarFilledOnce
    /\ \A j, k \in DOMAIN nEdges :
        nEdges[j].target = nEdges[k].target /\ j # k => NRecord(nEdges[j].target).kind # "scalar"
    /\ \A j, k \in DOMAIN nOverlays : nOverlays[j].target = nOverlays[k].target => j = k
=============================================================================
