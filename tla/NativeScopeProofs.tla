-------------------------- MODULE NativeScopeProofs --------------------------
(***************************************************************************)
(* AssemblyScope first, for any pieces, names and words and for any        *)
(* client: the lower plan is a forest, the builder binds no name of an     *)
(* instance twice, and it has no insertion the scope has not, none twice,  *)
(* none out of order, whichever builds raised in between.                  *)
(*                                                                         *)
(* Then the engines under it.  One assembly, kept three times, stays one.  *)
(* The native state and the Python mirror are each a SOUND assembly:       *)
(* occurrences, edges and bindings that belong together.  While the mirror *)
(* is in force the native state is the mirror followed by the events still *)
(* to be replayed; the builder holds, applied or queued, what the mirror   *)
(* holds; and what the client asked for is what the native state holds.    *)
(***************************************************************************)
EXTENDS NativeScope, SequenceTheorems, FiniteSetTheorems, TLAPS

-----------------------------------------------------------------------------
(* The scope and its builder.                                               *)

LEMMA RecordsTyped ==
    ASSUME NEW p \in Piece
    PROVE  /\ Records[p] \in Seq(Record)
           /\ DOMAIN Records[p] \subseteq Nat
           /\ \A k \in DOMAIN Records[p] : Records[p][k].label \in Word
<1>1. Records[p] \in Seq(Record)
  BY PieceAssumption
<1>2. \A k \in DOMAIN Records[p] : Records[p][k] \in Record
  BY <1>1
<1>3. \A r \in Record : r.label \in Word
  BY DEF Record
<1> QED BY <1>1, <1>2, <1>3

(* An id is an occurrence and the ordinal of a record of its piece.         *)
LEMMA IdsAre ==
    \A i, k : <<i, k>> \in Ids <=> i \in 1..Count /\ k \in DOMAIN Records[occurrences[i].piece]
<1> SUFFICES ASSUME NEW i, NEW k
             PROVE  <<i, k>> \in Ids
                    <=> i \in 1..Count /\ k \in DOMAIN Records[occurrences[i].piece]
  OBVIOUS
<1>1. <<i, k>> \in Ids
      <=> \E j \in 1..Count : <<i, k>> \in {j} \X DOMAIN Records[occurrences[j].piece]
  BY Zenon DEF Ids
<1> QED BY <1>1

LEMMA IdsTyped == TypeOK => Ids \subseteq Nat \X Nat
<1> SUFFICES ASSUME TypeOK, NEW id \in Ids PROVE id \in Nat \X Nat
  OBVIOUS
<1>1. PICK i \in 1..Count : id \in {i} \X DOMAIN Records[occurrences[i].piece]
  BY Zenon DEF Ids
<1>2. occurrences[i] \in Occurrences /\ i \in Nat
  BY DEF TypeOK, Count
<1>3. DOMAIN Records[occurrences[i].piece] \subseteq Nat
  BY <1>2, RecordsTyped DEF Occurrences
<1> QED BY <1>1, <1>2, <1>3

(* The record a candidate stands for exists.                                *)
LEMMA TargetsExist == \A c : TargetOf(c) \subseteq Ids
<1> SUFFICES ASSUME NEW c, NEW t \in TargetOf(c) PROVE t \in Ids
  OBVIOUS
<1>1. PICK i \in 1..Count : t = <<i, c.at>> /\ c.at \in DOMAIN Records[occurrences[i].piece]
  BY DEF TargetOf
<1> QED BY <1>1, IdsAre

LEMMA OwnerIsAName ==
    ASSUME NEW prefix \in Seq(Name) \ {<<>>}
    PROVE  Owner(prefix) \in Name
BY DEF Owner

LEMMA ResolvedIsAWord ==
    ASSUME TypeOK, NEW i, NEW word \in Word
    PROVE  Resolved(i, word) \in Word
<1>1. CASE \E r \in renames : r.at = i /\ r.from = word
  <2> DEFINE r == CHOOSE x \in renames : x.at = i /\ x.from = word
  <2>1. r \in renames
    BY <1>1
  <2>2. r.to \in Word
    BY <2>1 DEF TypeOK, Renamings
  <2> QED BY <1>1, <2>2 DEF Resolved
<1>2. CASE ~\E r \in renames : r.at = i /\ r.from = word
  BY <1>2 DEF Resolved
<1> QED BY <1>1, <1>2

LEMMA VisibleTyped == TypeOK => Visible \subseteq Candidates
<1> SUFFICES ASSUME TypeOK, NEW c \in Visible PROVE c \in Candidates
  OBVIOUS
<1>1. PICK i \in 1..Count : \E k \in OpenSites(i) : c = CandidateAt(i, k)
  BY Zenon DEF Visible
<1>2. PICK k \in OpenSites(i) : c = CandidateAt(i, k)
  BY <1>1
<1>3. occurrences[i] \in Occurrences /\ k \in DOMAIN Records[occurrences[i].piece]
  BY DEF TypeOK, OpenSites, Count
<1> DEFINE record == Records[occurrences[i].piece][k]
<1>4. record \in Record /\ k \in Nat
  BY <1>3, PieceAssumption DEF Occurrences
<1>5. Resolved(i, record.label) \in Word
  BY <1>4, ResolvedIsAWord DEF Record
<1> QED BY <1>2, <1>3, <1>4, <1>5 DEF CandidateAt, Candidates, Occurrences, Record

-----------------------------------------------------------------------------
LEMMA InitTyped == Init => TypeOK
<1> SUFFICES ASSUME Init PROVE TypeOK
  OBVIOUS
<1>1. occurrences \in Seq(Occurrences) /\ edges \in Seq(LowerEdges) /\ overlays \in Seq(Overlays)
  BY DEF Init
<1>2. /\ deferred \in Seq(Insertions) /\ draining \in Seq(Insertions)
      /\ links \in Seq(Insertions)
  BY DEF Init
<1> QED BY <1>1, <1>2 DEF Init, TypeOK

LEMMA StepTyped == TypeOK /\ [Next]_vars => TypeOK'
<1> SUFFICES ASSUME TypeOK, [Next]_vars PROVE TypeOK'
  OBVIOUS
<1>1. ASSUME NEW n \in Name, NEW p \in Piece, Add(n, p) PROVE TypeOK'
  <2>1. [prefix |-> <<n>>, piece |-> p] \in Occurrences
    BY DEF Occurrences
  <2>a. \/ occurrences' = occurrences
        \/ occurrences' = Append(occurrences, [prefix |-> <<n>>, piece |-> p])
    BY Zenon, <1>1 DEF Add
  <2>b. occurrences \in Seq(Occurrences)
    BY DEF TypeOK
  <2>2. occurrences' \in Seq(Occurrences)
    BY <2>1, <2>a, <2>b
  <2>3. instances' \in [Name -> Piece \cup {Nothing}]
    BY <1>1 DEF Add, TypeOK
  <2>4. raised' \in BOOLEAN
    BY <1>1 DEF Add
  <2> QED BY <1>1, <2>2, <2>3, <2>4 DEF Add, TypeOK
<1>2. CASE Find
  BY <1>2, VisibleTyped DEF Find, TypeOK, lower, builder
<1>3. ASSUME NEW c \in held, NEW p \in Piece, NEW n \in Name, Insert(c, p, n) PROVE TypeOK'
  <2>1. c \in Candidates
    BY DEF TypeOK
  <2>2. [prefix |-> Append(c.prefix, n), piece |-> p] \in Occurrences
    BY <2>1 DEF Candidates, Occurrences
  <2>3. Insertion(c, p, n) \in Insertions
    BY <2>1, OwnerIsAName DEF Candidates, Insertion, Insertions
  <2>4. TargetOf(c) \subseteq Nat \X Nat /\ Filled(c) \subseteq Nat \X Nat
    BY TargetsExist, IdsTyped DEF Filled
  <2>5. EdgesWith(c) \in Seq(LowerEdges)
    <3>1. CASE TargetOf(c) = {}
      BY <3>1 DEF EdgesWith, TypeOK
    <3>2. CASE TargetOf(c) # {}
      <4>1. (CHOOSE t \in TargetOf(c) : TRUE) \in Nat \X Nat
        BY <3>2, <2>4
      <4>2. Count + 1 \in Nat
        BY DEF Count, TypeOK
      <4>3. [target |-> CHOOSE t \in TargetOf(c) : TRUE, source |-> Count + 1] \in LowerEdges
        BY <4>1, <4>2 DEF LowerEdges
      <4> QED BY <3>2, <4>3 DEF EdgesWith, TypeOK
    <3> QED BY <3>1, <3>2
  <2>6. deferred' \in Seq(Insertions) /\ occurrences' \in Seq(Occurrences)
    BY <1>3, <2>2, <2>3 DEF Insert, InsertEffects, DeferredWith, TypeOK
  <2> QED BY <1>3, <2>4, <2>5, <2>6 DEF Insert, InsertEffects, TypeOK, builder
<1>4. ASSUME NEW c \in held, NEW v \in Word, Bind(c, v) PROVE TypeOK'
  <2>1. c \in Candidates /\ c.kind \in BindKinds
    BY <1>4 DEF TypeOK, Bind
  <2>2. Binding(c, v) \in Bindings
    BY <2>1, OwnerIsAName DEF Candidates, Binding, Bindings
  <2>3. TargetOf(c) \subseteq Nat \X Nat /\ Filled(c) \subseteq Nat \X Nat
    BY TargetsExist, IdsTyped DEF Filled
  <2>4. OverlaysWith(c, v) \in Seq(Overlays)
    <3>1. CASE TargetOf(c) = {}
      BY <3>1 DEF OverlaysWith, TypeOK
    <3>2. CASE TargetOf(c) # {}
      <4>1. (CHOOSE t \in TargetOf(c) : TRUE) \in Nat \X Nat
        BY <3>2, <2>3
      <4>2. c.label \in Word
        BY <2>1 DEF Candidates
      <4> DEFINE label == IF c.kind = "external" THEN c.label ELSE v
      <4>3. [kind |-> c.kind, target |-> CHOOSE t \in TargetOf(c) : TRUE, label |-> label,
             value |-> v] \in Overlays
        BY <2>1, <4>1, <4>2 DEF Overlays
      <4> QED BY <3>2, <4>3 DEF OverlaysWith, TypeOK
    <3> QED BY <3>1, <3>2
  <2>5. RenamesWith(c, v) \subseteq Renamings
    <3>1. \A t \in TargetOf(c) :
            [at |-> t[1], from |-> c.label, to |-> v] \in Renamings
      BY <2>1, <2>3 DEF Candidates, Renamings
    <3> QED BY <3>1 DEF RenamesWith, TypeOK
  <2>6. raised' \in BOOLEAN
    BY <1>4 DEF Bind, Collides
  <2> QED BY <1>4, <2>2, <2>3, <2>4, <2>5, <2>6 DEF Bind, BindEffects, TypeOK, builder
<1>5. CASE StartBuild
  <2>1. deferred' \in Seq(Insertions) /\ draining' \in Seq(Insertions)
    BY <1>5 DEF StartBuild, TypeOK
  <2> QED BY <1>5, <2>1 DEF StartBuild, TypeOK, lower, builder
<1>6. CASE DrainEdge
  <2>1. Head(draining) \in Insertions /\ Tail(draining) \in Seq(Insertions)
    BY <1>6 DEF DrainEdge, TypeOK
  <2>2. Registered(Head(draining)) \in [Name -> Piece \cup {Nothing}]
    BY <2>1 DEF Registered, Insertions, TypeOK
  <2>3. CASE Abort
    <3>1. draining' \in Seq(Insertions) /\ instances' \in [Name -> Piece \cup {Nothing}]
      BY <1>6, <2>2, <2>3 DEF DrainEdge, Abort, TypeOK
    <3> QED BY <2>3, <3>1 DEF Abort, TypeOK, lower
  <2>4. CASE ~Abort
    <3>1. /\ instances' = Registered(Head(draining))
          /\ links' = Append(links, Head(draining)) /\ draining' = Tail(draining)
          /\ UNCHANGED <<lower, held, deferred, queued, bound, stage, flushing, raised>>
      BY Zenon, <1>6, <2>4 DEF DrainEdge
    <3>2. /\ draining' \in Seq(Insertions) /\ links' \in Seq(Insertions)
          /\ instances' \in [Name -> Piece \cup {Nothing}]
      BY <2>1, <2>2, <3>1 DEF TypeOK
    <3> QED BY <3>1, <3>2 DEF TypeOK, lower
  <2> QED BY <2>3, <2>4
<1>7. CASE TakeIdentifiers \/ TakeExternals
  BY <1>7 DEF TakeIdentifiers, TakeExternals, Take, TypeOK, lower, builder, BindKinds
<1>8. CASE BindOwner
  <2>1. CASE Abort
    <3>1. draining' \in Seq(Insertions)
      BY <2>1 DEF Abort
    <3>2. UNCHANGED instances
      BY Zenon, <1>8 DEF BindOwner
    <3> QED BY <2>1, <3>1, <3>2 DEF Abort, TypeOK, lower
  <2>2. CASE ~Abort
    <3>1. /\ bound' \subseteq bound \cup flushing /\ flushing' \subseteq flushing
          /\ UNCHANGED <<lower, held, deferred, queued, instances, links, stage, draining, raised>>
      BY <1>8, <2>2 DEF BindOwner
    <3> QED BY <3>1 DEF TypeOK, lower
  <2> QED BY <2>1, <2>2
<1>9. CASE EndBuild
  BY <1>9 DEF EndBuild, TypeOK, lower, builder
<1>10. CASE UNCHANGED vars
  BY <1>10 DEF vars, lower, builder, TypeOK
<1> QED BY <1>1, <1>2, <1>3, <1>4, <1>5, <1>6, <1>7, <1>8, <1>9, <1>10 DEF Next, Build, Flush

(* Every variable has its type, whatever the client does.                   *)
THEOREM TypeCorrect == Spec => []TypeOK
BY InitTyped, StepTyped, PTL DEF Spec

-----------------------------------------------------------------------------
LEMMA IdsGrow ==
    ASSUME TypeOK, NEW o \in Occurrences, occurrences' = Append(occurrences, o)
    PROVE  /\ Count' = Count + 1 /\ Count \in Nat
           /\ \A i \in 1..Count : occurrences'[i] = occurrences[i]
           /\ occurrences'[Count + 1] = o
           /\ Ids \subseteq Ids'
<1>1. /\ Count' = Count + 1 /\ Count \in Nat
      /\ \A i \in 1..Count : occurrences'[i] = occurrences[i]
      /\ occurrences'[Count + 1] = o
  BY DEF TypeOK, Count
<1>2. ASSUME NEW id \in Ids PROVE id \in Ids'
  <2>1. PICK i \in 1..Count : id \in {i} \X DOMAIN Records[occurrences[i].piece]
    BY Zenon DEF Ids
  <2>2. id \in {i} \X DOMAIN Records[occurrences'[i].piece]
    BY <1>1, <2>1
  <2>3. i \in 1..Count + 1
    BY <1>1
  <2>4. i \in 1..Count'
    BY <1>1, <2>3
  <2> QED BY Zenon, <2>2, <2>4 DEF Ids
<1> QED BY <1>1, <1>2

(* An insertion adds at most one edge, from an older record to itself.      *)
LEMMA EdgeAdded ==
    ASSUME TypeOK, LowerForest, NEW c \in held, NEW o \in Occurrences,
           occurrences' = Append(occurrences, o), edges' = EdgesWith(c)
    PROVE  LowerForest'
<1>1. CASE TargetOf(c) = {}
  <2>1. edges' = edges
    BY <1>1 DEF EdgesWith
  <2> QED BY <2>1, IdsGrow DEF LowerForest
<1>2. CASE TargetOf(c) # {}
  <2> DEFINE t == CHOOSE x \in TargetOf(c) : TRUE
             e == [target |-> t, source |-> Count + 1]
  <2>1. t \in TargetOf(c)
    BY <1>2
  <2>2. t \in Ids /\ t \in Nat \X Nat
    BY <2>1, TargetsExist, IdsTyped
  <2>3. t[1] \in 1..Count
    BY <2>2, IdsAre
  <2>4. e \in LowerEdges /\ edges \in Seq(LowerEdges) /\ edges' = Append(edges, e)
    <3>1. edges' = Append(edges, e)
      BY Zenon, <1>2 DEF EdgesWith
    <3>2. Count + 1 \in Nat
      BY IdsGrow
    <3> QED BY <2>2, <3>1, <3>2 DEF LowerEdges, TypeOK
  <2>5. /\ DOMAIN edges' = DOMAIN edges \cup {Len(edges) + 1}
        /\ \A j \in DOMAIN edges : j # Len(edges) + 1 /\ edges'[j] = edges[j]
        /\ edges'[Len(edges) + 1] = e
    BY <2>4
  <2>6. /\ e.target \in Ids' /\ e.source \in 1..Count' /\ e.target[1] < e.source
        /\ \A j \in DOMAIN edges : edges[j].source # e.source
    BY <2>2, <2>3, IdsGrow DEF LowerForest
  <2>7. \A j \in DOMAIN edges : edges[j].target \in Ids' /\ edges[j].source \in 1..Count'
    BY IdsGrow DEF LowerForest
  <2> HIDE DEF e
  <2> QED BY <2>5, <2>6, <2>7 DEF LowerForest
<1> QED BY <1>1, <1>2

(* For any client an edge of the lower state leads from a record that       *)
(* exists to a younger occurrence, and no occurrence is inserted twice: the *)
(* plan build_materialization_plan follows is a forest.                     *)
THEOREM LowerPlanIsForest == Spec => []LowerForest
<1>1. Init => LowerForest
  BY DEF Init, LowerForest
<1>2. TypeOK /\ LowerForest /\ [Next]_vars => LowerForest'
  <2> SUFFICES ASSUME TypeOK, LowerForest, [Next]_vars PROVE LowerForest'
    OBVIOUS
  <2>1. ASSUME NEW n \in Name, NEW p \in Piece, Add(n, p) PROVE LowerForest'
    <3>1. [prefix |-> <<n>>, piece |-> p] \in Occurrences
      BY DEF Occurrences
    <3>2. CASE UNCHANGED occurrences
      BY <2>1, <3>2 DEF Add, LowerForest, Ids, Count
    <3>3. CASE occurrences' = Append(occurrences, [prefix |-> <<n>>, piece |-> p])
      BY <2>1, <3>1, <3>3, IdsGrow DEF Add, LowerForest
    <3> QED BY <2>1, <3>2, <3>3 DEF Add
  <2>2. ASSUME NEW c \in held, NEW p \in Piece, NEW n \in Name, Insert(c, p, n)
        PROVE  LowerForest'
    <3>1. [prefix |-> Append(c.prefix, n), piece |-> p] \in Occurrences
      BY DEF TypeOK, Candidates, Occurrences
    <3> QED BY <2>2, <3>1, EdgeAdded DEF Insert, InsertEffects
  <2>3. CASE UNCHANGED <<occurrences, edges>>
    BY <2>3 DEF LowerForest, Ids, Count
  <2>4. (\E c \in held, v \in Word : Bind(c, v)) => UNCHANGED <<occurrences, edges>>
    BY DEF Bind, BindEffects
  <2>5. Find \/ StartBuild \/ DrainEdge \/ BindOwner => UNCHANGED lower
    BY Zenon DEF Find, StartBuild, DrainEdge, BindOwner, Abort
  <2>6. TakeIdentifiers \/ TakeExternals \/ EndBuild \/ UNCHANGED vars => UNCHANGED lower
    BY DEF TakeIdentifiers, TakeExternals, Take, EndBuild, vars
  <2> QED BY <2>1, <2>2, <2>3, <2>4, <2>5, <2>6 DEF Next, Build, Flush, lower
<1> QED BY <1>1, <1>2, TypeCorrect, PTL DEF Spec

-----------------------------------------------------------------------------
SlotsOnce(S) == \A q, r \in S : SameSlot(q, r) => q = r

(* Bindings of one slot are told apart by their values.                     *)
LEMMA SlotAndValue ==
    ASSUME NEW q \in Bindings, NEW r \in Bindings, SameSlot(q, r), q.value = r.value
    PROVE  q = r
BY DEF Bindings, SameSlot

(* What is queued after a binding is as unique as before: one that would    *)
(* collide is dropped, or is there already.                                 *)
LEMMA QueuedOnce ==
    ASSUME queued \subseteq Bindings, SlotsOnce(queued), NEW q \in Bindings, ~Collides(q)
    PROVE  SlotsOnce(queued \cup {q})
<1>1. ASSUME NEW r \in queued, SameSlot(q, r) \/ SameSlot(r, q) PROVE q = r
  <2>1. SameSlot(q, r)
    BY <1>1 DEF SameSlot
  <2> QED BY <2>1, SlotAndValue DEF Collides
<1> QED BY <1>1 DEF SlotsOnce

(* A group the builder accepts binds no name it has bound before.           *)
LEMMA AcceptedOnce ==
    ASSUME bound \subseteq Bindings, flushing \subseteq Bindings,
           SlotsOnce(bound), SlotsOnce(flushing),
           NEW group \in SUBSET flushing, \A q \in group : Accepts(q)
    PROVE  SlotsOnce(bound \cup group)
<1>1. ASSUME NEW q \in group, NEW b \in bound, SameSlot(q, b) PROVE q = b
  <2>1. b \in {x \in bound : SameSlot(q, x)}
    BY <1>1
  <2>2. b.value = q.value
    BY <2>1 DEF Accepts
  <2> QED BY <1>1, <2>2, SlotAndValue
<1>2. \A q, b : SameSlot(b, q) => SameSlot(q, b)
  BY DEF SameSlot
<1> QED BY <1>1, <1>2 DEF SlotsOnce

(* Whatever is queued between and during builds, also by builds that raise, *)
(* _apply_external_value and _apply_identifier_name never lead the builder  *)
(* to bind a name of an instance twice.                                     *)
THEOREM NamesBoundOnce == Spec => []BoundOnce
<1> DEFINE Once == SlotsOnce(queued) /\ SlotsOnce(flushing) /\ SlotsOnce(bound)
<1>1. Init => Once
  BY DEF Init, SlotsOnce
<1>2. TypeOK /\ Once /\ [Next]_vars => Once'
  <2> SUFFICES ASSUME TypeOK, Once, [Next]_vars PROVE Once'
    OBVIOUS
  <2>t. queued \subseteq Bindings /\ flushing \subseteq Bindings /\ bound \subseteq Bindings
    BY DEF TypeOK
  <2>1. ASSUME NEW c \in held, NEW v \in Word, Bind(c, v) PROVE Once'
    <3>1. c \in Candidates /\ c.kind \in BindKinds
      BY <2>1 DEF TypeOK, Bind
    <3>2. Binding(c, v) \in Bindings
      BY <3>1, OwnerIsAName DEF Candidates, Binding, Bindings
    <3>3. SlotsOnce(queued')
      BY <2>1, <2>t, <3>2, QueuedOnce DEF Bind, BindEffects
    <3> QED BY <2>1, <3>3 DEF Bind, BindEffects, builder
  <2>2. CASE TakeIdentifiers \/ TakeExternals
    <3>1. queued' \subseteq queued /\ flushing' \subseteq queued /\ UNCHANGED bound
      BY <2>2 DEF TakeIdentifiers, TakeExternals, Take, builder
    <3> QED BY <3>1 DEF SlotsOnce
  <2>3. CASE BindOwner
    <3>1. CASE Abort
      BY <3>1 DEF Abort, SlotsOnce
    <3>2. CASE ~Abort
      <4>1. PICK group \in SUBSET flushing :
              /\ \A q \in group : Accepts(q)
              /\ bound' = bound \cup group /\ flushing' = flushing \ group /\ UNCHANGED queued
        BY <2>3, <3>2 DEF BindOwner
      <4>2. SlotsOnce(bound')
        BY <2>t, <4>1, AcceptedOnce
      <4> QED BY <4>1, <4>2 DEF SlotsOnce
    <3> QED BY <3>1, <3>2
  <2>4. CASE DrainEdge
    <3>1. UNCHANGED <<queued, bound>> /\ flushing' \in {flushing, {}}
      BY <2>4 DEF DrainEdge, Abort
    <3> QED BY <3>1 DEF SlotsOnce
  <2>5. CASE UNCHANGED <<queued, flushing, bound>>
    BY <2>5
  <2>6. (\E n \in Name, p \in Piece : Add(n, p)) \/ Find \/ StartBuild \/ EndBuild
        => UNCHANGED <<queued, flushing, bound>>
    BY DEF Add, Find, StartBuild, EndBuild, builder
  <2>7. (\E c \in held, p \in Piece, n \in Name : Insert(c, p, n))
        => UNCHANGED <<queued, flushing, bound>>
    BY DEF Insert, InsertEffects, builder
  <2>8. UNCHANGED vars => UNCHANGED <<queued, flushing, bound>>
    BY DEF vars, builder
  <2> HIDE DEF Once
  <2> QED BY <2>1, <2>2, <2>3, <2>4, <2>5, <2>6, <2>7, <2>8 DEF Next, Build, Flush
<1>3. Once => BoundOnce
  BY DEF SlotsOnce, BoundOnce
<1> QED BY <1>1, <1>2, <1>3, TypeCorrect, PTL DEF Spec

-----------------------------------------------------------------------------
(* What a build has not taken, or has drained, is empty in the stages where *)
(* the code has no such list.                                               *)
QueuesFollowStages ==
    /\ stage # "insertions" => draining = <<>>
    /\ stage # "idle" => deferred = <<>>

LEMMA StagesStep == TypeOK /\ QueuesFollowStages /\ [Next]_vars => QueuesFollowStages'
<1> SUFFICES ASSUME TypeOK, QueuesFollowStages, [Next]_vars PROVE QueuesFollowStages'
  OBVIOUS
<1>1. ASSUME NEW n \in Name, NEW p \in Piece, Add(n, p) PROVE QueuesFollowStages'
  BY <1>1 DEF Add, QueuesFollowStages
<1>2. ASSUME NEW c \in held, NEW p \in Piece, NEW n \in Name, Insert(c, p, n)
      PROVE  QueuesFollowStages'
  BY <1>2 DEF Insert, InsertEffects, QueuesFollowStages
<1>3. ASSUME NEW c \in held, NEW v \in Word, Bind(c, v) PROVE QueuesFollowStages'
  BY <1>3 DEF Bind, BindEffects, QueuesFollowStages
<1>4. CASE Find \/ StartBuild \/ TakeIdentifiers \/ TakeExternals \/ EndBuild
  BY <1>4 DEF Find, StartBuild, TakeIdentifiers, TakeExternals, Take, EndBuild,
              QueuesFollowStages, BindKinds
<1>5. CASE Abort
  <2>1. stage # "idle" \/ deferred' = deferred
    BY <1>5 DEF Abort
  <2> QED BY <1>5 DEF Abort, QueuesFollowStages
<1>6. CASE (DrainEdge \/ BindOwner) /\ ~Abort
  <2>1. UNCHANGED <<deferred, stage>>
    BY Zenon, <1>6 DEF DrainEdge, BindOwner
  <2>2. stage = "insertions" \/ UNCHANGED draining
    BY Zenon, <1>6 DEF DrainEdge, BindOwner
  <2> QED BY <2>1, <2>2 DEF QueuesFollowStages
<1>7. CASE UNCHANGED vars
  BY <1>7 DEF vars, QueuesFollowStages
<1> QED BY <1>1, <1>2, <1>3, <1>4, <1>5, <1>6, <1>7 DEF Next, Build, Flush

Outlast == /\ Count \in Nat /\ Count' \in Nat /\ Count <= Count'
           /\ \A i \in 1..Count : occurrences'[i] = occurrences[i]

(* While the builder's list keeps what it has, or loses its end, it follows *)
(* the scope.                                                               *)
LEMMA FollowsKept ==
    ASSUME BuilderFollowsScope, Outlast, DOMAIN Known' \subseteq DOMAIN Known,
           \A i \in DOMAIN Known' : Known'[i] = Known[i]
    PROVE  BuilderFollowsScope'
<1>1. PICK at \in [DOMAIN Known -> 1..Count] :
        /\ \A i, j \in DOMAIN Known : i < j => at[i] < at[j]
        /\ \A i \in DOMAIN Known :
              Inserted(occurrences[at[i]]) /\ SitesOfBuilder[i] = SiteOf(occurrences[at[i]])
  BY DEF BuilderFollowsScope
<1> DEFINE now == [i \in DOMAIN Known' |-> at[i]]
<1>2. now \in [DOMAIN Known' -> 1..Count']
  BY <1>1 DEF Outlast
<1>3. \A i, j \in DOMAIN Known' : i < j => now[i] < now[j]
  BY <1>1
<1>4. \A i \in DOMAIN Known' : SitesOfBuilder'[i] = SitesOfBuilder[i]
  BY DEF SitesOfBuilder
<1>5. \A i \in DOMAIN Known' : occurrences'[now[i]] = occurrences[at[i]]
  BY <1>1 DEF Outlast
<1>6. \A i \in DOMAIN Known' :
        Inserted(occurrences'[now[i]]) /\ SitesOfBuilder'[i] = SiteOf(occurrences'[now[i]])
  BY <1>1, <1>4, <1>5
<1> QED BY <1>2, <1>3, <1>6 DEF BuilderFollowsScope

LEMMA AppendTyped ==
    ASSUME NEW S, NEW s \in Seq(S), NEW e \in S
    PROVE  Append(s, e) \in Seq(S) \ {<<>>}
<1>1. Append(s, e) \in Seq(S) /\ Len(Append(s, e)) = Len(s) + 1 /\ Len(s) \in Nat
  OBVIOUS
<1>2. Append(s, e) # <<>>
  BY <1>1
<1> QED BY <1>1, <1>2

(* An insertion is the last of both.                                        *)
LEMMA FollowsInsertion ==
    ASSUME TypeOK, BuilderFollowsScope, NEW c \in Candidates, NEW p \in Piece, NEW n \in Name,
           occurrences' = Append(occurrences, [prefix |-> Append(c.prefix, n), piece |-> p]),
           Known \in Seq(Insertions), Insertion(c, p, n) \in Insertions,
           Known' = Append(Known, Insertion(c, p, n))
    PROVE  BuilderFollowsScope'
<1> DEFINE o == [prefix |-> Append(c.prefix, n), piece |-> p]
           e == Insertion(c, p, n)
           last == Len(Known) + 1
<1>1. PICK at \in [DOMAIN Known -> 1..Count] :
        /\ \A i, j \in DOMAIN Known : i < j => at[i] < at[j]
        /\ \A i \in DOMAIN Known :
              Inserted(occurrences[at[i]]) /\ SitesOfBuilder[i] = SiteOf(occurrences[at[i]])
  BY DEF BuilderFollowsScope
<1>2. c.prefix \in Seq(Name) \ {<<>>}
  BY DEF Candidates
<1>3. o \in Occurrences
  <2>1. Append(c.prefix, n) \in Seq(Name) \ {<<>>}
    BY <1>2, AppendTyped
  <2> QED BY <2>1 DEF Occurrences
<1>4. /\ Count' = Count + 1 /\ Count \in Nat
      /\ \A i \in 1..Count : occurrences'[i] = occurrences[i]
      /\ occurrences'[Count + 1] = o
  BY <1>3, IdsGrow
<1>5. /\ Len(Append(c.prefix, n)) = Len(c.prefix) + 1
      /\ Append(c.prefix, n)[Len(c.prefix)] = c.prefix[Len(c.prefix)]
      /\ Append(c.prefix, n)[Len(c.prefix) + 1] = n
      /\ Len(c.prefix) \in Nat /\ Len(c.prefix) > 0
  BY <1>2
<1>6. Inserted(o) /\ SiteOf(o) = Site(e.owner, e.source, e.piece)
  <2>1. Len(c.prefix) + 1 - 1 = Len(c.prefix) /\ Len(c.prefix) + 1 > 1
    BY <1>5
  <2> QED BY <1>5, <2>1 DEF Inserted, SiteOf, Owner, Insertion
<1>7. /\ DOMAIN Known' = DOMAIN Known \cup {last} /\ last \notin DOMAIN Known
      /\ Known'[last] = e
      /\ \A i \in DOMAIN Known : i \in Nat /\ i < last /\ Known'[i] = Known[i]
  <2>1. e \in Insertions
    OBVIOUS
  <2> HIDE DEF e
  <2>2. Known' = Append(Known, e)
    BY DEF e
  <2> QED BY <2>1, <2>2
<1> DEFINE now == [i \in DOMAIN Known' |-> IF i \in DOMAIN Known THEN at[i] ELSE Count + 1]
<1>8. now \in [DOMAIN Known' -> 1..Count']
  BY <1>1, <1>4, <1>7
<1>9. \A i, j \in DOMAIN Known' : i < j => now[i] < now[j]
  <2> SUFFICES ASSUME NEW i \in DOMAIN Known', NEW j \in DOMAIN Known', i < j
               PROVE  now[i] < now[j]
    OBVIOUS
  <2>1. i \in DOMAIN Known
    BY <1>7
  <2>2. at[i] \in 1..Count
    BY <1>1, <2>1
  <2> QED BY <1>1, <1>4, <1>7, <2>1, <2>2
<1>10. \A i \in DOMAIN Known : SitesOfBuilder'[i] = SitesOfBuilder[i]
  BY <1>7 DEF SitesOfBuilder
<1>11. SitesOfBuilder'[last] = Site(e.owner, e.source, e.piece)
  BY <1>7 DEF SitesOfBuilder
<1>12. ASSUME NEW i \in DOMAIN Known'
       PROVE  Inserted(occurrences'[now[i]]) /\ SitesOfBuilder'[i] = SiteOf(occurrences'[now[i]])
  <2>1. CASE i \in DOMAIN Known
    <3>1. now[i] = at[i] /\ occurrences'[at[i]] = occurrences[at[i]]
      BY <1>1, <1>4, <2>1
    <3> QED BY <1>1, <1>10, <2>1, <3>1
  <2>2. CASE i = last
    <3>1. now[i] = Count + 1
      BY <1>7, <2>2
    <3> HIDE DEF o, e, now
    <3> QED BY <1>4, <1>6, <1>11, <2>2, <3>1
  <2> QED BY <1>7, <2>1, <2>2
<1> HIDE DEF now
<1> QED BY <1>8, <1>9, <1>12 DEF BuilderFollowsScope

(* Draining moves the seam between what the builder has and what it is      *)
(* being given.                                                             *)
LEMMA SeamMoves ==
    ASSUME NEW S, NEW a \in Seq(S), NEW b \in Seq(S), b # <<>>
    PROVE  Append(a, Head(b)) \o Tail(b) = a \o b
OBVIOUS

LEMMA AppendToSecond ==
    ASSUME NEW S, NEW a \in Seq(S), NEW b \in Seq(S), NEW e \in S
    PROVE  a \o Append(b, e) = Append(a \o b, e)
OBVIOUS

LEMMA FollowsStep ==
    TypeOK /\ QueuesFollowStages /\ BuilderFollowsScope /\ [Next]_vars => BuilderFollowsScope'
<1> SUFFICES ASSUME TypeOK, QueuesFollowStages, BuilderFollowsScope, [Next]_vars
             PROVE  BuilderFollowsScope'
  OBVIOUS
<1>t. /\ links \in Seq(Insertions) /\ draining \in Seq(Insertions)
      /\ deferred \in Seq(Insertions) /\ occurrences \in Seq(Occurrences)
  BY DEF TypeOK
<1>k. Known \in Seq(Insertions)
  BY <1>t DEF Known
<1>o. occurrences' = occurrences => Outlast
  BY <1>t DEF Outlast, Count
<1>1. ASSUME NEW n \in Name, NEW p \in Piece, Add(n, p) PROVE BuilderFollowsScope'
  <2>1. [prefix |-> <<n>>, piece |-> p] \in Occurrences
    BY DEF Occurrences
  <2>2. \/ occurrences' = occurrences
        \/ occurrences' = Append(occurrences, [prefix |-> <<n>>, piece |-> p])
    BY Zenon, <1>1 DEF Add
  <2>3. Outlast
    BY <1>o, <2>1, <2>2, IdsGrow DEF Outlast
  <2>4. Known' = Known
    BY <1>1 DEF Add, Known
  <2> QED BY <2>3, <2>4, FollowsKept
<1>2. ASSUME NEW c \in held, NEW p \in Piece, NEW n \in Name, Insert(c, p, n)
      PROVE  BuilderFollowsScope'
  <2>1. c \in Candidates
    BY DEF TypeOK
  <2>2. Insertion(c, p, n) \in Insertions
    BY <2>1, OwnerIsAName DEF Candidates, Insertion, Insertions
  <2>3. draining = <<>> /\ draining' = <<>> /\ links' = links
        /\ deferred' = Append(deferred, Insertion(c, p, n))
    BY <1>2 DEF Insert, InsertEffects, DeferredWith, QueuesFollowStages, builder
  <2>4. Known' = Append(Known, Insertion(c, p, n))
    <3>1. Known = links \o deferred /\ Known' = links \o deferred'
      BY <1>t, <2>2, <2>3 DEF Known
    <3> QED BY <1>t, <2>2, <2>3, <3>1, AppendToSecond
  <2>5. occurrences' = Append(occurrences, [prefix |-> Append(c.prefix, n), piece |-> p])
    BY <1>2 DEF Insert, InsertEffects
  <2> QED BY <1>k, <2>1, <2>2, <2>4, <2>5, FollowsInsertion
<1>3. CASE StartBuild
  <2>1. /\ draining = <<>> /\ draining' = deferred /\ deferred' = <<>> /\ links' = links
        /\ occurrences' = occurrences
    BY <1>3 DEF StartBuild, QueuesFollowStages, builder, lower
  <2>2. Known' = Known
    BY <1>t, <2>1 DEF Known
  <2> QED BY <1>o, <2>1, <2>2, FollowsKept
<1>4. CASE (DrainEdge \/ BindOwner) /\ Abort
  <2>1. /\ deferred = <<>> /\ deferred' = <<>> /\ draining' = <<>> /\ links' = links
        /\ occurrences' = occurrences
    BY <1>4 DEF DrainEdge, BindOwner, Abort, QueuesFollowStages, lower, BindKinds
  <2>2. Known = links \o draining /\ Known' = links
    BY <1>t, <2>1 DEF Known
  <2>3. DOMAIN Known' \subseteq DOMAIN Known /\ \A i \in DOMAIN Known' : Known'[i] = Known[i]
    BY <1>t, <2>2
  <2> QED BY <1>o, <2>1, <2>3, FollowsKept
<1>5. CASE DrainEdge /\ ~Abort
  <2>1. /\ draining # <<>> /\ links' = Append(links, Head(draining)) /\ draining' = Tail(draining)
        /\ UNCHANGED <<deferred, lower>>
    BY Zenon, <1>5 DEF DrainEdge
  <2>2. Append(links, Head(draining)) \o Tail(draining) = links \o draining
    BY <1>t, <2>1, SeamMoves
  <2>3. Known' = Known
    BY <2>1, <2>2 DEF Known
  <2> QED BY <1>o, <2>1, <2>3, FollowsKept DEF lower
<1>6. CASE UNCHANGED <<links, draining, deferred, occurrences>>
  <2>1. Known' = Known
    BY <1>6 DEF Known
  <2> QED BY <1>6, <1>o, <2>1, FollowsKept
<1>7. (\E c \in held, v \in Word : Bind(c, v)) => UNCHANGED <<links, draining, deferred, occurrences>>
  BY DEF Bind, BindEffects, builder
<1>8. BindOwner /\ ~Abort => UNCHANGED <<links, draining, deferred, lower>>
  BY Zenon DEF BindOwner
<1>9. Find \/ TakeIdentifiers \/ TakeExternals \/ EndBuild \/ UNCHANGED vars
      => UNCHANGED <<links, draining, deferred, occurrences>>
  BY DEF Find, TakeIdentifiers, TakeExternals, Take, EndBuild, vars, builder, lower
<1> QED BY <1>1, <1>2, <1>3, <1>4, <1>5, <1>6, <1>7, <1>8, <1>9 DEF Next, Build, Flush, lower

(* For any client: the insertions the builder has, is being given by a      *)
(* running build, or will be given, are insertions of the scope, none twice *)
(* and none out of order, also after builds that raised half way and lost   *)
(* some of them.                                                            *)
THEOREM BuilderFollows == Spec => []BuilderFollowsScope
<1>1. Init => QueuesFollowStages /\ BuilderFollowsScope
  <2> SUFFICES ASSUME Init PROVE QueuesFollowStages /\ BuilderFollowsScope
    OBVIOUS
  <2>1. Known = <<>> /\ DOMAIN Known = {}
    BY DEF Init, Known
  <2>2. [i \in {} |-> 1] \in [DOMAIN Known -> 1..Count]
    BY <2>1
  <2> QED BY <2>1, <2>2 DEF Init, QueuesFollowStages, BuilderFollowsScope
<1> QED BY <1>1, StagesStep, FollowsStep, TypeCorrect, PTL DEF Spec

-----------------------------------------------------------------------------
(* The native state, the mirror and the builder.                            *)

-----------------------------------------------------------------------------
(* A sound assembly.                                                        *)
Marker(placed, id) == Records[placed[id[1]].piece][id[2]]
IsId(placed, id) ==
    /\ id \in Nat \X Nat /\ id[1] \in 1 .. Len(placed)
    /\ id[2] \in DOMAIN Records[placed[id[1]].piece]

NamesOnce(placed) ==
    \A i, j \in 1 .. Len(placed) : Owner(placed[i].prefix) = Owner(placed[j].prefix) => i = j

OneRoot(placed, inserted) ==
    /\ placed = <<>> => inserted = <<>>
    /\ placed # <<>> =>
          /\ Len(placed) = Len(inserted) + 1
          /\ placed[1].prefix = <<Owner(placed[1].prefix)>>

EdgeSound(placed, inserted, j) ==
    LET t == inserted[j].target
        prefix == placed[j + 1].prefix
    IN  /\ inserted[j] = [target |-> t, source |-> j + 1]
        /\ IsId(placed, t) /\ t[1] <= j /\ Marker(placed, t).kind \in HoleKinds
        /\ prefix = Append(placed[t[1]].prefix, Owner(prefix))

HolesOnce(placed, inserted) ==
    \A j, k \in DOMAIN inserted :
        inserted[j].target = inserted[k].target /\ j # k =>
            Marker(placed, inserted[j].target).kind = "block"

BindingSound(placed, bindings, j) ==
    LET t == bindings[j].target
    IN  /\ IsId(placed, t) /\ Marker(placed, t).kind \in BindKinds
        /\ bindings[j].kind = Marker(placed, t).kind
        /\ bindings[j].kind = "external" => bindings[j].label = Marker(placed, t).label

DemandsOnce(placed, bindings) ==
    \A j, k \in DOMAIN bindings :
        /\ bindings[j].target[1] = bindings[k].target[1]
        /\ Marker(placed, bindings[j].target) = Marker(placed, bindings[k].target)
        => j = k

(* Where a piece demands one word as a value and as an identifier, the      *)
(* value was bound before: the client's ValueFirst, as it was at binding n. *)
Twin(placed, id) == [kind |-> "external", label |-> Marker(placed, id).label]
HasTwin(placed, id) ==
    /\ Marker(placed, id).kind = "identifier"
    /\ \E k \in DOMAIN Records[placed[id[1]].piece] :
          Records[placed[id[1]].piece][k] = Twin(placed, id)
TwinTold(placed, bindings, id, n) ==
    HasTwin(placed, id) =>
        \E j \in DOMAIN bindings :
            /\ j < n /\ bindings[j].target[1] = id[1]
            /\ Marker(placed, bindings[j].target) = Twin(placed, id)
ValuesFirst(placed, bindings) ==
    \A j \in DOMAIN bindings : TwinTold(placed, bindings, bindings[j].target, j)

FilledBy(placed, inserted, bindings) ==
    {inserted[j].target : j \in {k \in DOMAIN inserted :
                                    Marker(placed, inserted[k].target).kind # "block"}}
        \cup {bindings[j].target : j \in DOMAIN bindings}

Sound(placed, inserted, bindings, filled) ==
    /\ placed \in Seq(Occurrences) /\ inserted \in Seq(LowerEdges)
    /\ NamesOnce(placed) /\ OneRoot(placed, inserted)
    /\ \A j \in DOMAIN inserted : EdgeSound(placed, inserted, j)
    /\ HolesOnce(placed, inserted)
    /\ \A j \in DOMAIN bindings : BindingSound(placed, bindings, j)
    /\ DemandsOnce(placed, bindings)
    /\ ValuesFirst(placed, bindings)
    /\ filled = FilledBy(placed, inserted, bindings)

-----------------------------------------------------------------------------
(* The mirror and its renaming.                                             *)
Told(j) == [kind |-> overlays[j].kind, owner |-> Owner(occurrences[overlays[j].target[1]].prefix),
            label |-> RecordAt(overlays[j].target).label, value |-> overlays[j].value]

MirrorSound ==
    /\ Sound(occurrences, edges, overlays, satisfied)
    /\ overlays \in Seq(Overlays)
    /\ \A j \in DOMAIN overlays :
          overlays[j].kind = "identifier" => overlays[j].label = overlays[j].value
    /\ renames = {[at |-> overlays[j].target[1], from |-> RecordAt(overlays[j].target).label,
                   to |-> overlays[j].value]
                     : j \in {k \in DOMAIN overlays : overlays[k].kind = "identifier"}}

(* The builder knows the mirror's insertions and bindings.                  *)
BuilderKnows ==
    /\ deferred \in Seq(Insertions) /\ draining \in Seq(Insertions) /\ links \in Seq(Insertions)
    /\ Len(Known) = Len(edges)
    /\ \A i \in DOMAIN Known :
          /\ Known[i].owner = Owner(occurrences[edges[i].target[1]].prefix)
          /\ Known[i].source = Owner(occurrences[i + 1].prefix)
          /\ Known[i].piece = occurrences[i + 1].piece

Registry ==
    /\ instances \in [Name -> Piece \cup {Nothing}]
    /\ \A i \in 1 .. Count :
          instances[Owner(occurrences[i].prefix)] =
             IF i <= Len(links) + 1 THEN occurrences[i].piece ELSE Nothing
    /\ \A n \in Name : instances[n] # Nothing =>
          \E i \in 1 .. Count : Owner(occurrences[i].prefix) = n

BindingsKnown ==
    /\ queued \cup flushing \cup bound = {Told(j) : j \in DOMAIN overlays}
    /\ queued \cap flushing = {} /\ queued \cap bound = {} /\ flushing \cap bound = {}

Stages ==
    /\ stage \in {"idle", "insertions", "batch", "replay"} \cup BindKinds
    /\ stage # "insertions" => draining = <<>>
    /\ stage \notin BindKinds => flushing = {}
    /\ stage \in {"insertions"} \cup BindKinds => deferred = <<>>
    /\ \A q \in flushing : q.kind = stage
    /\ raised = FALSE

Mirror == MirrorSound /\ BuilderKnows /\ Registry /\ BindingsKnown /\ Stages

-----------------------------------------------------------------------------
NOverlays == [kind : BindKinds, target : Nat \X Nat, label : Word]
InsertEvents == [kind : {"insert"}, target : Nat \X Nat, path : Seq(Name) \ {<<>>},
                 source : Nat, name : Name, piece : Piece]
BindEvents == [kind : BindKinds, target : Nat \X Nat, overlay : Nat, value : Word]

(* Which of the three states there is, and what is going on.                *)
Mode ==
    /\ engine \in {"python", "native", "mirrored"}
    /\ batched \in BOOLEAN /\ failed \in BOOLEAN
    /\ engine = "python" => ~batched
    /\ batched => Count > 0
    /\ failed => batched
    /\ stage \in {"batch", "replay"} => batched
    /\ stage = "replay" => engine = "mirrored"
    /\ engine = "native" /\ batched => stage \in {"idle", "batch"}
    /\ engine = "mirrored" /\ failed => stage = "idle"
    /\ stage \notin {"batch", "replay"} => events = <<>>

NativeSound ==
    /\ nOverlays \in Seq(NOverlays)
    /\ events \in Seq(InsertEvents \cup BindEvents)
    /\ Sound(nOccurrences, nEdges, nOverlays, nSatisfied)

InForce == (engine = "mirrored" /\ ~failed) \/ (engine = "native" /\ ~batched)

Insertings == {k \in DOMAIN events : events[k].kind = "insert"}
Bindeds == {k \in DOMAIN events : events[k].kind \in BindKinds}

(* What a pending event will do to the mirror.                              *)
InsertPending(e) ==
    /\ e.source \in Count + 1 .. Len(nOccurrences)
    /\ e.target = nEdges[e.source - 1].target
    /\ e.path = nOccurrences[e.source].prefix
    /\ e.piece = nOccurrences[e.source].piece
    /\ e.name = Owner(e.path)
BindPending(e) ==
    /\ e.overlay \in Len(overlays) + 1 .. Len(nOverlays)
    /\ e.kind = nOverlays[e.overlay].kind
    /\ e.target = nOverlays[e.overlay].target
    /\ e.kind = "identifier" => nOverlays[e.overlay].label = e.value

Pending ==
    /\ \A k \in Insertings : InsertPending(events[k])
    /\ \A k \in Bindeds : BindPending(events[k])
    /\ \A o \in Count + 1 .. Len(nOccurrences) : \E k \in Insertings : events[k].source = o
    /\ \A o \in Len(overlays) + 1 .. Len(nOverlays) : \E k \in Bindeds : events[k].overlay = o
    /\ \A j, k \in Insertings : j < k => events[j].source < events[k].source
    /\ \A j, k \in Bindeds : j < k => events[j].overlay < events[k].overlay
    /\ \A k \in DOMAIN events : events[k].target[1] > Count =>
          \E j \in Insertings : j < k /\ events[j].source = events[k].target[1]

Ahead ==
    /\ Count <= Len(nOccurrences) /\ Len(overlays) <= Len(nOverlays)
    /\ \A i \in 1 .. Count : nOccurrences[i] = occurrences[i]
    /\ \A j \in DOMAIN edges : nEdges[j] = edges[j]
    /\ \A j \in DOMAIN overlays :
          nOverlays[j] = [kind |-> overlays[j].kind, target |-> overlays[j].target,
                          label |-> overlays[j].label]
    /\ \A i \in 1 .. Count : occurrences[i].prefix \in DOMAIN handles
                               /\ handles[occurrences[i].prefix] = i

Lockstep == InForce => Ahead /\ Pending

-----------------------------------------------------------------------------
(* What was asked for is what an assembly holds.                            *)
AskedFor == [prefix : Seq(Name), at : Nat, name : Name, piece : Piece]
PiecesAre(pieces, placed, inserted) ==
    /\ pieces \in Seq(AskedFor) /\ Len(pieces) = Len(placed)
    /\ placed # <<>> => pieces[1] =
          [prefix |-> <<>>, at |-> 0, name |-> Owner(placed[1].prefix), piece |-> placed[1].piece]
    /\ \A j \in DOMAIN inserted : pieces[j + 1] =
          [prefix |-> placed[inserted[j].target[1]].prefix, at |-> inserted[j].target[2],
           name |-> Owner(placed[j + 1].prefix), piece |-> placed[j + 1].piece]

ValuesAre(values, kept, placed, bindings, told) ==
    /\ told \in [DOMAIN bindings -> Word]
    /\ values = {[prefix |-> placed[bindings[j].target[1]].prefix,
                  at |-> bindings[j].target[2], value |-> told[j]] : j \in DOMAIN bindings}
    /\ \A j \in DOMAIN bindings : bindings[j].kind = "identifier" => told[j] = bindings[j].label
    /\ \A j \in DOMAIN bindings :
          bindings[j].kind = "external" /\ j \in DOMAIN kept => kept[j] = told[j]

AskedPython ==
    engine = "python" =>
        /\ PiecesAre(askedPieces, occurrences, edges)
        /\ \E told : ValuesAre(askedValues, literals, occurrences, overlays, told)
        /\ \A j \in DOMAIN overlays : overlays[j].kind = "external" => j \in DOMAIN literals

AskedNative ==
    engine # "python" =>
        /\ PiecesAre(askedPieces, nOccurrences, nEdges)
        /\ \E told : /\ ValuesAre(askedValues, literals, nOccurrences, nOverlays, told)
                     /\ \A k \in Externals : told[events[k].overlay] = events[k].value
        /\ \A k \in Externals : events[k].overlay \in DOMAIN nOverlays
        /\ failed \/ \A j \in DOMAIN nOverlays : nOverlays[j].kind = "external" =>
              j \in DOMAIN literals \/ \E k \in Externals : events[k].overlay = j
        /\ DOMAIN literals \subseteq DOMAIN nOverlays

Core == Mirror /\ Mode /\ NativeSound /\ Lockstep
NInv == Core /\ AskedPython /\ AskedNative

-----------------------------------------------------------------------------
(* A sound assembly grows: by a root, an insertion, a binding.              *)
LEMMA RecordsAre ==
    ASSUME NEW p \in Piece
    PROVE  /\ Records[p] \in Seq(Record) /\ DOMAIN Records[p] \subseteq Nat
           /\ \A k \in DOMAIN Records[p] : Records[p][k] \in Record
BY PieceAssumption

LEMMA OccurrencesAre ==
    ASSUME NEW o \in Occurrences
    PROVE  o.prefix \in Seq(Name) \ {<<>>} /\ o.piece \in Piece
BY DEF Occurrences

LEMMA OccurrenceMade ==
    ASSUME NEW path \in Seq(Name) \ {<<>>}, NEW p \in Piece
    PROVE  [prefix |-> path, piece |-> p] \in Occurrences
BY DEF Occurrences

LEMMA OwnerAppended ==
    ASSUME NEW prefix \in Seq(Name) \ {<<>>}, NEW n \in Name
    PROVE  /\ Append(prefix, n) \in Seq(Name) \ {<<>>} /\ Owner(Append(prefix, n)) = n
           /\ Owner(prefix) \in Name /\ Len(Append(prefix, n)) = Len(prefix) + 1
           /\ Append(prefix, n)[Len(prefix)] = Owner(prefix)
BY AppendProperties DEF Owner

LEMMA Appended ==
    ASSUME NEW S, NEW s \in Seq(S), NEW x \in S
    PROVE  /\ Append(s, x) \in Seq(S) /\ Len(Append(s, x)) = Len(s) + 1
           /\ DOMAIN Append(s, x) = DOMAIN s \cup {Len(s) + 1} /\ Len(s) + 1 \notin DOMAIN s
           /\ \A j \in DOMAIN s : Append(s, x)[j] = s[j]
           /\ Append(s, x)[Len(s) + 1] = x
           /\ DOMAIN s = 1 .. Len(s) /\ Len(s) \in Nat
BY AppendProperties

LEMMA SoundEmpty == Sound(<<>>, <<>>, <<>>, {})
<1>1. /\ <<>> \in Seq(Occurrences) /\ <<>> \in Seq(LowerEdges) /\ DOMAIN <<>> = {} /\ Len(<<>>) = 0
  OBVIOUS
<1> QED BY <1>1 DEF Sound, NamesOnce, OneRoot, HolesOnce, DemandsOnce, ValuesFirst, FilledBy

LEMMA SoundRoot ==
    ASSUME NEW n \in Name, NEW p \in Piece
    PROVE  Sound(<<[prefix |-> << n >>, piece |-> p]>>, <<>>, <<>>, {})
<1> DEFINE o == [prefix |-> << n >>, piece |-> p]
<1>1. << n >> \in Seq(Name) \ {<<>>} /\ Owner(<< n >>) = n
  BY DEF Owner
<1>2. o \in Occurrences /\ o.prefix = << n >>
  BY <1>1 DEF Occurrences
<1> HIDE DEF o
<1>3. << o >> \in Seq(Occurrences) /\ Len(<< o >>) = 1 /\ << o >>[1] = o /\ << o >> # <<>>
  BY <1>2
<1>4. <<>> \in Seq(LowerEdges) /\ Len(<<>>) = 0 /\ DOMAIN <<>> = {}
  OBVIOUS
<1>5. FilledBy(<< o >>, <<>>, <<>>) = {}
  BY <1>4 DEF FilledBy
<1>6. NamesOnce(<< o >>)
  BY <1>3 DEF NamesOnce
<1>7. OneRoot(<< o >>, <<>>)
  BY <1>1, <1>2, <1>3, <1>4 DEF OneRoot
<1>8. Sound(<< o >>, <<>>, <<>>, {})
  BY <1>3, <1>4, <1>5, <1>6, <1>7 DEF Sound, HolesOnce, DemandsOnce, ValuesFirst
<1> QED BY <1>8 DEF o

LEMMA SoundInsert ==
    ASSUME NEW placed, NEW inserted, NEW bindings, NEW filled,
           Sound(placed, inserted, bindings, filled),
           NEW t, IsId(placed, t), Marker(placed, t).kind \in HoleKinds,
           NEW n \in Name, NEW p \in Piece,
           \A i \in 1 .. Len(placed) : Owner(placed[i].prefix) # n,
           \A j \in DOMAIN inserted : inserted[j].target = t => Marker(placed, t).kind = "block",
           NEW o, o = [prefix |-> Append(placed[t[1]].prefix, n), piece |-> p],
           NEW e, e = [target |-> t, source |-> Len(placed) + 1]
    PROVE  Sound(Append(placed, o), Append(inserted, e), bindings,
                 IF Marker(placed, t).kind = "block" THEN filled ELSE filled \cup {t})
<1> DEFINE P == Append(placed, o)
           E == Append(inserted, e)
<1>1. /\ placed \in Seq(Occurrences) /\ inserted \in Seq(LowerEdges)
      /\ Len(placed) \in Nat /\ Len(inserted) \in Nat /\ DOMAIN inserted = 1 .. Len(inserted)
      /\ t \in Nat \X Nat /\ t[1] \in 1 .. Len(placed)
      /\ placed # <<>> /\ Len(placed) = Len(inserted) + 1
  BY DEF Sound, IsId, OneRoot
<1>2. placed[t[1]].prefix \in Seq(Name) \ {<<>>}
  <2>1. placed[t[1]] \in Occurrences
    BY <1>1
  <2> QED BY <2>1, OccurrencesAre
<1>3. /\ o \in Occurrences /\ o.prefix = Append(placed[t[1]].prefix, n) /\ o.piece = p
      /\ Owner(o.prefix) = n
      /\ e \in LowerEdges /\ e.target = t
  <2> DEFINE path == Append(placed[t[1]].prefix, n)
  <2>1. path \in Seq(Name) \ {<<>>} /\ Owner(path) = n
    BY <1>2, OwnerAppended
  <2> HIDE DEF path
  <2>2. o = [prefix |-> path, piece |-> p]
    BY DEF path
  <2>3. o \in Occurrences
    BY <2>1, <2>2, OccurrenceMade
  <2>5. o.prefix = path /\ o.piece = p
    BY <2>2
  <2>4. e \in LowerEdges /\ e.target = t
    BY <1>1 DEF LowerEdges
  <2> QED BY <2>1, <2>3, <2>4, <2>5 DEF path
<1>4. /\ P \in Seq(Occurrences) /\ Len(P) = Len(placed) + 1 /\ P # <<>>
      /\ \A i \in 1 .. Len(placed) : P[i] = placed[i]
      /\ P[Len(placed) + 1] = o
  BY <1>1, <1>3, AppendProperties
<1>5. /\ E \in Seq(LowerEdges) /\ Len(E) = Len(inserted) + 1
      /\ \A j \in 1 .. Len(inserted) : E[j] = inserted[j]
      /\ E[Len(inserted) + 1] = e
  BY <1>1, <1>3, AppendProperties
<1>6. \A id : IsId(placed, id) =>
         IsId(P, id) /\ Marker(P, id) = Marker(placed, id) /\ P[id[1]] = placed[id[1]]
  <2> SUFFICES ASSUME NEW id, IsId(placed, id)
               PROVE  IsId(P, id) /\ Marker(P, id) = Marker(placed, id) /\ P[id[1]] = placed[id[1]]
    OBVIOUS
  <2>1. Len(placed) \in Nat /\ Len(P) \in Nat /\ Len(placed) <= Len(P)
    BY <1>1, <1>4
  <2>2. \A i \in 1 .. Len(placed) : P[i] = placed[i]
    BY <1>4
  <2> HIDE DEF P
  <2> QED BY <2>1, <2>2 DEF IsId, Marker
<1> HIDE DEF P, E
<1>7. /\ DOMAIN E = DOMAIN inserted \cup {Len(placed)} /\ Len(placed) \notin DOMAIN inserted
      /\ \A j \in DOMAIN inserted : E[j] = inserted[j]
      /\ E[Len(placed)] = e
  BY <1>1, <1>5
<1>8. NamesOnce(P)
  <2>1. \A i \in 1 .. Len(P) : i \in 1 .. Len(placed) \/ i = Len(placed) + 1
    BY <1>1, <1>4
  <2> QED BY <1>3, <1>4, <2>1 DEF Sound, NamesOnce
<1>9. OneRoot(P, E)
  BY <1>1, <1>4, <1>5 DEF Sound, OneRoot
<1>10. \A j \in DOMAIN E : EdgeSound(P, E, j)
  <2>1. ASSUME NEW j \in DOMAIN inserted PROVE EdgeSound(P, E, j)
    <3>1. EdgeSound(placed, inserted, j) /\ E[j] = inserted[j]
      BY <1>7 DEF Sound
    <3>2. P[j + 1] = placed[j + 1]
      BY <1>1, <1>4
    <3> QED BY <1>6, <3>1, <3>2 DEF EdgeSound
  <2>2. EdgeSound(P, E, Len(placed))
    BY <1>1, <1>3, <1>4, <1>6, <1>7 DEF EdgeSound
  <2> QED BY <1>7, <2>1, <2>2
<1>11. \A j \in DOMAIN inserted : IsId(placed, inserted[j].target)
  BY DEF Sound, EdgeSound
<1>12. HolesOnce(P, E)
  BY <1>3, <1>6, <1>7, <1>11 DEF Sound, HolesOnce
<1>13. \A j \in DOMAIN bindings : IsId(placed, bindings[j].target)
  BY DEF Sound, BindingSound
<1>14. \A j \in DOMAIN bindings : BindingSound(P, bindings, j)
  BY <1>6, <1>13 DEF Sound, BindingSound
<1>15. DemandsOnce(P, bindings)
  BY <1>6, <1>13 DEF Sound, DemandsOnce
<1>17. ValuesFirst(P, bindings)
  <2> SUFFICES ASSUME NEW j \in DOMAIN bindings, HasTwin(P, bindings[j].target)
               PROVE  \E k \in DOMAIN bindings :
                         /\ k < j /\ bindings[k].target[1] = bindings[j].target[1]
                         /\ Marker(P, bindings[k].target) = Twin(P, bindings[j].target)
    BY DEF ValuesFirst, TwinTold
  <2> DEFINE u == bindings[j].target
  <2>1. /\ IsId(placed, u) /\ P[u[1]] = placed[u[1]] /\ Marker(P, u) = Marker(placed, u)
    BY <1>6, <1>13
  <2>2. HasTwin(placed, u) /\ Twin(P, u) = Twin(placed, u)
    BY <2>1 DEF HasTwin, Twin
  <2>3. PICK k \in DOMAIN bindings :
           k < j /\ bindings[k].target[1] = u[1] /\ Marker(placed, bindings[k].target) = Twin(placed, u)
    BY <2>2 DEF Sound, ValuesFirst, TwinTold
  <2> QED BY <1>6, <1>13, <2>2, <2>3
<1>16. FilledBy(P, E, bindings) =
          IF Marker(placed, t).kind = "block" THEN filled ELSE filled \cup {t}
  <2>1. {E[j].target : j \in {k \in DOMAIN E : Marker(P, E[k].target).kind # "block"}} =
            {inserted[j].target : j \in {k \in DOMAIN inserted :
                                     Marker(placed, inserted[k].target).kind # "block"}}
              \cup IF Marker(placed, t).kind = "block" THEN {} ELSE {t}
    <3> DEFINE Old == {k \in DOMAIN inserted : Marker(placed, inserted[k].target).kind # "block"}
               New == {k \in DOMAIN E : Marker(P, E[k].target).kind # "block"}
    <3>1. CASE Marker(placed, t).kind = "block"
      <4>1. New = Old
        BY <1>3, <1>6, <1>7, <1>11, <3>1
      <4>2. \A j \in Old : E[j] = inserted[j]
        BY <1>7
      <4> HIDE DEF Old, New
      <4> QED BY <3>1, <4>1, <4>2 DEF Old, New
    <3>2. CASE Marker(placed, t).kind # "block"
      <4>1. New = Old \cup {Len(placed)}
        BY <1>3, <1>6, <1>7, <1>11, <3>2
      <4>2. \A j \in Old : E[j] = inserted[j]
        BY <1>7
      <4> HIDE DEF Old, New
      <4>3. {E[j].target : j \in New} = {inserted[j].target : j \in Old} \cup {t}
        BY <1>3, <1>7, <4>1, <4>2
      <4> QED BY <3>2, <4>3 DEF Old, New
    <3> QED BY <3>1, <3>2
  <2> QED BY <2>1 DEF Sound, FilledBy
<1> QED BY <1>4, <1>5, <1>8, <1>9, <1>10, <1>12, <1>14, <1>15, <1>16, <1>17 DEF Sound, P, E

LEMMA SoundBind ==
    ASSUME NEW placed, NEW inserted, NEW S, NEW bindings \in Seq(S), NEW filled,
           Sound(placed, inserted, bindings, filled),
           NEW t, IsId(placed, t), Marker(placed, t).kind \in BindKinds,
           \A j \in DOMAIN bindings :
              bindings[j].target[1] = t[1] => Marker(placed, bindings[j].target) # Marker(placed, t),
           TwinTold(placed, bindings, t, Len(bindings) + 1),
           NEW b \in S, b.target = t, b.kind = Marker(placed, t).kind,
           b.kind = "external" => b.label = Marker(placed, t).label
    PROVE  Sound(placed, inserted, Append(bindings, b), filled \cup {t})
<1> DEFINE B == Append(bindings, b)
<1>1. /\ Len(bindings) \in Nat /\ DOMAIN bindings = 1 .. Len(bindings)
      /\ B \in Seq(S) /\ Len(B) = Len(bindings) + 1
      /\ \A j \in 1 .. Len(bindings) : B[j] = bindings[j]
      /\ B[Len(bindings) + 1] = b
  BY AppendProperties
<1> HIDE DEF B
<1>2. /\ DOMAIN B = DOMAIN bindings \cup {Len(bindings) + 1}
      /\ Len(bindings) + 1 \notin DOMAIN bindings
      /\ \A j \in DOMAIN bindings : B[j] = bindings[j]
  BY <1>1
<1>3. \A j \in DOMAIN B : BindingSound(placed, B, j)
  BY <1>1, <1>2 DEF Sound, BindingSound
<1>4. DemandsOnce(placed, B)
  BY <1>1, <1>2 DEF Sound, DemandsOnce
<1>5. FilledBy(placed, inserted, B) = filled \cup {t}
  BY <1>1, <1>2 DEF Sound, FilledBy
<1>6. ValuesFirst(placed, B)
  <2>1. ASSUME NEW j \in DOMAIN bindings PROVE TwinTold(placed, B, B[j].target, j)
    <3>1. TwinTold(placed, bindings, bindings[j].target, j) /\ B[j] = bindings[j]
      BY <1>2 DEF Sound, ValuesFirst
    <3> QED BY <1>2, <3>1 DEF TwinTold
  <2>2. TwinTold(placed, B, B[Len(bindings) + 1].target, Len(bindings) + 1)
    BY <1>1, <1>2 DEF TwinTold
  <2> QED BY <1>2, <2>1, <2>2 DEF ValuesFirst
<1> QED BY <1>3, <1>4, <1>5, <1>6 DEF Sound, B

(* A demand that is not bound yet shares its word with no bound identifier, *)
(* unless it is one itself.                                                 *)
LEMMA NoTwinBound ==
    ASSUME NEW placed, NEW inserted, NEW bindings, NEW filled,
           Sound(placed, inserted, bindings, filled),
           NEW id, IsId(placed, id), Marker(placed, id).kind = "external",
           \A j \in DOMAIN bindings :
              bindings[j].target[1] = id[1] => Marker(placed, bindings[j].target) # Marker(placed, id),
           NEW j \in DOMAIN bindings, bindings[j].target[1] = id[1],
           Marker(placed, bindings[j].target).kind = "identifier",
           Marker(placed, bindings[j].target).label = Marker(placed, id).label
    PROVE  FALSE
<1> DEFINE t == bindings[j].target
<1>1. placed \in Seq(Occurrences) /\ id[1] \in 1 .. Len(placed)
      /\ id[2] \in DOMAIN Records[placed[id[1]].piece]
  BY DEF Sound, IsId
<1>2. placed[id[1]] \in Occurrences
  BY <1>1
<1>3. Marker(placed, id) \in Record
  BY <1>1, <1>2, OccurrencesAre, RecordsAre DEF Marker
<1>4. Marker(placed, id) = Twin(placed, t)
  BY <1>3 DEF Record, Twin
<1>5. HasTwin(placed, t)
  BY <1>1, <1>4 DEF HasTwin, Marker
<1>6. PICK k \in DOMAIN bindings :
         bindings[k].target[1] = t[1] /\ Marker(placed, bindings[k].target) = Twin(placed, t)
  BY <1>5 DEF Sound, ValuesFirst, TwinTold
<1> QED BY <1>4, <1>6

(* What the client looks at before it binds.                                *)
LEMMA TwinIsTold ==
    ASSUME NEW placed, NEW inserted, NEW S, NEW bindings \in Seq(S), NEW filled,
           Sound(placed, inserted, bindings, filled), NEW id, ValueFirst(placed, bindings, id)
    PROVE  TwinTold(placed, bindings, id, Len(bindings) + 1)
<1>1. \A j \in DOMAIN bindings : j < Len(bindings) + 1
  OBVIOUS
<1> QED BY <1>1 DEF ValueFirst, TwinTold, HasTwin, Twin, Marker

-----------------------------------------------------------------------------
(* What a sound mirror, and a builder that knows it, give away.             *)
LEMMA EdgesAre ==
    ASSUME NEW placed, NEW inserted, NEW bindings, NEW filled,
           Sound(placed, inserted, bindings, filled)
    PROVE  /\ Len(placed) \in Nat /\ DOMAIN inserted = 1 .. Len(placed) - 1
           /\ \A i \in 1 .. Len(placed) : placed[i] \in Occurrences
           /\ \A j \in DOMAIN inserted :
                 /\ j \in Nat /\ j + 1 \in 1 .. Len(placed) /\ inserted[j].source = j + 1
                 /\ IsId(placed, inserted[j].target)
                 /\ inserted[j].target[1] \in 1 .. j /\ inserted[j].target[1] \in 1 .. Len(placed)
                 /\ Marker(placed, inserted[j].target).kind \in HoleKinds
                 /\ placed[j + 1].prefix =
                       Append(placed[inserted[j].target[1]].prefix, Owner(placed[j + 1].prefix))
<1>1. /\ placed \in Seq(Occurrences) /\ inserted \in Seq(LowerEdges)
      /\ placed = <<>> => inserted = <<>>
      /\ placed # <<>> => Len(placed) = Len(inserted) + 1
      /\ \A j \in DOMAIN inserted : EdgeSound(placed, inserted, j)
  BY DEF Sound, OneRoot
<1>2. Len(placed) \in Nat /\ DOMAIN inserted = 1 .. Len(placed) - 1
  BY <1>1
<1>3. \A j \in DOMAIN inserted : inserted[j].source = j + 1 /\ IsId(placed, inserted[j].target)
                                  /\ inserted[j].target[1] <= j
  <2> SUFFICES ASSUME NEW j \in DOMAIN inserted
               PROVE  inserted[j].source = j + 1 /\ IsId(placed, inserted[j].target)
                                  /\ inserted[j].target[1] <= j
    OBVIOUS
  <2>1. EdgeSound(placed, inserted, j)
    BY <1>1
  <2> DEFINE t == inserted[j].target
  <2>2. inserted[j] = [target |-> t, source |-> j + 1] /\ IsId(placed, t) /\ t[1] <= j
    BY <2>1 DEF EdgeSound
  <2> HIDE DEF t
  <2>3. inserted[j].source = j + 1
    BY <2>2
  <2> QED BY <2>2, <2>3 DEF t
<1>4. \A j \in DOMAIN inserted : inserted[j].target[1] \in 1 .. j
  BY <1>2, <1>3 DEF IsId
<1> QED BY <1>1, <1>2, <1>3, <1>4 DEF EdgeSound

LEMMA PlanHolds ==
    ASSUME NEW placed, NEW inserted, NEW bindings, NEW filled,
           Sound(placed, inserted, bindings, filled)
    PROVE  TreeOverAll(placed, inserted)
<1> SUFFICES ASSUME NEW i \in 2 .. Len(placed)
             PROVE  \E j \in DOMAIN inserted :
                       /\ inserted[j].source = i /\ inserted[j].target[1] < i
                       /\ \A k \in DOMAIN inserted : inserted[k].source = i => k = j
  BY DEF TreeOverAll
<1>1. /\ Len(placed) \in Nat /\ DOMAIN inserted = 1 .. Len(placed) - 1
      /\ \A j \in DOMAIN inserted :
            inserted[j].source = j + 1 /\ inserted[j].target[1] \in 1 .. j
  BY EdgesAre
<1>2. i \in Nat /\ i - 1 \in DOMAIN inserted
  BY <1>1
<1> DEFINE j == i - 1
<1>3. inserted[j].source = i /\ inserted[j].target[1] < i
  <2>1. inserted[j].source = j + 1 /\ inserted[j].target[1] \in 1 .. j
    BY <1>1, <1>2
  <2> QED BY <1>2, <2>1
<1>4. \A k \in DOMAIN inserted : inserted[k].source = i => k = j
  <2> SUFFICES ASSUME NEW k \in DOMAIN inserted, inserted[k].source = i PROVE k = j
    OBVIOUS
  <2>1. k \in Nat /\ k + 1 = i
    BY <1>1
  <2> QED BY <1>2, <2>1
<1> HIDE DEF j
<1> QED BY <1>2, <1>3, <1>4 DEF j

LEMMA FilledOnceHolds ==
    ASSUME MirrorSound, Sound(nOccurrences, nEdges, nOverlays, nSatisfied)
    PROVE  FilledOnce
<1>1. ScalarFilledOnce
  BY DEF MirrorSound, Sound, HolesOnce, ScalarFilledOnce, RecordAt, Marker
<1>2. \A j, k \in DOMAIN nEdges :
         nEdges[j].target = nEdges[k].target /\ j # k => NRecord(nEdges[j].target).kind # "scalar"
  BY DEF Sound, HolesOnce, NRecord, Marker
<1>3. \A j, k \in DOMAIN nOverlays : nOverlays[j].target = nOverlays[k].target => j = k
  BY DEF Sound, DemandsOnce
<1> QED BY <1>1, <1>2, <1>3 DEF FilledOnce

(* The sites of an assembly are those that were asked for.                  *)
SitesOf(placed, inserted) ==
    [j \in DOMAIN inserted |->
        Site(Owner(placed[inserted[j].target[1]].prefix),
             Owner(placed[inserted[j].source].prefix), placed[inserted[j].source].piece)]

LEMMA SitesAsked ==
    ASSUME NEW placed, NEW inserted, NEW bindings, NEW filled,
           Sound(placed, inserted, bindings, filled), PiecesAre(askedPieces, placed, inserted)
    PROVE  AskedSites = SitesOf(placed, inserted)
<1>1. /\ Len(placed) \in Nat /\ DOMAIN inserted = 1 .. Len(placed) - 1
      /\ \A j \in DOMAIN inserted : inserted[j].source = j + 1
  BY EdgesAre
<1>2. 1 .. Len(askedPieces) - 1 = DOMAIN inserted
  BY <1>1 DEF PiecesAre
<1>3. ASSUME NEW j \in DOMAIN inserted
      PROVE  Site(Owner(askedPieces[j + 1].prefix), askedPieces[j + 1].name, askedPieces[j + 1].piece)
               = Site(Owner(placed[inserted[j].target[1]].prefix),
                      Owner(placed[inserted[j].source].prefix), placed[inserted[j].source].piece)
  <2> DEFINE above == placed[inserted[j].target[1]].prefix
             o == placed[j + 1]
             ordinal == inserted[j].target[2]
  <2>1. askedPieces[j + 1] = [prefix |-> above, at |-> ordinal, name |-> Owner(o.prefix), piece |-> o.piece]
    BY DEF PiecesAre
  <2>2. placed[inserted[j].source] = o
    BY <1>1
  <2> HIDE DEF above, o, ordinal
  <2>3. /\ askedPieces[j + 1].prefix = above /\ askedPieces[j + 1].name = Owner(o.prefix)
        /\ askedPieces[j + 1].piece = o.piece
    BY <2>1
  <2> QED BY <2>2, <2>3 DEF above
<1> QED BY <1>2, <1>3 DEF AskedSites, SitesOf

LEMMA BuilderSites ==
    ASSUME MirrorSound, BuilderKnows
    PROVE  SitesOfBuilder = SitesOf(occurrences, edges)
<1>1. Sound(occurrences, edges, overlays, satisfied) /\ edges \in Seq(LowerEdges)
  BY DEF MirrorSound, Sound
<1>2. Known \in Seq(Insertions)
  BY ConcatProperties DEF BuilderKnows, Known
<1>3. DOMAIN Known = DOMAIN edges /\ \A j \in DOMAIN edges : edges[j].source = j + 1
  BY <1>1, <1>2, EdgesAre DEF BuilderKnows
<1>4. ASSUME NEW j \in DOMAIN edges
      PROVE  Site(Known[j].owner, Known[j].source, Known[j].piece)
               = Site(Owner(occurrences[edges[j].target[1]].prefix),
                      Owner(occurrences[edges[j].source].prefix), occurrences[edges[j].source].piece)
  BY <1>3 DEF BuilderKnows
<1> QED BY <1>3, <1>4 DEF SitesOfBuilder, SitesOf

(* One occurrence of a name, and so one demand of a binding.                *)
LEMMA AgreeHolds ==
    ASSUME MirrorSound, BindingsKnown
    PROVE  BindingsAgree
<1> SUFFICES ASSUME NEW id \in Ids, RecordAt(id).kind \in BindKinds
             PROVE  LowerValues(id[1], RecordAt(id)) = BuilderValues(id[1], RecordAt(id))
  BY DEF BindingsAgree
<1> DEFINE i == id[1]
           record == RecordAt(id)
           about == {j \in DOMAIN overlays :
                        overlays[j].target[1] = i /\ RecordAt(overlays[j].target) = record}
<1>1. /\ Sound(occurrences, edges, overlays, satisfied)
      /\ overlays \in Seq(Overlays)
  BY DEF MirrorSound
<1>2. i \in 1 .. Count
  <2>1. PICK k \in 1 .. Count : id \in {k} \X DOMAIN Records[occurrences[k].piece]
    BY Zenon DEF Ids
  <2> QED BY <2>1
<1>3. \A j, k \in about : j = k
  BY <1>1 DEF Sound, DemandsOnce, Marker, RecordAt
<1>4. DOMAIN overlays \subseteq Nat
  BY <1>1
<1>5. LowerValues(i, record) = {overlays[j].value : j \in about}
  <2>1. {k \in about : \A l \in about : l <= k} = about
    BY <1>3, <1>4
  <2> QED BY <2>1 DEF LowerValues
<1>6. \A j \in DOMAIN overlays :
         /\ IsId(occurrences, overlays[j].target)
         /\ overlays[j].kind = RecordAt(overlays[j].target).kind
         /\ RecordAt(overlays[j].target) \in Record
  <2>1. \A j \in DOMAIN overlays : BindingSound(occurrences, overlays, j)
    BY <1>1 DEF Sound
  <2>2. \A j \in DOMAIN overlays : RecordAt(overlays[j].target) \in Record
    <3> SUFFICES ASSUME NEW j \in DOMAIN overlays PROVE RecordAt(overlays[j].target) \in Record
      OBVIOUS
    <3>1. IsId(occurrences, overlays[j].target)
      BY <2>1 DEF BindingSound
    <3>2. occurrences[overlays[j].target[1]].piece \in Piece
      BY <1>1, <3>1, EdgesAre, OccurrencesAre DEF IsId
    <3> QED BY <3>1, <3>2, RecordsAre DEF IsId, RecordAt
  <2> QED BY <2>1, <2>2 DEF BindingSound, RecordAt, Marker
<1>7. record \in Record
  <2>1. PICK k \in 1 .. Count : id \in {k} \X DOMAIN Records[occurrences[k].piece]
    BY Zenon DEF Ids
  <2>2. occurrences[k].piece \in Piece
    BY <1>1, EdgesAre, OccurrencesAre DEF Count
  <2> QED BY <2>1, <2>2, RecordsAre DEF RecordAt
<1>8. \A r, q \in Record : r.kind = q.kind /\ r.label = q.label => r = q
  BY DEF Record
<1>9. \A j \in DOMAIN overlays :
         j \in about <=> /\ Told(j).kind = record.kind /\ Told(j).label = record.label
                         /\ Told(j).owner = Owner(occurrences[i].prefix)
  <2> SUFFICES ASSUME NEW j \in DOMAIN overlays
               PROVE  j \in about <=> /\ Told(j).kind = record.kind /\ Told(j).label = record.label
                                      /\ Told(j).owner = Owner(occurrences[i].prefix)
    OBVIOUS
  <2> DEFINE t == overlays[j].target
  <2>1. /\ Told(j).kind = RecordAt(t).kind /\ Told(j).label = RecordAt(t).label
        /\ Told(j).owner = Owner(occurrences[t[1]].prefix)
    BY <1>6 DEF Told
  <2>2. t[1] \in 1 .. Count /\ RecordAt(t) \in Record
    BY <1>6 DEF IsId, Count
  <2>3. Owner(occurrences[t[1]].prefix) = Owner(occurrences[i].prefix) <=> t[1] = i
    BY <1>1, <1>2, <2>2 DEF Sound, NamesOnce, Count
  <2>4. RecordAt(t) = record <=> RecordAt(t).kind = record.kind /\ RecordAt(t).label = record.label
    BY <1>7, <1>8, <2>2
  <2> HIDE DEF record, i, t
  <2> QED BY <2>1, <2>3, <2>4 DEF t
<1>10. BuilderValues(i, record) = {Told(j).value : j \in about}
  <2> HIDE DEF record, i
  <2>1. BuilderValues(i, record) = {q.value : q \in {r \in {Told(j) : j \in DOMAIN overlays} :
             /\ r.kind = record.kind /\ r.label = record.label
             /\ r.owner = Owner(occurrences[i].prefix)}}
    BY DEF BindingsKnown, BuilderValues
  <2>2. {r \in {Told(j) : j \in DOMAIN overlays} :
             /\ r.kind = record.kind /\ r.label = record.label
             /\ r.owner = Owner(occurrences[i].prefix)} = {Told(j) : j \in about}
    BY <1>9
  <2> QED BY <2>1, <2>2
<1>11. \A j \in about : Told(j).value = overlays[j].value
  BY DEF Told
<1> HIDE DEF about, record, i
<1>12. LowerValues(i, record) = BuilderValues(i, record)
  BY <1>5, <1>10, <1>11
<1> QED BY <1>12 DEF i, record

-----------------------------------------------------------------------------
(* What the client is offered, and the record it stands for.                *)
LEMMA TargetIs ==
    ASSUME Sound(occurrences, edges, overlays, satisfied),
           NEW id, IsId(occurrences, id),
           NEW c, c.prefix = occurrences[id[1]].prefix, c.at = id[2]
    PROVE  /\ Current(id[1]) /\ TargetOf(c) = {id}
           /\ (CHOOSE t \in TargetOf(c) : TRUE) = id
<1>1. \A j \in 1 .. Count : occurrences[j].prefix = occurrences[id[1]].prefix => j = id[1]
  BY DEF Sound, NamesOnce, Count, IsId
<1>2. id[1] \in 1 .. Count /\ id = <<id[1], id[2]>> /\ id[1] \in Nat
  BY DEF IsId, Count
<1>3. Current(id[1])
  BY <1>1, <1>2 DEF Current
<1>4. {j \in 1 .. Count : /\ occurrences[j].prefix = c.prefix
                          /\ Current(j)
                          /\ c.at \in DOMAIN Records[occurrences[j].piece]} = {id[1]}
  BY <1>1, <1>2, <1>3 DEF IsId
<1>5. TargetOf(c) = {id}
  BY <1>2, <1>4 DEF TargetOf
<1> QED BY <1>3, <1>5

LEMMA CandidateIs ==
    ASSUME MirrorSound, NEW id, IsId(occurrences, id),
           NEW c, c = CandidateAt(id[1], id[2])
    PROVE  /\ c.prefix = occurrences[id[1]].prefix /\ c.at = id[2]
           /\ c.kind = Marker(occurrences, id).kind
           /\ c.label = Resolved(id[1], Marker(occurrences, id).label)
           /\ c.label \in Word /\ c.prefix \in Seq(Name) \ {<<>>} /\ Owner(c.prefix) \in Name
           /\ occurrences[id[1]].piece \in Piece /\ Marker(occurrences, id) \in Record
<1>1. Sound(occurrences, edges, overlays, satisfied) /\ overlays \in Seq(Overlays)
  BY DEF MirrorSound
<1>2. occurrences[id[1]] \in Occurrences
  BY <1>1, EdgesAre DEF IsId
<1>3. /\ occurrences[id[1]].prefix \in Seq(Name) \ {<<>>}
      /\ occurrences[id[1]].piece \in Piece
  BY <1>2, OccurrencesAre
<1>4. Marker(occurrences, id) \in Record
  BY <1>3, RecordsAre DEF Marker, IsId
<1>5. Marker(occurrences, id).label \in Word
  BY <1>4 DEF Record
<1>6. /\ c.prefix = occurrences[id[1]].prefix /\ c.at = id[2]
      /\ c.kind = Marker(occurrences, id).kind
      /\ c.label = Resolved(id[1], Marker(occurrences, id).label)
  BY DEF CandidateAt, Marker
<1>7. \A r \in renames : r.to \in Word
  <2>1. \A j \in DOMAIN overlays : overlays[j].value \in Word
    <3>1. \A j \in DOMAIN overlays : overlays[j] \in Overlays
      BY <1>1
    <3> QED BY <3>1 DEF Overlays
  <2> QED BY <2>1 DEF MirrorSound
<1>8. c.label \in Word
  BY <1>5, <1>6, <1>7 DEF Resolved
<1>9. Owner(c.prefix) \in Name
  BY <1>3, <1>6 DEF Owner
<1> QED BY <1>3, <1>4, <1>6, <1>8, <1>9

LEMMA OfferedAre ==
    ASSUME MirrorSound, NEW c \in Offered
    PROVE  \E id : /\ IsId(occurrences, id) /\ id \notin satisfied
                   /\ c = CandidateAt(id[1], id[2])
<1>1. \E i \in 1 .. Count : \E k \in OpenSites(i) : c = CandidateAt(i, k)
  <2>1. c \in Visible => \E i \in 1 .. Count : \E k \in OpenSites(i) : c = CandidateAt(i, k)
    BY Zenon DEF Visible
  <2>2. c \in NativeAnswer => \E i \in 1 .. Count : \E k \in OpenSites(i) : c = CandidateAt(i, k)
    BY Zenon DEF NativeAnswer, InMirror
  <2>3. c \in Visible \/ c \in NativeAnswer
    BY DEF Offered
  <2> QED BY <2>1, <2>2, <2>3
<1>2. PICK i \in 1 .. Count : \E k \in OpenSites(i) : c = CandidateAt(i, k)
  BY <1>1
<1>3. PICK k \in OpenSites(i) : c = CandidateAt(i, k)
  BY <1>2
<1>4. Sound(occurrences, edges, overlays, satisfied)
  BY DEF MirrorSound
<1>5. occurrences[i].piece \in Piece /\ i \in 1 .. Len(occurrences) /\ i \in Nat
  BY <1>4, EdgesAre, OccurrencesAre DEF Count
<1>6. k \in DOMAIN Records[occurrences[i].piece] /\ <<i, k>> \notin satisfied
  BY DEF OpenSites
<1>7. k \in Nat
  BY <1>5, <1>6, RecordsAre
<1> DEFINE id == <<i, k>>
<1>8. id \in Nat \X Nat /\ id[1] = i /\ id[2] = k
  BY <1>5, <1>7
<1> HIDE DEF id
<1>9. IsId(occurrences, id) /\ c = CandidateAt(id[1], id[2])
  BY <1>3, <1>5, <1>6, <1>8 DEF IsId
<1> QED BY <1>6, <1>9 DEF id

(* A demand that is not bound yet still has the name its piece gives it.    *)
LEMMA LabelKept ==
    ASSUME MirrorSound, NEW id, IsId(occurrences, id),
           Marker(occurrences, id).kind \in BindKinds,
           \A j \in DOMAIN overlays : overlays[j].target[1] = id[1] =>
              Marker(occurrences, overlays[j].target) # Marker(occurrences, id)
    PROVE  /\ \A r \in renames : ~(r.at = id[1] /\ r.from = Marker(occurrences, id).label)
           /\ Resolved(id[1], Marker(occurrences, id).label) = Marker(occurrences, id).label
<1> DEFINE record == Marker(occurrences, id)
<1>1. \A r \in renames : ~(r.at = id[1] /\ r.from = record.label)
  <2> SUFFICES ASSUME NEW r \in renames, r.at = id[1], r.from = record.label PROVE FALSE
    OBVIOUS
  <2>1. PICK j \in DOMAIN overlays :
           /\ overlays[j].kind = "identifier"
           /\ r = [at |-> overlays[j].target[1], from |-> RecordAt(overlays[j].target).label,
                   to |-> overlays[j].value]
    BY Zenon DEF MirrorSound
  <2> DEFINE t == overlays[j].target
  <2>2. BindingSound(occurrences, overlays, j)
    BY DEF MirrorSound, Sound
  <2>3. IsId(occurrences, t) /\ Marker(occurrences, t).kind = "identifier"
    BY <2>1, <2>2 DEF BindingSound
  <2>4. t[1] = id[1] /\ Marker(occurrences, t).label = record.label
    BY <2>1 DEF RecordAt, Marker
  <2>5. Marker(occurrences, t) # record
    BY <2>4
  <2>6. occurrences[id[1]].piece \in Piece /\ record \in Record
    BY CandidateIs
  <2>7. Marker(occurrences, t) \in Record
    BY <2>3, CandidateIs
  <2>8. record.kind # "identifier"
    BY <2>3, <2>4, <2>5, <2>6, <2>7 DEF Record
  <2>9. record.kind = "external"
    BY <2>8 DEF BindKinds
  <2>10. Sound(occurrences, edges, overlays, satisfied)
    BY DEF MirrorSound
  <2> QED BY <2>3, <2>4, <2>9, <2>10, NoTwinBound
<1>2. Resolved(id[1], record.label) = record.label
  BY <1>1 DEF Resolved
<1> QED BY <1>1, <1>2

(* The mirror after an insertion.                                           *)
LEMMA MirrorInsert ==
    ASSUME MirrorSound, NEW id, IsId(occurrences, id),
           NEW c, c = CandidateAt(id[1], id[2]), c.kind \in HoleKinds,
           NEW n \in Name, NEW p \in Piece,
           \A i \in 1 .. Count : Owner(occurrences[i].prefix) # n,
           \A j \in DOMAIN edges : edges[j].target = id => c.kind = "block",
           InsertEffects(c, p, n)
    PROVE  /\ MirrorSound'
           /\ occurrences' = Append(occurrences, [prefix |-> Append(occurrences[id[1]].prefix, n),
                                                  piece |-> p])
           /\ edges' = Append(edges, [target |-> id, source |-> Count + 1])
           /\ satisfied' = IF c.kind = "block" THEN satisfied ELSE satisfied \cup {id}
           /\ overlays' = overlays
<1> DEFINE o == [prefix |-> Append(occurrences[id[1]].prefix, n), piece |-> p]
           e == [target |-> id, source |-> Count + 1]
<1>1. Sound(occurrences, edges, overlays, satisfied) /\ overlays \in Seq(Overlays)
  BY DEF MirrorSound
<1>2. /\ c.prefix = occurrences[id[1]].prefix /\ c.at = id[2]
      /\ c.kind = Marker(occurrences, id).kind
  BY CandidateIs
<1>3. TargetOf(c) = {id} /\ (CHOOSE t \in TargetOf(c) : TRUE) = id
  BY <1>1, <1>2, TargetIs
<1>4. occurrences' = Append(occurrences, o)
  BY <1>2 DEF InsertEffects
<1>5. edges' = Append(edges, e)
  BY <1>3 DEF InsertEffects, EdgesWith
<1>6. satisfied' = IF c.kind = "block" THEN satisfied ELSE satisfied \cup {id}
  BY <1>3 DEF InsertEffects, Filled
<1>7. overlays' = overlays /\ renames' = renames
  BY DEF InsertEffects
<1>8. Sound(Append(occurrences, o), Append(edges, e), overlays,
            IF Marker(occurrences, id).kind = "block" THEN satisfied ELSE satisfied \cup {id})
  <2>1. e = [target |-> id, source |-> Len(occurrences) + 1]
    BY DEF Count
  <2>2. o = [prefix |-> Append(occurrences[id[1]].prefix, n), piece |-> p]
    OBVIOUS
  <2>3. \A i \in 1 .. Len(occurrences) : Owner(occurrences[i].prefix) # n
    BY DEF Count
  <2>4. Marker(occurrences, id).kind \in HoleKinds
        /\ \A j \in DOMAIN edges : edges[j].target = id => Marker(occurrences, id).kind = "block"
    BY <1>2
  <2> HIDE DEF o, e
  <2> QED BY <1>1, <2>1, <2>2, <2>3, <2>4, SoundInsert
<1> HIDE DEF o, e
<1>9. Sound(occurrences, edges, overlays, satisfied)'
  BY <1>2, <1>4, <1>5, <1>6, <1>7, <1>8
<1>10. \A j \in DOMAIN overlays : RecordAt(overlays[j].target)' = RecordAt(overlays[j].target)
  <2> SUFFICES ASSUME NEW j \in DOMAIN overlays
               PROVE  RecordAt(overlays[j].target)' = RecordAt(overlays[j].target)
    OBVIOUS
  <2>1. overlays[j].target[1] \in 1 .. Len(occurrences)
    BY <1>1 DEF Sound, BindingSound, IsId
  <2>2. occurrences'[overlays[j].target[1]] = occurrences[overlays[j].target[1]]
    <3>1. o \in Occurrences /\ occurrences \in Seq(Occurrences)
      <4>1. Append(occurrences[id[1]].prefix, n) \in Seq(Name) \ {<<>>}
        BY CandidateIs, OwnerAppended
      <4> QED BY <1>1, <4>1, OccurrenceMade DEF o, Sound
    <3> QED BY <1>4, <2>1, <3>1, AppendProperties
  <2> QED BY <1>7, <2>2 DEF RecordAt
<1>11. MirrorSound'
  <2>1. {[at |-> overlays[j].target[1], from |-> RecordAt(overlays[j].target).label,
          to |-> overlays[j].value] : j \in {k \in DOMAIN overlays : overlays[k].kind = "identifier"}}'
        = {[at |-> overlays[j].target[1], from |-> RecordAt(overlays[j].target).label,
          to |-> overlays[j].value] : j \in {k \in DOMAIN overlays : overlays[k].kind = "identifier"}}
    BY <1>7, <1>10
  <2> QED BY <1>7, <1>9, <2>1 DEF MirrorSound
<1> QED BY <1>4, <1>5, <1>6, <1>7, <1>11 DEF o, e

(* The mirror after a binding, and what the builder is told of it.          *)
LEMMA SlotFree ==
    ASSUME MirrorSound, NEW id, IsId(occurrences, id),
           NEW j \in DOMAIN overlays, NEW record, record = Marker(occurrences, id),
           Told(j).kind = record.kind, Told(j).label = record.label,
           Told(j).owner = Owner(occurrences[id[1]].prefix)
    PROVE  overlays[j].target[1] = id[1] /\ Marker(occurrences, overlays[j].target) = record
<1> DEFINE t == overlays[j].target
<1>1. BindingSound(occurrences, overlays, j) /\ NamesOnce(occurrences)
  BY DEF MirrorSound, Sound
<1>2. IsId(occurrences, t) /\ overlays[j].kind = Marker(occurrences, t).kind
  BY <1>1 DEF BindingSound
<1>3. Marker(occurrences, t) \in Record /\ record \in Record
  BY <1>2, CandidateIs
<1>4. t[1] = id[1]
  BY <1>1, <1>2 DEF NamesOnce, Told, IsId
<1>5. Marker(occurrences, t).kind = record.kind /\ Marker(occurrences, t).label = record.label
  BY <1>2 DEF Told, RecordAt, Marker
<1> QED BY <1>3, <1>4, <1>5 DEF Record

LEMMA MirrorBind ==
    ASSUME MirrorSound, NEW id, IsId(occurrences, id),
           NEW c, c = CandidateAt(id[1], id[2]), c.kind \in BindKinds,
           NEW v \in Word,
           \A j \in DOMAIN overlays : overlays[j].target[1] = id[1] =>
              Marker(occurrences, overlays[j].target) # Marker(occurrences, id),
           TwinTold(occurrences, overlays, id, Len(overlays) + 1),
           BindEffects(c, v)
    PROVE  /\ MirrorSound'
           /\ overlays' = Append(overlays, [kind |-> c.kind, target |-> id,
                 label |-> IF c.kind = "external" THEN c.label ELSE v, value |-> v])
           /\ satisfied' = satisfied \cup {id}
           /\ c.label = Marker(occurrences, id).label
           /\ occurrences' = occurrences /\ edges' = edges
<1> DEFINE record == Marker(occurrences, id)
           b == [kind |-> c.kind, target |-> id,
                 label |-> IF c.kind = "external" THEN c.label ELSE v, value |-> v]
<1>1. Sound(occurrences, edges, overlays, satisfied) /\ overlays \in Seq(Overlays)
  BY DEF MirrorSound
<1>2. /\ c.prefix = occurrences[id[1]].prefix /\ c.at = id[2] /\ c.kind = record.kind
      /\ c.label \in Word /\ c.label = Resolved(id[1], record.label)
  BY CandidateIs
<1>3. /\ \A r \in renames : ~(r.at = id[1] /\ r.from = record.label)
      /\ c.label = record.label
  BY <1>2, LabelKept
<1>4. TargetOf(c) = {id} /\ (CHOOSE t \in TargetOf(c) : TRUE) = id
  BY <1>1, <1>2, TargetIs
<1>5. overlays' = Append(overlays, b)
  BY <1>4 DEF BindEffects, OverlaysWith
<1>6. satisfied' = satisfied \cup {id}
  <2>1. c.kind # "block"
    BY DEF BindKinds
  <2> QED BY <1>4, <2>1 DEF BindEffects, Filled
<1>7. occurrences' = occurrences /\ edges' = edges
  BY DEF BindEffects
<1>8. /\ b \in Overlays /\ b.target = id /\ b.kind = c.kind /\ b.value = v
      /\ b.kind = "external" => b.label = c.label
      /\ b.kind = "identifier" => b.label = v
  BY <1>2 DEF Overlays, IsId
<1> HIDE DEF b
<1>9. Sound(occurrences, edges, Append(overlays, b), satisfied \cup {id})
  <2>1. b \in Overlays /\ b.target = id /\ b.kind = Marker(occurrences, id).kind
    BY <1>2, <1>8
  <2>2. b.kind = "external" => b.label = Marker(occurrences, id).label
    BY <1>3, <1>8
  <2>3. Marker(occurrences, id).kind \in BindKinds
    BY <1>2
  <2> QED BY <1>1, <2>1, <2>2, <2>3, SoundBind
<1>10. Sound(occurrences, edges, overlays, satisfied)'
  BY <1>5, <1>6, <1>7, <1>9
<1>11. /\ overlays' \in Seq(Overlays) /\ DOMAIN overlays' = DOMAIN overlays \cup {Len(overlays) + 1}
       /\ Len(overlays) + 1 \notin DOMAIN overlays
       /\ \A j \in DOMAIN overlays : overlays'[j] = overlays[j]
       /\ overlays'[Len(overlays) + 1] = b
  BY <1>1, <1>5, <1>8, Appended
<1>12. \A j \in DOMAIN overlays' : overlays'[j].kind = "identifier" => overlays'[j].label = overlays'[j].value
  <2>1. \A j \in DOMAIN overlays : overlays[j].kind = "identifier" => overlays[j].label = overlays[j].value
    BY DEF MirrorSound
  <2> QED BY <1>8, <1>11, <2>1
<1>13. renames' = {[at |-> overlays'[j].target[1], from |-> Marker(occurrences, overlays'[j].target).label,
                    to |-> overlays'[j].value]
                     : j \in {k \in DOMAIN overlays' : overlays'[k].kind = "identifier"}}
  <2> DEFINE Entry(j) == [at |-> overlays[j].target[1], from |-> RecordAt(overlays[j].target).label,
                          to |-> overlays[j].value]
             Old == {k \in DOMAIN overlays : overlays[k].kind = "identifier"}
             New == {k \in DOMAIN overlays' : overlays'[k].kind = "identifier"}
             NewEntry(j) == [at |-> overlays'[j].target[1], from |-> Marker(occurrences, overlays'[j].target).label,
                             to |-> overlays'[j].value]
  <2>1. \A j \in Old : NewEntry(j) = Entry(j)
    BY <1>7, <1>11 DEF RecordAt, Marker
  <2>2. NewEntry(Len(overlays) + 1) = [at |-> id[1], from |-> record.label, to |-> v]
    <3>1. overlays'[Len(overlays) + 1].target = id /\ overlays'[Len(overlays) + 1].value = v
      BY <1>8, <1>11
    <3> QED BY <3>1
  <2>3. CASE c.kind = "identifier"
    <3>1. New = Old \cup {Len(overlays) + 1}
      BY <1>8, <1>11, <2>3, Zenon
    <3>2. renames' = renames \cup {[at |-> id[1], from |-> record.label, to |-> v]}
      <4>1. \A r \in renames : <<r.at, c.at>> \notin TargetOf(c) \/ r.from # c.label
        <5> SUFFICES ASSUME NEW r \in renames, <<r.at, c.at>> \in TargetOf(c), r.from = c.label
                     PROVE  FALSE
          OBVIOUS
        <5>1. r.at = id[1]
          BY <1>4
        <5> QED BY <1>3, <5>1
      <4>2. {r \in renames : <<r.at, c.at>> \notin TargetOf(c) \/ r.from # c.label} = renames
        BY <4>1
      <4>3. {[at |-> t[1], from |-> c.label, to |-> v] : t \in TargetOf(c)}
              = {[at |-> id[1], from |-> record.label, to |-> v]}
        BY <1>3, <1>4
      <4>4. renames' = RenamesWith(c, v)
        BY <2>3 DEF BindEffects
      <4> QED BY <4>2, <4>3, <4>4 DEF RenamesWith
    <3>3. renames = {Entry(j) : j \in Old}
      BY DEF MirrorSound
    <3> HIDE DEF Entry, NewEntry, Old, New
    <3>4. renames' = {NewEntry(j) : j \in New}
      BY <2>1, <2>2, <3>1, <3>2, <3>3
    <3> QED BY <3>4 DEF NewEntry, New
  <2>4. CASE c.kind # "identifier"
    <3>1. New = Old
      BY <1>8, <1>11, <2>4, Zenon
    <3>2. renames' = renames
      BY <2>4 DEF BindEffects
    <3>3. renames = {Entry(j) : j \in Old}
      BY DEF MirrorSound
    <3> HIDE DEF Entry, NewEntry, Old, New
    <3>4. renames' = {NewEntry(j) : j \in New}
      BY <2>1, <3>1, <3>2, <3>3
    <3> QED BY <3>4 DEF NewEntry, New
  <2> QED BY <2>3, <2>4
<1>14. MirrorSound'
  BY <1>7, <1>10, <1>11, <1>12, <1>13 DEF MirrorSound, RecordAt, Marker
<1> QED BY <1>3, <1>5, <1>6, <1>7, <1>14 DEF b

LEMMA ConcatAppend ==
    ASSUME NEW S, NEW a \in Seq(S), NEW b \in Seq(S), NEW e \in S
    PROVE  a \o Append(b, e) = Append(a \o b, e)
<1>1. a \o b \in Seq(S) /\ Len(a \o b) = Len(a) + Len(b)
  BY ConcatProperties
<1>2. Append(b, e) \in Seq(S) /\ Len(Append(b, e)) = Len(b) + 1
  BY AppendProperties
<1>3. /\ a \o Append(b, e) \in Seq(S) /\ Append(a \o b, e) \in Seq(S)
      /\ Len(a \o Append(b, e)) = Len(Append(a \o b, e))
  BY <1>1, <1>2, ConcatProperties, AppendProperties
<1>4. \A i \in 1 .. Len(a) + Len(b) + 1 : (a \o Append(b, e))[i] = Append(a \o b, e)[i]
  OBVIOUS
<1> QED BY <1>1, <1>3, <1>4, SeqEqual

LEMMA KnownIs ==
    ASSUME BuilderKnows
    PROVE  /\ Known \in Seq(Insertions) /\ Len(Known) \in Nat
           /\ Len(Known) = Len(links) + Len(draining) + Len(deferred)
           /\ Len(links) \in Nat /\ Len(draining) \in Nat /\ Len(deferred) \in Nat
           /\ links \o draining \in Seq(Insertions)
<1>1. links \o draining \in Seq(Insertions) /\ Len(links \o draining) = Len(links) + Len(draining)
  BY ConcatProperties DEF BuilderKnows
<1>2. Known \in Seq(Insertions) /\ Len(Known) = Len(links \o draining) + Len(deferred)
  BY <1>1, ConcatProperties DEF BuilderKnows, Known
<1> QED BY <1>1, <1>2 DEF BuilderKnows

(* The builder is told of an insertion ...                                  *)
LEMMA BuilderInsert ==
    ASSUME MirrorSound, BuilderKnows, Registry, BindingsKnown,
           NEW id, IsId(occurrences, id),
           NEW c, c = CandidateAt(id[1], id[2]), c.kind \in HoleKinds,
           NEW n \in Name, NEW p \in Piece,
           \A i \in 1 .. Count : Owner(occurrences[i].prefix) # n,
           \A j \in DOMAIN edges : edges[j].target = id => c.kind = "block",
           InsertEffects(c, p, n)
    PROVE  BuilderKnows' /\ Registry' /\ BindingsKnown'
<1> DEFINE o == [prefix |-> Append(occurrences[id[1]].prefix, n), piece |-> p]
           e == Insertion(c, p, n)
           E == [target |-> id, source |-> Count + 1]
<1>1. /\ MirrorSound' /\ occurrences' = Append(occurrences, o)
      /\ edges' = Append(edges, E) /\ overlays' = overlays
  <2>1. MirrorSound'
    BY MirrorInsert
  <2>2. occurrences' = Append(occurrences, o)
    <3>1. c.prefix = occurrences[id[1]].prefix
      BY DEF CandidateAt
    <3> QED BY <3>1 DEF InsertEffects
  <2>3. edges' = Append(edges, E)
    BY MirrorInsert
  <2>4. overlays' = overlays
    BY DEF InsertEffects
  <2> QED BY <2>1, <2>2, <2>3, <2>4
<1>2. /\ Sound(occurrences, edges, overlays, satisfied)
      /\ c.prefix = occurrences[id[1]].prefix /\ c.label \in Word /\ Owner(c.prefix) \in Name
      /\ c.prefix \in Seq(Name) \ {<<>>}
  BY CandidateIs DEF MirrorSound
<1>3. e \in Insertions /\ e.owner = Owner(c.prefix) /\ e.source = n /\ e.piece = p
  BY <1>2 DEF Insertions, Insertion
<1>4. /\ deferred' = Append(deferred, e) /\ draining' = draining /\ links' = links
      /\ instances' = instances /\ queued' = queued /\ flushing' = flushing /\ bound' = bound
  BY DEF InsertEffects, DeferredWith, builder
<1>5. o \in Occurrences /\ o.piece = p /\ Owner(o.prefix) = n
  <2>1. Append(c.prefix, n) \in Seq(Name) \ {<<>>} /\ Owner(Append(c.prefix, n)) = n
    BY <1>2, OwnerAppended
  <2> QED BY <1>2, <2>1, OccurrenceMade
<1>6. E \in LowerEdges /\ E.target = id
  <2>1. id \in Nat \X Nat
    BY DEF IsId
  <2>2. Count + 1 \in Nat
    BY <1>2, EdgesAre DEF Count
  <2> QED BY <2>1, <2>2 DEF LowerEdges
<1> HIDE DEF o, e, E
<1>7. occurrences \in Seq(Occurrences) /\ edges \in Seq(LowerEdges)
  BY <1>2 DEF Sound
<1>8. /\ Len(occurrences') = Len(occurrences) + 1 /\ Len(occurrences) \in Nat
      /\ \A i \in 1 .. Len(occurrences) : occurrences'[i] = occurrences[i]
      /\ occurrences'[Len(occurrences) + 1] = o
  BY <1>1, <1>5, <1>7, Appended
<1>9. /\ Len(edges') = Len(edges) + 1 /\ DOMAIN edges' = DOMAIN edges \cup {Len(edges) + 1}
      /\ \A i \in DOMAIN edges : edges'[i] = edges[i]
      /\ edges'[Len(edges) + 1] = E /\ DOMAIN edges = 1 .. Len(edges) /\ Len(edges) \in Nat
  BY <1>1, <1>6, <1>7, Appended
<1>10. Len(occurrences) = Len(edges) + 1 /\ id[1] \in 1 .. Len(occurrences)
  <2>1. id[1] \in 1 .. Len(occurrences)
    BY DEF IsId
  <2>2. occurrences # <<>>
    BY <2>1
  <2> QED BY <1>2, <2>1, <2>2 DEF Sound, OneRoot
<1>11. Known' = Append(Known, e)
  <2>1. links \o draining \in Seq(Insertions) /\ deferred \in Seq(Insertions)
    BY KnownIs DEF BuilderKnows
  <2> QED BY <1>3, <1>4, <2>1, ConcatAppend DEF Known
<1>12. /\ Len(Known') = Len(Known) + 1 /\ DOMAIN Known' = DOMAIN Known \cup {Len(Known) + 1}
       /\ \A i \in DOMAIN Known : Known'[i] = Known[i]
       /\ Known'[Len(Known) + 1] = e
       /\ DOMAIN Known = 1 .. Len(Known)
  BY <1>3, <1>11, KnownIs, Appended
<1>13. \A j \in DOMAIN edges : edges[j].target[1] \in 1 .. Len(occurrences)
  BY <1>2, EdgesAre
<1>14. BuilderKnows'
  <2>1. Len(Known') = Len(edges')
    BY <1>9, <1>12 DEF BuilderKnows
  <2>2. deferred' \in Seq(Insertions) /\ draining' \in Seq(Insertions) /\ links' \in Seq(Insertions)
    BY <1>3, <1>4, Appended DEF BuilderKnows
  <2>3. ASSUME NEW i \in DOMAIN Known
        PROVE  /\ Known'[i].owner = Owner(occurrences'[edges'[i].target[1]].prefix)
               /\ Known'[i].source = Owner(occurrences'[i + 1].prefix)
               /\ Known'[i].piece = occurrences'[i + 1].piece
    <3>1. i \in DOMAIN edges /\ i + 1 \in 1 .. Len(occurrences)
      BY <1>9, <1>10, <1>12 DEF BuilderKnows
    <3>2. /\ occurrences'[i + 1] = occurrences[i + 1] /\ edges'[i] = edges[i]
          /\ occurrences'[edges[i].target[1]] = occurrences[edges[i].target[1]]
          /\ Known'[i] = Known[i]
      BY <1>8, <1>9, <1>12, <1>13, <3>1
    <3> QED BY <3>2 DEF BuilderKnows
  <2>4. /\ e.owner = Owner(occurrences'[E.target[1]].prefix)
        /\ e.source = Owner(o.prefix) /\ e.piece = o.piece
    BY <1>2, <1>3, <1>5, <1>6, <1>8, <1>10
  <2>5. Len(Known) = Len(edges)
    BY DEF BuilderKnows
  <2>6. \A i \in DOMAIN Known' :
           /\ Known'[i].owner = Owner(occurrences'[edges'[i].target[1]].prefix)
           /\ Known'[i].source = Owner(occurrences'[i + 1].prefix)
           /\ Known'[i].piece = occurrences'[i + 1].piece
    BY <1>8, <1>9, <1>10, <1>12, <2>3, <2>4, <2>5
  <2> QED BY <2>1, <2>2, <2>6 DEF BuilderKnows
<1>15. Registry'
  <2>1. instances[n] = Nothing
    BY DEF Registry
  <2>2. Len(occurrences) + 1 > Len(links) + 1
    BY <1>10, KnownIs DEF BuilderKnows
  <2>3. ASSUME NEW i \in 1 .. Count'
        PROVE  instances[Owner(occurrences'[i].prefix)] =
                  IF i <= Len(links) + 1 THEN occurrences'[i].piece ELSE Nothing
    <3>1. CASE i \in 1 .. Count
      BY <1>8, <3>1 DEF Registry, Count
    <3>2. CASE i = Count + 1
      BY <1>5, <1>8, <2>1, <2>2, <3>2 DEF Count
    <3> QED BY <1>8, <3>1, <3>2 DEF Count
  <2>4. \A m \in Name : instances[m] # Nothing => \E i \in 1 .. Count' : Owner(occurrences'[i].prefix) = m
    BY <1>8 DEF Registry, Count
  <2> QED BY <1>4, <2>3, <2>4 DEF Registry
<1>16. BindingsKnown'
  <2>1. ASSUME NEW j \in DOMAIN overlays PROVE Told(j)' = Told(j)
    <3>1. BindingSound(occurrences, overlays, j)
      BY <1>2 DEF Sound
    <3>2. overlays[j].target[1] \in 1 .. Len(occurrences)
      BY <3>1 DEF BindingSound, IsId
    <3>3. occurrences'[overlays[j].target[1]] = occurrences[overlays[j].target[1]]
      BY <1>8, <3>2
    <3> QED BY <1>1, <3>3 DEF Told, RecordAt
  <2>2. {Told(j) : j \in DOMAIN overlays}' = {Told(j) : j \in DOMAIN overlays}
    BY <1>1, <2>1
  <2> QED BY <1>4, <2>2 DEF BindingsKnown
<1> QED BY <1>14, <1>15, <1>16

(* ... and of a binding, which never collides.                              *)
LEMMA BuilderBind ==
    ASSUME MirrorSound, BuilderKnows, Registry, BindingsKnown,
           NEW id, IsId(occurrences, id),
           NEW c, c = CandidateAt(id[1], id[2]), c.kind \in BindKinds,
           NEW v \in Word,
           \A j \in DOMAIN overlays : overlays[j].target[1] = id[1] =>
              Marker(occurrences, overlays[j].target) # Marker(occurrences, id),
           TwinTold(occurrences, overlays, id, Len(overlays) + 1),
           BindEffects(c, v)
    PROVE  ~Collides(Binding(c, v)) /\ BuilderKnows' /\ Registry' /\ BindingsKnown'
<1> DEFINE record == Marker(occurrences, id)
           b == [kind |-> c.kind, target |-> id,
                 label |-> IF c.kind = "external" THEN c.label ELSE v, value |-> v]
           q == Binding(c, v)
<1>1. /\ MirrorSound' /\ overlays' = Append(overlays, b) /\ c.label = record.label
      /\ occurrences' = occurrences /\ edges' = edges
  BY MirrorBind
<1>2. /\ c.prefix = occurrences[id[1]].prefix /\ c.kind = record.kind
      /\ Sound(occurrences, edges, overlays, satisfied) /\ overlays \in Seq(Overlays)
      /\ c.label \in Word
  BY CandidateIs DEF MirrorSound
<1>3. \A j \in DOMAIN overlays : ~SameSlot(q, Told(j))
  <2> SUFFICES ASSUME NEW j \in DOMAIN overlays, SameSlot(q, Told(j)) PROVE FALSE
    OBVIOUS
  <2>1. /\ Told(j).kind = record.kind /\ Told(j).label = record.label
        /\ Told(j).owner = Owner(occurrences[id[1]].prefix)
    BY <1>1, <1>2 DEF SameSlot, Binding
  <2>2. overlays[j].target[1] = id[1] /\ Marker(occurrences, overlays[j].target) = record
    BY <2>1, SlotFree
  <2> QED BY <2>2
<1>4. \A r \in queued \cup flushing \cup bound : ~SameSlot(q, r)
  BY <1>3 DEF BindingsKnown
<1>5. ~Collides(q)
  BY <1>4 DEF Collides
<1>6. q \notin queued \cup flushing \cup bound
  <2>1. SameSlot(q, q)
    BY DEF SameSlot
  <2> QED BY <1>4, <2>1
<1>7. /\ queued' = queued \cup {q} /\ flushing' = flushing /\ bound' = bound
      /\ deferred' = deferred /\ draining' = draining /\ links' = links /\ instances' = instances
  BY <1>5 DEF BindEffects, builder
<1>8. b \in Overlays /\ b.target = id /\ b.kind = c.kind /\ b.value = v
  BY <1>2 DEF Overlays, IsId
<1> HIDE DEF b
<1>9. /\ DOMAIN overlays' = DOMAIN overlays \cup {Len(overlays) + 1}
      /\ \A j \in DOMAIN overlays : overlays'[j] = overlays[j]
      /\ overlays'[Len(overlays) + 1] = b
  BY <1>1, <1>2, <1>8, Appended
<1>10. \A j \in DOMAIN overlays : Told(j)' = Told(j)
  BY <1>1, <1>9 DEF Told, RecordAt
<1>11. PICK N : N = Len(overlays) + 1
  OBVIOUS
<1>12. Told(N)' = q
  <2>1. overlays'[N].kind = c.kind /\ overlays'[N].target = id /\ overlays'[N].value = v
    BY <1>8, <1>9, <1>11
  <2> QED BY <1>1, <1>2, <2>1 DEF Told, RecordAt, Marker, Binding
<1>13. {Told(j) : j \in DOMAIN overlays}' = {Told(j) : j \in DOMAIN overlays} \cup {q}
  BY <1>9, <1>10, <1>11, <1>12
<1>14. BindingsKnown'
  <2> HIDE DEF q
  <2> QED BY <1>6, <1>7, <1>13 DEF BindingsKnown
<1>15. BuilderKnows'
  <2>1. Known' = Known
    BY <1>7 DEF Known
  <2> QED BY <1>1, <1>7, <2>1 DEF BuilderKnows
<1>16. Registry'
  BY <1>1, <1>7 DEF Registry, Count
<1> QED BY <1>5, <1>14, <1>15, <1>16

-----------------------------------------------------------------------------
(* An adapter build is never refused: what it drains is what it may.        *)
LEMMA SameMirror ==
    ASSUME MirrorSound, lower' = lower
    PROVE  MirrorSound'
BY DEF MirrorSound, lower, RecordAt

LEMMA BuildStarts ==
    ASSUME Mirror, StartBuild
    PROVE  Mirror' /\ lower' = lower /\ stage' = "insertions"
<1>1. /\ stage = "idle" /\ stage' = "insertions" /\ draining' = deferred /\ deferred' = <<>>
      /\ raised' = FALSE /\ lower' = lower /\ flushing' = flushing /\ queued' = queued
      /\ instances' = instances /\ links' = links /\ bound' = bound
  BY DEF StartBuild, builder
<1>2. /\ occurrences' = occurrences /\ edges' = edges /\ overlays' = overlays
      /\ draining = <<>> /\ flushing = {}
  BY <1>1 DEF lower, Mirror, Stages, BindKinds
<1>3. MirrorSound'
  BY <1>1, SameMirror DEF Mirror
<1>4. Known' = Known
  <2>1. links \in Seq(Insertions) /\ deferred \in Seq(Insertions)
    BY DEF Mirror, BuilderKnows
  <2>2. links \o <<>> = links /\ (links \o deferred) \o <<>> = links \o deferred
    BY <2>1, ConcatProperties, ConcatEmptySeq
  <2> QED BY <1>1, <1>2, <2>2 DEF Known
<1>5. BuilderKnows'
  BY <1>1, <1>2, <1>4 DEF Mirror, BuilderKnows
<1>6. Registry'
  BY <1>1, <1>2 DEF Mirror, Registry, Count
<1>7. BindingsKnown'
  BY <1>1, <1>2 DEF Mirror, BindingsKnown, Told, RecordAt
<1>8. Stages'
  BY <1>1, <1>2 DEF Stages, BindKinds
<1> QED BY <1>1, <1>3, <1>5, <1>6, <1>7, <1>8 DEF Mirror

LEMMA EdgeDrains ==
    ASSUME Mirror, DrainEdge
    PROVE  Mirror' /\ lower' = lower /\ stage' = "insertions"
<1> DEFINE e == Head(draining)
<1>1. stage = "insertions" /\ draining # <<>>
  BY DEF DrainEdge
<1>2. /\ flushing = {} /\ deferred = <<>> /\ raised = FALSE
      /\ Sound(occurrences, edges, overlays, satisfied)
      /\ BuilderKnows /\ Registry /\ links \in Seq(Insertions) /\ draining \in Seq(Insertions)
      /\ deferred \in Seq(Insertions)
  BY <1>1 DEF Mirror, Stages, MirrorSound, BuilderKnows, BindKinds
<1>3. PICK N \in Nat : N = Len(links) + 1
  BY <1>2
<1>4. Known = links \o draining /\ Len(Known) = Len(links) + Len(draining)
  <2>1. links \o draining \in Seq(Insertions) /\ Len(links \o draining) = Len(links) + Len(draining)
    BY <1>2, ConcatProperties
  <2>2. (links \o draining) \o <<>> = links \o draining
    BY <2>1, ConcatEmptySeq
  <2> QED BY <1>2, <2>1, <2>2 DEF Known
<1>5. N \in DOMAIN Known /\ Known[N] = e /\ e \in Insertions /\ Tail(draining) \in Seq(Insertions)
      /\ Len(Tail(draining)) = Len(draining) - 1 /\ Len(draining) \in Nat \ {0}
      /\ Len(links) \in Nat
  <2>1. Len(draining) \in Nat \ {0} /\ Len(links) \in Nat /\ e \in Insertions
        /\ Tail(draining) \in Seq(Insertions) /\ Len(Tail(draining)) = Len(draining) - 1
    BY <1>1, <1>2
  <2>2. Known \in Seq(Insertions) /\ DOMAIN Known = 1 .. Len(Known)
    BY <1>2, KnownIs
  <2>3. N \in DOMAIN Known
    BY <1>3, <1>4, <2>1, <2>2
  <2>4. (links \o draining)[N] = draining[1]
    BY <1>1, <1>2, <1>3, <2>1
  <2>5. e = draining[1]
    BY <1>1, <1>2
  <2> QED BY <1>4, <2>1, <2>3, <2>4, <2>5
<1>6. /\ N \in DOMAIN edges /\ N + 1 \in 1 .. Count /\ edges[N].target[1] \in 1 .. N
      /\ edges[N].target[1] \in 1 .. Count
      /\ \A i \in 1 .. Count : occurrences[i].piece \in Piece
      /\ e.owner = Owner(occurrences[edges[N].target[1]].prefix)
      /\ e.source = Owner(occurrences[N + 1].prefix) /\ e.piece = occurrences[N + 1].piece
  <2>1. N \in DOMAIN edges
    <3>1. Len(Known) = Len(edges) /\ DOMAIN Known = 1 .. Len(Known) /\ DOMAIN edges = 1 .. Len(edges)
      BY <1>2, KnownIs DEF BuilderKnows, Sound
    <3> QED BY <1>5, <3>1
  <2>2. N + 1 \in 1 .. Count /\ edges[N].target[1] \in 1 .. N /\ edges[N].target[1] \in 1 .. Count
    BY <1>2, <2>1, EdgesAre DEF Count
  <2>3. \A i \in 1 .. Count : occurrences[i].piece \in Piece
    BY <1>2, EdgesAre, OccurrencesAre DEF Count
  <2> QED BY <1>2, <1>5, <2>1, <2>2, <2>3 DEF BuilderKnows
<1>7. instances[e.source] = Nothing
  BY <1>2, <1>3, <1>6 DEF Registry
<1>8. instances[e.owner] # Nothing
  <2>1. instances[e.owner] = occurrences[edges[N].target[1]].piece
    BY <1>2, <1>3, <1>6 DEF Registry
  <2> QED BY <1>6, <2>1, PieceAssumption
<1>9. /\ instances' = [instances EXCEPT ![e.source] = e.piece]
      /\ links' = Append(links, e) /\ draining' = Tail(draining)
      /\ lower' = lower /\ deferred' = deferred /\ queued' = queued /\ bound' = bound
      /\ stage' = stage /\ flushing' = flushing /\ raised' = raised
  BY <1>7, <1>8 DEF DrainEdge, Registered
<1>10. occurrences' = occurrences /\ edges' = edges /\ overlays' = overlays
  BY <1>9 DEF lower
<1>11. MirrorSound'
  BY <1>9, SameMirror DEF Mirror
<1>12. links' \in Seq(Insertions) /\ Len(links') = Len(links) + 1
  BY <1>2, <1>5, <1>9, Appended
<1>13. Known' = Known
  <2>1. Append(links, e) \o Tail(draining) = links \o draining
    <3>1. draining = << e >> \o Tail(draining)
      BY <1>1, <1>2
    <3> QED BY <1>1, <1>2, <1>5
  <2>2. links' \o draining' = links \o draining
    BY <1>9, <2>1
  <2> QED BY <1>9, <2>2 DEF Known
<1>14. BuilderKnows'
  BY <1>5, <1>9, <1>10, <1>12, <1>13 DEF Mirror, BuilderKnows
<1>15. Registry'
  <2>1. e.source \in Name /\ e.piece \in Piece
    BY <1>5 DEF Insertions
  <2>2. instances' \in [Name -> Piece \cup {Nothing}]
    BY <1>2, <1>9, <2>1 DEF Registry
  <2>3. \A i \in 1 .. Count : Owner(occurrences[i].prefix) = e.source => i = N + 1
    BY <1>2, <1>6 DEF Sound, NamesOnce, Count
  <2>4. \A i \in 1 .. Count : Owner(occurrences[i].prefix) \in Name
    <3>1. \A i \in 1 .. Count : occurrences[i].prefix \in Seq(Name) \ {<<>>}
      BY <1>2, EdgesAre, OccurrencesAre DEF Count
    <3> QED BY <3>1 DEF Owner
  <2>5. ASSUME NEW i \in 1 .. Count
        PROVE  instances'[Owner(occurrences[i].prefix)] =
                  IF i <= N + 1 THEN occurrences[i].piece ELSE Nothing
    <3>1. CASE i = N + 1
      BY <1>2, <1>6, <1>9, <2>1, <3>1 DEF Registry
    <3>2. CASE i # N + 1
      <4>1. Owner(occurrences[i].prefix) # e.source
        BY <2>3, <3>2
      <4>2. instances'[Owner(occurrences[i].prefix)] = instances[Owner(occurrences[i].prefix)]
        BY <1>2, <1>9, <2>1, <2>4, <4>1 DEF Registry
      <4>3. i <= N <=> i <= N + 1
        BY <1>3, <3>2
      <4> QED BY <1>2, <1>3, <4>2, <4>3 DEF Registry
    <3> QED BY <3>1, <3>2
  <2>6. ASSUME NEW m \in Name, instances'[m] # Nothing
        PROVE  \E i \in 1 .. Count : Owner(occurrences[i].prefix) = m
    <3>1. CASE m = e.source
      BY <1>6, <3>1
    <3>2. CASE m # e.source
      BY <1>2, <1>9, <2>6, <3>2 DEF Registry
    <3> QED BY <3>1, <3>2
  <2>7. Len(links') + 1 = N + 1
    BY <1>3, <1>12
  <2> HIDE DEF e
  <2> QED BY <1>10, <2>2, <2>5, <2>6, <2>7 DEF Registry, Count
<1>16. BindingsKnown'
  BY <1>9, <1>10 DEF Mirror, BindingsKnown, Told, RecordAt
<1>17. Stages'
  BY <1>1, <1>2, <1>9 DEF Stages, BindKinds
<1> QED BY <1>1, <1>9, <1>11, <1>14, <1>15, <1>16, <1>17 DEF Mirror

LEMMA BindingsTaken ==
    ASSUME Mirror, NEW kind \in BindKinds, Take(kind), draining = <<>>, deferred = <<>>,
           flushing = {}
    PROVE  Mirror' /\ lower' = lower /\ stage' = kind
<1>1. /\ flushing' = {q \in queued : q.kind = kind} /\ queued' = queued \ flushing'
      /\ stage' = kind /\ lower' = lower /\ deferred' = deferred /\ draining' = draining
      /\ raised' = raised /\ instances' = instances /\ links' = links /\ bound' = bound
  BY DEF Take, builder
<1>2. occurrences' = occurrences /\ edges' = edges /\ overlays' = overlays
  BY <1>1 DEF lower
<1>3. MirrorSound'
  BY <1>1, SameMirror DEF Mirror
<1>4. BuilderKnows'
  BY <1>1, <1>2 DEF Mirror, BuilderKnows, Known
<1>5. Registry'
  BY <1>1, <1>2 DEF Mirror, Registry, Count
<1>6. BindingsKnown'
  <2>1. {Told(j) : j \in DOMAIN overlays}' = {Told(j) : j \in DOMAIN overlays}
    BY <1>2 DEF Told, RecordAt
  <2> QED BY <1>1, <2>1 DEF Mirror, BindingsKnown
<1>7. Stages'
  BY <1>1 DEF Mirror, Stages, BindKinds
<1> QED BY <1>1, <1>3, <1>4, <1>5, <1>6, <1>7 DEF Mirror

LEMMA OwnerBinds ==
    ASSUME Mirror, BindOwner
    PROVE  Mirror' /\ lower' = lower /\ stage' \in BindKinds
<1>1. PICK owner \in {q.owner : q \in flushing} :
        LET group == {q \in flushing : q.owner = owner}
            accepted == instances[owner] # Nothing /\ \A q \in group : Accepts(q)
        IN  \/ /\ accepted
               /\ bound' = bound \cup group
               /\ flushing' = flushing \ group
               /\ UNCHANGED <<lower, held, deferred, queued, instances, links, stage,
                              draining, raised>>
            \/ /\ ~accepted
               /\ UNCHANGED instances
               /\ Abort
  BY DEF BindOwner
<1> DEFINE group == {q \in flushing : q.owner = owner}
<1>2. /\ stage \in BindKinds /\ draining = <<>> /\ deferred = <<>> /\ raised = FALSE
      /\ Sound(occurrences, edges, overlays, satisfied) /\ BuilderKnows /\ Registry
      /\ links \in Seq(Insertions) /\ BindingsKnown /\ MirrorSound
  BY DEF BindOwner, Mirror, Stages, MirrorSound, BuilderKnows, BindKinds
<1>3. Len(links) = Len(edges)
  <2>1. Len(draining) = 0 /\ Len(deferred) = 0
    BY <1>2
  <2> QED BY <1>2, <2>1, KnownIs DEF BuilderKnows
<1>4. \A i \in 1 .. Count : /\ instances[Owner(occurrences[i].prefix)] = occurrences[i].piece
                            /\ occurrences[i].piece \in Piece
  <2>1. \A i \in 1 .. Count : occurrences[i].piece \in Piece
    BY <1>2, EdgesAre, OccurrencesAre DEF Count
  <2>2. Count > 0 => Count = Len(links) + 1
    <3>1. Count > 0 => occurrences # <<>>
      BY DEF Count
    <3> QED BY <1>2, <1>3, <3>1 DEF Sound, OneRoot, Count
  <2>3. Count \in Nat
    BY <1>2, EdgesAre DEF Count
  <2>4. ASSUME NEW i \in 1 .. Count
        PROVE  instances[Owner(occurrences[i].prefix)] = occurrences[i].piece
    <3>1. i <= Len(links) + 1
      BY <2>2, <2>3
    <3> QED BY <1>2, <3>1 DEF Registry
  <2> QED BY <2>1, <2>4
<1>5. ASSUME NEW q \in flushing
      PROVE  instances[q.owner] # Nothing /\ Accepts(q)
  <2>1. PICK j \in DOMAIN overlays : q = Told(j)
    BY <1>2, Zenon DEF BindingsKnown
  <2> DEFINE t == overlays[j].target
  <2>2. IsId(occurrences, t) /\ Marker(occurrences, t).kind = overlays[j].kind
    BY <1>2 DEF Sound, BindingSound
  <2>3. /\ t[1] \in 1 .. Count /\ q.owner = Owner(occurrences[t[1]].prefix)
        /\ q.kind = Marker(occurrences, t).kind /\ q.label = Marker(occurrences, t).label
    BY <2>1, <2>2 DEF Told, IsId, RecordAt, Marker, Count
  <2>4. instances[q.owner] = occurrences[t[1]].piece /\ instances[q.owner] \in Piece
    BY <1>4, <2>3
  <2>5. Marker(occurrences, t) \in Record
    BY <1>2, <2>2, CandidateIs
  <2>6. Demanded(q)
    <3>1. t[2] \in DOMAIN Records[instances[q.owner]]
      BY <2>2, <2>4 DEF IsId
    <3>2. Records[instances[q.owner]][t[2]] = Marker(occurrences, t)
      BY <2>4 DEF Marker
    <3>3. Marker(occurrences, t) = [kind |-> q.kind, label |-> q.label]
      BY <2>3, <2>5 DEF Record
    <3> QED BY <3>1, <3>2, <3>3 DEF Demanded
  <2>7. ASSUME NEW b \in bound, SameSlot(q, b) PROVE FALSE
    <3>1. PICK k \in DOMAIN overlays : b = Told(k)
      BY <1>2, Zenon DEF BindingsKnown
    <3>2. /\ Told(k).kind = Marker(occurrences, t).kind /\ Told(k).label = Marker(occurrences, t).label
          /\ Told(k).owner = Owner(occurrences[t[1]].prefix)
      BY <2>3, <2>7, <3>1 DEF SameSlot
    <3>3. overlays[k].target[1] = t[1] /\ Marker(occurrences, overlays[k].target) = Marker(occurrences, t)
      BY <1>2, <2>2, <3>2, SlotFree
    <3>4. k = j
      BY <1>2, <3>3 DEF Sound, DemandsOnce
    <3> QED BY <1>2, <2>1, <3>1, <3>4 DEF BindingsKnown
  <2> HIDE DEF t
  <2> QED BY <2>4, <2>6, <2>7, PieceAssumption DEF Accepts
<1>6. instances[owner] # Nothing /\ \A q \in group : Accepts(q)
  BY <1>5
<1>7. /\ bound' = bound \cup group /\ flushing' = flushing \ group
      /\ lower' = lower /\ deferred' = deferred /\ queued' = queued /\ instances' = instances
      /\ links' = links /\ stage' = stage /\ draining' = draining /\ raised' = raised
  BY <1>1, <1>6
<1>8. occurrences' = occurrences /\ edges' = edges /\ overlays' = overlays
  BY <1>7 DEF lower
<1>9. MirrorSound'
  BY <1>2, <1>7, SameMirror
<1>10. BuilderKnows'
  BY <1>2, <1>7, <1>8 DEF BuilderKnows, Known
<1>11. Registry'
  BY <1>2, <1>7, <1>8 DEF Registry, Count
<1>12. BindingsKnown'
  <2>1. {Told(j) : j \in DOMAIN overlays}' = {Told(j) : j \in DOMAIN overlays}
    BY <1>8 DEF Told, RecordAt
  <2> QED BY <1>2, <1>7, <2>1 DEF BindingsKnown
<1>13. Stages'
  BY <1>2, <1>7 DEF Mirror, Stages, BindKinds
<1> QED BY <1>2, <1>7, <1>9, <1>10, <1>11, <1>12, <1>13 DEF Mirror

LEMMA BuildSteps ==
    ASSUME Mirror, Build
    PROVE  /\ Mirror' /\ lower' = lower
           /\ stage \in {"idle", "insertions"} \cup BindKinds
           /\ stage' \in {"idle", "insertions"} \cup BindKinds
<1>1. CASE StartBuild
  BY <1>1, BuildStarts DEF StartBuild
<1>2. CASE DrainEdge
  BY <1>2, EdgeDrains DEF DrainEdge
<1>3. CASE TakeIdentifiers
  <2>1. flushing = {} /\ deferred = <<>> /\ draining = <<>> /\ stage = "insertions"
    BY <1>3 DEF Mirror, Stages, TakeIdentifiers, BindKinds
  <2> QED BY <1>3, <2>1, BindingsTaken DEF TakeIdentifiers, BindKinds
<1>4. CASE TakeExternals
  <2>1. flushing = {} /\ deferred = <<>> /\ draining = <<>> /\ stage = "identifier"
    BY <1>4 DEF Mirror, Stages, TakeExternals, BindKinds
  <2> QED BY <1>4, <2>1, BindingsTaken DEF TakeExternals, BindKinds
<1>5. CASE BindOwner
  BY <1>5, OwnerBinds DEF BindOwner
<1>6. CASE EndBuild
  <2>1. /\ stage = "external" /\ flushing = {} /\ stage' = "idle" /\ lower' = lower
        /\ deferred' = deferred /\ queued' = queued /\ instances' = instances /\ links' = links
        /\ bound' = bound /\ draining' = draining /\ flushing' = flushing /\ raised' = raised
    BY <1>6 DEF EndBuild, builder
  <2>2. occurrences' = occurrences /\ edges' = edges /\ overlays' = overlays
    BY <2>1 DEF lower
  <2>3. MirrorSound'
    BY <2>1, SameMirror DEF Mirror
  <2>4. BuilderKnows'
    BY <2>1, <2>2 DEF Mirror, BuilderKnows, Known
  <2>5. Registry'
    BY <2>1, <2>2 DEF Mirror, Registry, Count
  <2>6. BindingsKnown'
    BY <2>1, <2>2 DEF Mirror, BindingsKnown, Told, RecordAt
  <2>7. Stages'
    BY <2>1 DEF Mirror, Stages, BindKinds
  <2> QED BY <2>1, <2>3, <2>4, <2>5, <2>6, <2>7 DEF Mirror, BindKinds
<1> QED BY <1>1, <1>2, <1>3, <1>4, <1>5, <1>6 DEF Build, Flush

-----------------------------------------------------------------------------
(* The two states in step: the native one is the mirror.                    *)
LEMMA BindingsAlike ==
    ASSUME NEW placed, NEW inserted, NEW bindings, NEW others, NEW filled,
           Sound(placed, inserted, bindings, filled), DOMAIN others = DOMAIN bindings,
           \A j \in DOMAIN bindings : /\ others[j].kind = bindings[j].kind
                                      /\ others[j].target = bindings[j].target
                                      /\ others[j].label = bindings[j].label
    PROVE  Sound(placed, inserted, others, filled)
<1>1. \A j \in DOMAIN others : BindingSound(placed, others, j)
  BY DEF Sound, BindingSound
<1>2. DemandsOnce(placed, others)
  BY DEF Sound, DemandsOnce
<1>3. FilledBy(placed, inserted, others) = FilledBy(placed, inserted, bindings)
  <2>1. {others[j].target : j \in DOMAIN others} = {bindings[j].target : j \in DOMAIN bindings}
    OBVIOUS
  <2> QED BY <2>1 DEF FilledBy
<1>4. ValuesFirst(placed, others)
  BY DEF Sound, ValuesFirst, TwinTold
<1> QED BY <1>1, <1>2, <1>3, <1>4 DEF Sound

OverlaysAlike ==
    /\ Len(nOverlays) = Len(overlays)
    /\ \A j \in DOMAIN overlays :
          nOverlays[j] = [kind |-> overlays[j].kind, target |-> overlays[j].target,
                          label |-> overlays[j].label]
InStep ==
    /\ nOccurrences = occurrences /\ nEdges = edges /\ nSatisfied = satisfied
    /\ OverlaysAlike

LEMMA NothingPending ==
    ASSUME MirrorSound, NativeSound, Ahead, Pending, events = <<>>
    PROVE  InStep
<1>1. /\ Sound(occurrences, edges, overlays, satisfied) /\ overlays \in Seq(Overlays)
      /\ Sound(nOccurrences, nEdges, nOverlays, nSatisfied) /\ nOverlays \in Seq(NOverlays)
      /\ occurrences \in Seq(Occurrences) /\ nOccurrences \in Seq(Occurrences)
      /\ edges \in Seq(LowerEdges) /\ nEdges \in Seq(LowerEdges)
  BY DEF MirrorSound, NativeSound, Sound
<1>2. Insertings = {} /\ Bindeds = {}
  BY DEF Insertings, Bindeds
<1>3. Len(nOccurrences) = Len(occurrences)
  <2>1. \A o \in Count + 1 .. Len(nOccurrences) : FALSE
    BY <1>2 DEF Pending
  <2>2. Count <= Len(nOccurrences) /\ Count \in Nat /\ Len(nOccurrences) \in Nat
    BY <1>1 DEF Ahead, Count
  <2>3. ~(Count + 1 <= Len(nOccurrences))
    BY <2>1, <2>2
  <2> QED BY <2>2, <2>3 DEF Count
<1>4. Len(nOverlays) = Len(overlays)
  BY <1>1, <1>2 DEF Pending, Ahead
<1>5. nOccurrences = occurrences
  BY <1>1, <1>3 DEF Ahead, Count
<1>6. nEdges = edges
  <2>1. DOMAIN nEdges = DOMAIN edges
    BY <1>1, <1>5, EdgesAre
  <2> QED BY <1>1, <2>1 DEF Ahead
<1>7. OverlaysAlike
  BY <1>4 DEF OverlaysAlike, Ahead
<1>8. DOMAIN nOverlays = DOMAIN overlays
  BY <1>1, <1>4
<1>9. nSatisfied = satisfied
  <2>1. nSatisfied = FilledBy(nOccurrences, nEdges, nOverlays) /\ satisfied = FilledBy(occurrences, edges, overlays)
    BY <1>1 DEF Sound
  <2>2. {nOverlays[j].target : j \in DOMAIN nOverlays} = {overlays[j].target : j \in DOMAIN overlays}
    BY <1>7, <1>8 DEF OverlaysAlike
  <2> QED BY <1>5, <1>6, <2>1, <2>2 DEF FilledBy
<1> QED BY <1>5, <1>6, <1>7, <1>9 DEF InStep

HandlesKnown ==
    \A i \in 1 .. Count : occurrences[i].prefix \in DOMAIN handles
                            /\ handles[occurrences[i].prefix] = i

LEMMA InStepHolds ==
    MirrorSound /\ InStep /\ HandlesKnown /\ nOverlays \in Seq(NOverlays) /\ events = <<>>
        => NativeSound /\ Ahead /\ Pending
<1> SUFFICES ASSUME MirrorSound, InStep, HandlesKnown, nOverlays \in Seq(NOverlays), events = <<>>
             PROVE  NativeSound /\ Ahead /\ Pending
  OBVIOUS
<1>1. Sound(occurrences, edges, overlays, satisfied) /\ overlays \in Seq(Overlays)
  BY DEF MirrorSound
<1>2. DOMAIN nOverlays = DOMAIN overlays /\ Len(overlays) \in Nat
      /\ Len(nOverlays) = Len(overlays)
  BY <1>1 DEF InStep, OverlaysAlike
<1>3. Sound(occurrences, edges, nOverlays, satisfied)
  <2>1. \A j \in DOMAIN overlays : /\ nOverlays[j].kind = overlays[j].kind
                                   /\ nOverlays[j].target = overlays[j].target
                                   /\ nOverlays[j].label = overlays[j].label
    <3> SUFFICES ASSUME NEW j \in DOMAIN overlays
                 PROVE  /\ nOverlays[j].kind = overlays[j].kind
                        /\ nOverlays[j].target = overlays[j].target
                        /\ nOverlays[j].label = overlays[j].label
      OBVIOUS
    <3>1. nOverlays[j] = [kind |-> overlays[j].kind, target |-> overlays[j].target,
                          label |-> overlays[j].label]
      BY DEF InStep, OverlaysAlike
    <3> HIDE DEF MirrorSound
    <3> QED BY <3>1
  <2> QED BY <1>1, <1>2, <2>1, BindingsAlike
<1>4. NativeSound
  BY <1>3 DEF NativeSound, InStep
<1>5. Len(nOccurrences) = Count /\ Count \in Nat
  BY <1>1, EdgesAre DEF InStep, Count
<1>6. Ahead
  BY <1>2, <1>5 DEF Ahead, InStep, OverlaysAlike, HandlesKnown
<1>7. Insertings = {} /\ Bindeds = {} /\ DOMAIN events = {}
  BY DEF Insertings, Bindeds
<1>8. Count + 1 .. Len(nOccurrences) = {} /\ Len(overlays) + 1 .. Len(nOverlays) = {}
  BY <1>2, <1>5
<1>9. Pending
  BY <1>7, <1>8 DEF Pending
<1> QED BY <1>4, <1>6, <1>9

LEMMA InStepHoldsNext ==
    ASSUME MirrorSound', InStep', HandlesKnown', nOverlays' \in Seq(NOverlays), events' = <<>>
    PROVE  (NativeSound /\ Ahead /\ Pending)'
<1>1. (MirrorSound /\ InStep /\ HandlesKnown /\ nOverlays \in Seq(NOverlays) /\ events = <<>>
         => NativeSound /\ Ahead /\ Pending)'
  BY InStepHolds, PTL
<1> QED BY <1>1

(* The native half of a single call says what the mirror's half says.       *)
LEMMA HandleAdded ==
    ASSUME HandlesKnown, NEW placed, placed = occurrences, placed \in Seq(Occurrences),
           NEW o \in Occurrences, \A i \in 1 .. Len(placed) : placed[i].prefix # o.prefix,
           occurrences' = Append(placed, o),
           handles' = With(handles, o.prefix, Len(placed) + 1)
    PROVE  HandlesKnown'
<1>1. /\ Len(occurrences') = Len(placed) + 1 /\ Len(placed) \in Nat
      /\ \A i \in 1 .. Len(placed) : occurrences'[i] = placed[i]
      /\ occurrences'[Len(placed) + 1] = o
  BY Appended
<1>2. /\ DOMAIN handles' = DOMAIN handles \cup {o.prefix}
      /\ \A x \in DOMAIN handles' :
            handles'[x] = IF x = o.prefix THEN Len(placed) + 1 ELSE handles[x]
  BY DEF With
<1>3. ASSUME NEW i \in 1 .. Len(placed) + 1
      PROVE  occurrences'[i].prefix \in DOMAIN handles' /\ handles'[occurrences'[i].prefix] = i
  <2>1. CASE i = Len(placed) + 1
    BY <1>1, <1>2, <2>1
  <2>2. CASE i \in 1 .. Len(placed)
    BY <1>1, <1>2, <2>2 DEF HandlesKnown, Count
  <2> QED BY <1>1, <2>1, <2>2
<1> QED BY <1>1, <1>3 DEF HandlesKnown, Count

LEMMA IdsAlike ==
    ASSUME HandlesKnown, NEW id, IsId(occurrences, id)
    PROVE  NativeId(id) = id
BY DEF HandlesKnown, IsId, NativeId, Count

LEMMA OnceAppended ==
    ASSUME NEW S, NEW s \in Seq(S), NEW x \in S, NEW t
    PROVE  s \o [i \in 1 .. Cardinality({t}) |-> x] = Append(s, x)
<1>1. Cardinality({t}) = 1
  BY FS_Singleton
<1>2. [i \in 1 .. 1 |-> x] = << x >>
  OBVIOUS
<1>3. s \o << x >> = Append(s, x)
  OBVIOUS
<1> QED BY <1>1, <1>2, <1>3

-----------------------------------------------------------------------------
(* Single calls.                                                            *)
LEMMA SinglyInStep ==
    ASSUME Core, Singly, stage = "idle", engine # "python"
    PROVE  InForce /\ InStep /\ HandlesKnown /\ events = <<>>
<1>1. InForce /\ events = <<>>
  BY DEF Core, Singly, Mode, InForce
<1>2. Ahead /\ Pending
  BY <1>1 DEF Core, Lockstep
<1>3. InStep
  BY <1>1, <1>2, NothingPending DEF Core, Mirror
<1>4. HandlesKnown
  BY <1>2 DEF Ahead, HandlesKnown
<1> QED BY <1>1, <1>3, <1>4

LEMMA SameMode ==
    ASSUME Mode, engine' = engine, batched' = batched, failed' = failed, events' = events,
           stage' = stage, Count > 0 => Count' > 0
    PROVE  Mode'
BY DEF Mode

LEMMA SameNative ==
    ASSUME NativeSound, nOccurrences' = nOccurrences, nEdges' = nEdges, nOverlays' = nOverlays,
           nSatisfied' = nSatisfied, events' = events
    PROVE  NativeSound'
BY DEF NativeSound

LEMMA OpenHole ==
    ASSUME NEW placed, NEW inserted, NEW bindings, NEW filled,
           Sound(placed, inserted, bindings, filled), NEW id, id \notin filled
    PROVE  /\ \A j \in DOMAIN inserted : inserted[j].target = id => Marker(placed, id).kind = "block"
           /\ \A j \in DOMAIN bindings : bindings[j].target # id
BY DEF Sound, FilledBy

LEMMA RootStep ==
    ASSUME Core, NEW n \in Name, NEW p \in Piece, AddRoot(n, p)
    PROVE  /\ Core' /\ occurrences = <<>>
           /\ occurrences' = <<[prefix |-> << n >>, piece |-> p]>> /\ edges' = edges
           /\ edges = <<>> /\ overlays = <<>> /\ overlays' = overlays
           /\ engine # "python" => InStep /\ InStep'
<1> DEFINE o == [prefix |-> << n >>, piece |-> p]
<1>1. /\ Count = 0 /\ stage = "idle" /\ stage' = stage /\ engine' = engine
      /\ UNCHANGED <<satisfied, renames, edges, overlays, held, deferred, queued,
                   links, bound, draining, flushing>>
      /\ UNCHANGED <<nEdges, nOverlays, nSatisfied, literals, events, batched, failed>>
  BY DEF AddRoot, Add
<1>2. Sound(occurrences, edges, overlays, satisfied) /\ MirrorSound /\ BuilderKnows
      /\ Registry /\ BindingsKnown /\ Stages /\ overlays \in Seq(Overlays)
  BY DEF Core, Mirror, MirrorSound
<1>3. occurrences = <<>> /\ edges = <<>> /\ overlays = <<>>
  <2>1. occurrences = <<>>
    BY <1>1, <1>2 DEF Count, Sound
  <2>2. edges = <<>>
    BY <1>2, <2>1 DEF Sound, OneRoot
  <2>3. DOMAIN overlays = {}
    <3> SUFFICES ASSUME NEW j \in DOMAIN overlays PROVE FALSE
      OBVIOUS
    <3>1. overlays[j].target[1] \in 1 .. Len(occurrences)
      BY <1>2 DEF Sound, BindingSound, IsId
    <3> QED BY <2>1, <3>1
  <2>4. overlays = <<>>
    BY <1>2, <2>3
  <2> QED BY <2>1, <2>2, <2>4
<1>4. /\ raised' = FALSE /\ instances' = [instances EXCEPT ![n] = p]
      /\ occurrences' = << o >>
  <2>1. instances[n] = Nothing
    BY <1>1, <1>2 DEF Registry
  <2>2. raised' = FALSE
    BY <2>1 DEF AddRoot, Add
  <2>3. instances' = [instances EXCEPT ![n] = p] /\ occurrences' = Append(occurrences, o)
    BY <2>2 DEF AddRoot, Add
  <2> QED BY <1>3, <2>2, <2>3
<1>5. Sound(<< o >>, <<>>, <<>>, {}) /\ Sound(<<>>, <<>>, <<>>, {})
  BY SoundRoot, SoundEmpty
<1>6. satisfied = {} /\ renames = {}
  <2>1. satisfied = FilledBy(<<>>, <<>>, <<>>)
    BY <1>2, <1>3 DEF Sound
  <2>2. DOMAIN <<>> = {}
    OBVIOUS
  <2>3. satisfied = {}
    BY <2>1, <2>2 DEF FilledBy
  <2>4. renames = {}
    BY <1>2, <1>3, <2>2 DEF MirrorSound
  <2> QED BY <2>3, <2>4
<1>7. DOMAIN overlays' = {} /\ edges' = <<>> /\ overlays' = <<>> /\ DOMAIN overlays = {}
      /\ Len(edges) = 0 /\ Len(overlays) = 0
  BY <1>1, <1>3
<1>8. o \in Occurrences /\ o.prefix = << n >> /\ o.piece = p /\ Owner(o.prefix) = n
      /\ << n >> \in Seq(Name) \ {<<>>}
  <2>1. << n >> \in Seq(Name) \ {<<>>} /\ Owner(<< n >>) = n
    BY DEF Owner
  <2> QED BY <2>1, OccurrenceMade
<1> HIDE DEF o
<1>9. Count' = 1 /\ occurrences'[1] = o
  BY <1>4 DEF Count
<1>10. MirrorSound'
  <2>1. Sound(occurrences, edges, overlays, satisfied)'
    BY <1>1, <1>3, <1>4, <1>5, <1>6 DEF o
  <2> QED BY <1>1, <1>2, <1>6, <1>7, <2>1 DEF MirrorSound
<1>11. /\ deferred = <<>> /\ draining = <<>> /\ links = <<>> /\ Known = <<>> /\ Known' = <<>>
  <2>1. Len(links) = 0 /\ Len(draining) = 0 /\ Len(deferred) = 0
    BY <1>2, <1>7, KnownIs DEF BuilderKnows
  <2>2. links = <<>> /\ draining = <<>> /\ deferred = <<>>
    BY <1>2, <2>1 DEF BuilderKnows
  <2> QED BY <1>1, <2>2 DEF Known
<1>12. BuilderKnows'
  BY <1>1, <1>2, <1>7, <1>11 DEF BuilderKnows
<1>13. Registry'
  <2>1. instances' \in [Name -> Piece \cup {Nothing}] /\ instances'[n] = p
        /\ \A m \in Name : m # n => instances'[m] = Nothing
    BY <1>1, <1>2, <1>4 DEF Registry
  <2>2. \A i \in 1 .. Count' : occurrences'[i] = o
    BY <1>9
  <2>3. Len(links') = 0 /\ 1 \in 1 .. Count' /\ \A i \in 1 .. Count' : i <= 0 + 1
    BY <1>1, <1>9, <1>11
  <2>4. \A i \in 1 .. Count' : instances'[Owner(occurrences'[i].prefix)] =
             IF i <= Len(links') + 1 THEN occurrences'[i].piece ELSE Nothing
    BY <1>8, <2>1, <2>2, <2>3
  <2>5. \A m \in Name : instances'[m] # Nothing =>
             \E i \in 1 .. Count' : Owner(occurrences'[i].prefix) = m
    BY <1>8, <1>9, <2>1, <2>3
  <2> QED BY <2>1, <2>4, <2>5 DEF Registry
<1>14. BindingsKnown'
  <2>1. queued \cup flushing \cup bound = {}
    BY <1>2, <1>7 DEF BindingsKnown
  <2> QED BY <1>1, <1>7, <2>1 DEF BindingsKnown
<1>15. Stages'
  BY <1>1, <1>2, <1>4 DEF Stages, BindKinds
<1>16. Mode'
  BY <1>1, <1>9, SameMode DEF Core
<1>17. CASE engine = "python"
  <2>1. nOccurrences' = nOccurrences
    BY <1>17 DEF AddRoot
  <2>2. NativeSound'
    BY <1>1, <2>1, SameNative DEF Core
  <2>3. Lockstep'
    BY <1>1, <1>17 DEF Lockstep, InForce
  <2> QED BY <1>1, <1>3, <1>4, <1>10, <1>12, <1>13, <1>14, <1>15, <1>16, <1>17, <2>2, <2>3
          DEF Core, Mirror, o
<1>18. CASE engine # "python"
  <2>1. Singly
    BY <1>1 DEF Core, Mode, Singly
  <2>2. InStep /\ HandlesKnown /\ events = <<>>
    BY <1>1, <1>18, <2>1, SinglyInStep
  <2>3. /\ nOccurrences' = Append(nOccurrences, [prefix |-> << n >>, piece |-> p])
        /\ handles' = With(handles, << n >>, Len(nOccurrences) + 1)
    BY <1>18 DEF AddRoot, AppendNative
  <2>4. nOccurrences' = << o >> /\ nOccurrences = <<>>
    BY <1>3, <2>2, <2>3 DEF InStep, o
  <2>5. InStep'
    BY <1>1, <1>4, <2>2, <2>4 DEF InStep, OverlaysAlike
  <2>6. HandlesKnown'
    <3>1. occurrences \in Seq(Occurrences) /\ Len(occurrences) = 0
          /\ occurrences' = Append(occurrences, o)
      BY <1>3, <1>4, <1>8
    <3>2. handles' = With(handles, o.prefix, Len(occurrences) + 1)
      BY <1>3, <1>8, <2>3, <2>4
    <3>3. \A i \in 1 .. Len(occurrences) : occurrences[i].prefix # o.prefix
      BY <3>1
    <3> QED BY <1>8, <2>2, <3>1, <3>2, <3>3, HandleAdded
  <2>7. nOverlays' \in Seq(NOverlays) /\ events' = <<>>
    BY <1>1, <2>2 DEF Core, NativeSound
  <2>8. (NativeSound /\ Ahead /\ Pending)'
    BY <1>10, <2>5, <2>6, <2>7, InStepHoldsNext
  <2> QED BY <1>1, <1>3, <1>4, <1>10, <1>12, <1>13, <1>14, <1>15, <1>16, <2>2, <2>5, <2>8
          DEF Core, Mirror, Lockstep, o
<1> QED BY <1>17, <1>18

LEMMA WireInsertStep ==
    ASSUME Core, Singly, NEW id, IsId(occurrences, id), id \notin satisfied,
           NEW c, c = CandidateAt(id[1], id[2]),
           NEW n \in Name, NEW p \in Piece, Unused(n), WireInsert(c, p, n)
    PROVE  /\ Core' /\ overlays' = overlays /\ c.prefix = occurrences[id[1]].prefix /\ c.at = id[2]
           /\ Marker(occurrences, id).kind \in HoleKinds
           /\ occurrences' = Append(occurrences, [prefix |-> Append(occurrences[id[1]].prefix, n),
                                                  piece |-> p])
           /\ edges' = Append(edges, [target |-> id, source |-> Count + 1])
           /\ engine # "python" => InStep /\ InStep'
<1> DEFINE path == Append(occurrences[id[1]].prefix, n)
           o == [prefix |-> path, piece |-> p]
           e == [target |-> id, source |-> Count + 1]
<1>1. /\ stage = "idle" /\ stage' = stage /\ raised' = FALSE /\ engine' = engine
      /\ UNCHANGED <<literals, events, batched, failed>> /\ InsertEffects(c, p, n)
      /\ <<p, c.kind>> \in Fits
  BY DEF WireInsert, Insert
<1>2. /\ MirrorSound /\ BuilderKnows /\ Registry /\ BindingsKnown /\ Stages
      /\ Sound(occurrences, edges, overlays, satisfied) /\ overlays \in Seq(Overlays)
  BY DEF Core, Mirror, MirrorSound
<1>3. /\ c.prefix = occurrences[id[1]].prefix /\ c.at = id[2] /\ c.kind = Marker(occurrences, id).kind
      /\ c.prefix \in Seq(Name) \ {<<>>}
  BY <1>2, CandidateIs
<1>4. c.kind \in HoleKinds
  BY <1>1, PieceAssumption
<1>5. \A i \in 1 .. Count : Owner(occurrences[i].prefix) # n
  BY DEF Unused, Fresh
<1>6. \A j \in DOMAIN edges : edges[j].target = id => c.kind = "block"
  BY <1>2, <1>3, OpenHole
<1>7. /\ MirrorSound' /\ overlays' = overlays
      /\ satisfied' = IF c.kind = "block" THEN satisfied ELSE satisfied \cup {id}
  <2>1. MirrorSound'
    BY <1>1, <1>2, <1>4, <1>5, <1>6, MirrorInsert
  <2>2. satisfied' = IF c.kind = "block" THEN satisfied ELSE satisfied \cup {id}
    BY <1>1, <1>2, <1>4, <1>5, <1>6, MirrorInsert
  <2> QED BY <1>1, <2>1, <2>2 DEF InsertEffects
<1>8. /\ occurrences' = Append(occurrences, o) /\ edges' = Append(edges, e)
  <2>1. occurrences' = Append(occurrences, o)
    BY <1>1, <1>3 DEF InsertEffects
  <2>2. edges' = Append(edges, e)
    BY <1>1, <1>2, <1>4, <1>5, <1>6, MirrorInsert
  <2> QED BY <2>1, <2>2
<1>9. BuilderKnows' /\ Registry' /\ BindingsKnown'
  BY <1>1, <1>2, <1>4, <1>5, <1>6, BuilderInsert
<1>10. Stages'
  BY <1>1, <1>2 DEF Stages, InsertEffects, BindKinds
<1>11. /\ o \in Occurrences /\ o.prefix = path /\ Owner(path) = n
       /\ e \in LowerEdges /\ occurrences \in Seq(Occurrences) /\ edges \in Seq(LowerEdges)
  <2>1. path \in Seq(Name) \ {<<>>} /\ Owner(path) = n
    BY <1>3, OwnerAppended
  <2>2. o \in Occurrences
    BY <2>1, OccurrenceMade
  <2>3. id \in Nat \X Nat /\ Count + 1 \in Nat
    BY <1>2, EdgesAre DEF IsId, Count
  <2>4. e \in LowerEdges
    BY <2>3 DEF LowerEdges
  <2> QED BY <1>2, <2>1, <2>2, <2>4 DEF Sound
<1> HIDE DEF o, e
<1>12. Count' > 0
  BY <1>8, <1>11, Appended DEF Count
<1>13. Mode'
  BY <1>1, <1>12, SameMode DEF Core
<1>14. CASE engine = "python"
  <2>1. UNCHANGED native
    BY <1>14 DEF WireInsert
  <2>2. NativeSound'
    BY <1>1, <2>1, SameNative DEF Core, native
  <2>3. Lockstep'
    BY <1>1, <1>14 DEF Lockstep, InForce
  <2> QED BY <1>3, <1>4, <1>7, <1>8, <1>9, <1>10, <1>13, <1>14, <2>2, <2>3 DEF Core, Mirror, o, e
<1>15. CASE engine # "python"
  <2>1. InStep /\ HandlesKnown /\ events = <<>>
    BY <1>1, <1>15, SinglyInStep
  <2>2. InsertNatively(c, p, n)
    BY <1>15 DEF WireInsert
  <2>3. TargetOf(c) = {id} /\ (CHOOSE t \in TargetOf(c) : TRUE) = id /\ NativeId(id) = id
    BY <1>2, <1>3, <2>1, TargetIs, IdsAlike
  <2>4. /\ nOccurrences' = Append(nOccurrences, o) /\ nOverlays' = nOverlays
        /\ handles' = With(handles, path, Len(nOccurrences) + 1)
    BY <1>3, <2>2 DEF InsertNatively, AppendNative, o
  <2>5. nEdges' = Append(nEdges, e)
    <3>1. nEdges' = nEdges \o [i \in 1..Cardinality({id}) |-> [target |-> id, source |-> Len(nOccurrences) + 1]]
      BY <2>2, <2>3 DEF InsertNatively
    <3>2. [target |-> id, source |-> Len(nOccurrences) + 1] = e /\ nEdges = edges
      BY <2>1 DEF InStep, e, Count
    <3>3. nEdges' = nEdges \o [i \in 1..Cardinality({id}) |-> e]
      BY <3>1, <3>2
    <3> QED BY <1>11, <3>2, <3>3, OnceAppended
  <2>6. nSatisfied' = satisfied'
    <3>1. nSatisfied' = nSatisfied \cup {NativeId(t) : t \in Filled(c)}
      BY <2>2 DEF InsertNatively
    <3>2. Filled(c) = IF c.kind = "block" THEN {} ELSE {id}
      BY <2>3 DEF Filled
    <3> QED BY <1>7, <2>1, <2>3, <3>1, <3>2 DEF InStep
  <2>7. InStep'
    BY <1>7, <1>8, <2>1, <2>4, <2>5, <2>6 DEF InStep, OverlaysAlike
  <2>8. HandlesKnown'
    <3>1. handles' = With(handles, o.prefix, Len(occurrences) + 1)
      BY <1>11, <2>1, <2>4 DEF InStep
    <3>2. \A i \in 1 .. Len(occurrences) : occurrences[i].prefix # o.prefix
      BY <1>5, <1>11 DEF Count
    <3> QED BY <1>8, <1>11, <2>1, <3>1, <3>2, HandleAdded
  <2>9. nOverlays' \in Seq(NOverlays) /\ events' = <<>>
    BY <1>1, <2>1, <2>4 DEF Core, NativeSound
  <2>10. (NativeSound /\ Ahead /\ Pending)'
    BY <1>7, <2>7, <2>8, <2>9, InStepHoldsNext
  <2> QED BY <1>3, <1>4, <1>7, <1>8, <1>9, <1>10, <1>13, <2>1, <2>7, <2>10
          DEF Core, Mirror, Lockstep, o, e
<1> QED BY <1>14, <1>15

LEMMA WireBindStep ==
    ASSUME Core, Singly, NEW id, IsId(occurrences, id),
           NEW c, c = CandidateAt(id[1], id[2]),
           NEW v \in Word, Unbound(c), WireBind(c, v),
           \A t \in TargetOf(c) : ValueFirst(occurrences, overlays, t)
    PROVE  /\ Core' /\ c.prefix = occurrences[id[1]].prefix /\ c.at = id[2]
           /\ c.kind = Marker(occurrences, id).kind /\ c.kind \in BindKinds
           /\ c.label = Marker(occurrences, id).label
           /\ occurrences' = occurrences /\ edges' = edges
           /\ overlays' = Append(overlays, [kind |-> c.kind, target |-> id,
                 label |-> IF c.kind = "external" THEN c.label ELSE v, value |-> v])
           /\ \A j \in DOMAIN overlays : overlays[j].target[1] = id[1] =>
                 Marker(occurrences, overlays[j].target) # Marker(occurrences, id)
           /\ engine # "python" => InStep /\ InStep'
<1> DEFINE b == [kind |-> c.kind, target |-> id,
                 label |-> IF c.kind = "external" THEN c.label ELSE v, value |-> v]
           nb == [kind |-> c.kind, target |-> id,
                  label |-> IF c.kind = "external" THEN c.label ELSE v]
<1>1. /\ stage = "idle" /\ stage' = stage /\ raised' = Collides(Binding(c, v)) /\ engine' = engine
      /\ UNCHANGED <<events, batched, failed>> /\ BindEffects(c, v)
      /\ c.kind \in BindKinds
  BY DEF WireBind, Bind
<1>2. /\ MirrorSound /\ BuilderKnows /\ Registry /\ BindingsKnown /\ Stages
      /\ Sound(occurrences, edges, overlays, satisfied) /\ overlays \in Seq(Overlays)
  BY DEF Core, Mirror, MirrorSound
<1>3. /\ c.prefix = occurrences[id[1]].prefix /\ c.at = id[2] /\ c.kind = Marker(occurrences, id).kind
      /\ c.label \in Word
  BY <1>2, CandidateIs
<1>4. TargetOf(c) = {id} /\ (CHOOSE t \in TargetOf(c) : TRUE) = id
  BY <1>2, <1>3, TargetIs
<1>5. \A j \in DOMAIN overlays : overlays[j].target[1] = id[1] =>
         Marker(occurrences, overlays[j].target) # Marker(occurrences, id)
  BY <1>4 DEF Unbound, RecordAt, Marker
<1>14. TwinTold(occurrences, overlays, id, Len(overlays) + 1)
  BY <1>2, <1>4, TwinIsTold
<1>6. /\ MirrorSound' /\ overlays' = Append(overlays, b) /\ satisfied' = satisfied \cup {id}
      /\ c.label = Marker(occurrences, id).label /\ occurrences' = occurrences /\ edges' = edges
  BY <1>1, <1>2, <1>5, <1>14, MirrorBind
<1>7. ~Collides(Binding(c, v)) /\ BuilderKnows' /\ Registry' /\ BindingsKnown'
  BY <1>1, <1>2, <1>5, <1>14, BuilderBind
<1>8. Stages'
  BY <1>1, <1>2, <1>7 DEF Stages, BindEffects, BindKinds
<1>9. Mode'
  BY <1>1, <1>6, SameMode DEF Core, Count
<1>10. b \in Overlays /\ nb \in NOverlays
  BY <1>1, <1>3 DEF Overlays, NOverlays, IsId
<1>11. nb = [kind |-> b.kind, target |-> b.target, label |-> b.label]
  OBVIOUS
<1> HIDE DEF b, nb
<1>12. CASE engine = "python"
  <2>1. UNCHANGED native
    BY <1>12 DEF WireBind
  <2>2. NativeSound'
    BY <1>1, <2>1, SameNative DEF Core, native
  <2>3. Lockstep'
    BY <1>1, <1>12 DEF Lockstep, InForce
  <2> QED BY <1>1, <1>3, <1>5, <1>6, <1>7, <1>8, <1>9, <1>12, <2>2, <2>3 DEF Core, Mirror, b
<1>13. CASE engine # "python"
  <2>1. InStep /\ HandlesKnown /\ events = <<>>
    BY <1>1, <1>13, SinglyInStep
  <2>2. BindNatively(c, v)
    BY <1>13 DEF WireBind
  <2>3. NativeId(id) = id
    BY <2>1, IdsAlike
  <2>4. nOverlays \in Seq(NOverlays)
    BY DEF Core, NativeSound
  <2>5. nOverlays' = Append(nOverlays, nb)
    <3>1. nOverlays' = nOverlays \o [i \in 1..Cardinality({id}) |-> nb]
      BY <1>4, <2>2, <2>3 DEF BindNatively, nb
    <3> QED BY <1>10, <2>4, <3>1, OnceAppended
  <2>6. nSatisfied' = satisfied'
    <3>1. nSatisfied' = nSatisfied \cup {NativeId(t) : t \in Filled(c)}
      BY <2>2 DEF BindNatively
    <3>2. Filled(c) = {id}
      BY <1>1, <1>4 DEF Filled, BindKinds
    <3> QED BY <1>6, <2>1, <2>3, <3>1, <3>2 DEF InStep
  <2>7. /\ nOccurrences' = nOccurrences /\ nEdges' = nEdges /\ handles' = handles
    BY <2>2 DEF BindNatively
  <2>8. OverlaysAlike'
    <3>1. /\ Len(overlays') = Len(overlays) + 1 /\ DOMAIN overlays' = DOMAIN overlays \cup {Len(overlays) + 1}
          /\ \A j \in DOMAIN overlays : overlays'[j] = overlays[j]
          /\ overlays'[Len(overlays) + 1] = b
      BY <1>2, <1>6, <1>10, Appended
    <3>2. /\ Len(nOverlays') = Len(nOverlays) + 1
          /\ \A j \in DOMAIN nOverlays : nOverlays'[j] = nOverlays[j]
          /\ nOverlays'[Len(nOverlays) + 1] = nb
      BY <1>10, <2>4, <2>5, Appended
    <3>3. Len(nOverlays) = Len(overlays) /\ DOMAIN nOverlays = DOMAIN overlays
      BY <1>2, <2>1, <2>4 DEF InStep, OverlaysAlike
    <3>4. \A j \in DOMAIN overlays' :
             nOverlays'[j] = [kind |-> overlays'[j].kind, target |-> overlays'[j].target,
                              label |-> overlays'[j].label]
      <4>1. \A j \in DOMAIN overlays :
               nOverlays[j] = [kind |-> overlays[j].kind, target |-> overlays[j].target,
                               label |-> overlays[j].label]
        BY <2>1 DEF InStep, OverlaysAlike
      <4> QED BY <1>11, <3>1, <3>2, <3>3, <4>1
    <3> QED BY <3>1, <3>2, <3>3, <3>4 DEF OverlaysAlike
  <2>9. InStep'
    BY <1>6, <2>1, <2>6, <2>7, <2>8 DEF InStep
  <2>10. HandlesKnown'
    BY <1>6, <2>1, <2>7 DEF HandlesKnown, Count
  <2>11. nOverlays' \in Seq(NOverlays) /\ events' = <<>>
    BY <1>1, <1>10, <2>1, <2>4, <2>5, Appended
  <2>12. (NativeSound /\ Ahead /\ Pending)'
    BY <1>6, <2>9, <2>10, <2>11, InStepHoldsNext
  <2> QED BY <1>1, <1>3, <1>5, <1>6, <1>7, <1>8, <1>9, <2>1, <2>9, <2>12
          DEF Core, Mirror, Lockstep, b
<1> QED BY <1>12, <1>13

-----------------------------------------------------------------------------
(* Adapter builds, and batches on the native side.                          *)
LEMMA LockstepKept ==
    ASSUME Lockstep, lower' = lower, nOccurrences' = nOccurrences, nEdges' = nEdges,
           nOverlays' = nOverlays, handles' = handles, events' = events, InForce' => InForce
    PROVE  Lockstep'
<1>1. occurrences' = occurrences /\ edges' = edges /\ overlays' = overlays
  BY DEF lower
<1>2. Insertings' = Insertings /\ Bindeds' = Bindeds
  BY DEF Insertings, Bindeds
<1>3. Ahead => Ahead'
  BY <1>1 DEF Ahead, Count
<1>4. \A e : InsertPending(e) => InsertPending(e)'
  BY <1>1 DEF InsertPending, Count
<1>5. \A e : BindPending(e) => BindPending(e)'
  BY <1>1 DEF BindPending
<1>6. Pending => Pending'
  <2> SUFFICES ASSUME Pending PROVE Pending'
    OBVIOUS
  <2>1. \A k \in Insertings' : InsertPending(events[k])'
    BY <1>2, <1>4 DEF Pending, InsertPending
  <2>2. \A k \in Bindeds' : BindPending(events[k])'
    BY <1>2, <1>5 DEF Pending, BindPending
  <2> QED BY <1>1, <1>2, <2>1, <2>2 DEF Pending, Count
<1> QED BY <1>3, <1>6 DEF Lockstep

LEMMA SameStages ==
    ASSUME Mirror, lower' = lower, deferred' = deferred, queued' = queued,
           builder' = builder, draining' = draining, flushing' = flushing, raised' = FALSE,
           stage \in {"idle", "batch", "replay"}, stage' \in {"idle", "batch", "replay"}
    PROVE  Mirror'
<1>1. occurrences' = occurrences /\ edges' = edges /\ overlays' = overlays
      /\ instances' = instances /\ links' = links /\ bound' = bound
  BY DEF lower, builder
<1>2. MirrorSound'
  BY SameMirror DEF Mirror
<1>3. BuilderKnows'
  BY <1>1 DEF Mirror, BuilderKnows, Known
<1>4. Registry'
  BY <1>1 DEF Mirror, Registry, Count
<1>5. BindingsKnown'
  <2>1. {Told(j) : j \in DOMAIN overlays}' = {Told(j) : j \in DOMAIN overlays}
    BY <1>1 DEF Told, RecordAt
  <2> QED BY <1>1, <2>1 DEF Mirror, BindingsKnown
<1>6. Stages'
  BY DEF Mirror, Stages, BindKinds
<1> QED BY <1>2, <1>3, <1>4, <1>5, <1>6 DEF Mirror

LEMMA AdaptStep ==
    ASSUME Core, Singly, Adapt
    PROVE  Core' /\ lower' = lower
<1>1. /\ Build /\ UNCHANGED <<engine, native, scope, asked>>
  BY DEF Adapt
<1>2. /\ Mirror' /\ lower' = lower
      /\ stage \in {"idle", "insertions"} \cup BindKinds
      /\ stage' \in {"idle", "insertions"} \cup BindKinds
  BY <1>1, BuildSteps DEF Core
<1>3. engine' = engine /\ batched' = batched /\ failed' = failed /\ events' = events
      /\ handles' = handles
  BY <1>1 DEF scope
<1>4. stage \notin {"batch", "replay"} /\ stage' \notin {"batch", "replay"}
  BY <1>2 DEF BindKinds
<1>5. Mode'
  BY <1>2, <1>3, <1>4 DEF Core, Mode, Singly, lower, Count
<1>6. nOccurrences' = nOccurrences /\ nEdges' = nEdges /\ nOverlays' = nOverlays
      /\ nSatisfied' = nSatisfied
  BY <1>1 DEF native
<1>7. NativeSound'
  BY <1>3, <1>6, SameNative DEF Core
<1>8. Lockstep'
  BY <1>2, <1>3, <1>6, LockstepKept DEF Core, InForce
<1> QED BY <1>2, <1>5, <1>7, <1>8 DEF Core

LEMMA BatchStarts ==
    ASSUME Core, StartBatch, Count > 0, ~(engine = "mirrored" /\ failed)
    PROVE  Core' /\ lower' = lower
<1>1. /\ stage = "idle" /\ engine # "python" /\ stage' = "batch" /\ batched' = TRUE
      /\ raised' = FALSE /\ lower' = lower /\ builder' = builder /\ deferred' = deferred
      /\ queued' = queued /\ draining' = draining /\ flushing' = flushing
      /\ engine' = engine /\ handles' = handles /\ events' = events /\ failed' = failed
      /\ nOccurrences' = nOccurrences /\ nEdges' = nEdges /\ nOverlays' = nOverlays
      /\ nSatisfied' = nSatisfied
  BY DEF StartBatch, native
<1>2. Mirror'
  BY <1>1, SameStages DEF Core
<1>3. Mode'
  BY <1>1 DEF Core, Mode, lower, Count
<1>4. NativeSound'
  BY <1>1, SameNative DEF Core
<1>5. Lockstep'
  BY <1>1, LockstepKept DEF Core, InForce, Mode
<1> QED BY <1>1, <1>2, <1>3, <1>4, <1>5 DEF Core

LEMMA BatchFails ==
    ASSUME Core, BatchRaises
    PROVE  Core' /\ lower' = lower
<1>1. /\ stage = "batch" /\ stage' = "idle" /\ events' = <<>> /\ failed' = TRUE
      /\ raised' = raised /\ lower' = lower /\ builder' = builder /\ deferred' = deferred
      /\ queued' = queued /\ draining' = draining /\ flushing' = flushing
      /\ engine' = engine /\ handles' = handles /\ batched' = batched
      /\ nOccurrences' = nOccurrences /\ nEdges' = nEdges /\ nOverlays' = nOverlays
      /\ nSatisfied' = nSatisfied
  BY DEF BatchRaises, native
<1>2. Mirror'
  BY <1>1, SameStages DEF Core, Mirror, Stages
<1>3. Mode'
  BY <1>1 DEF Core, Mode, lower, Count
<1>4. NativeSound'
  BY <1>1 DEF Core, NativeSound
<1>5. ~InForce'
  BY <1>1 DEF Core, InForce, Mode
<1> QED BY <1>1, <1>2, <1>3, <1>4, <1>5 DEF Core, Lockstep

LEMMA BatchCommits ==
    ASSUME Core, CommitBatch
    PROVE  Core' /\ lower' = lower
<1>1. /\ stage = "batch" /\ stage' = "idle" /\ events' = <<>> /\ failed' = failed
      /\ raised' = raised /\ lower' = lower /\ builder' = builder /\ deferred' = deferred
      /\ queued' = queued /\ draining' = draining /\ flushing' = flushing
      /\ engine' = engine /\ batched' = batched /\ engine = "native"
      /\ nOccurrences' = nOccurrences /\ nEdges' = nEdges /\ nOverlays' = nOverlays
      /\ nSatisfied' = nSatisfied
  BY DEF CommitBatch, native
<1>2. Mirror'
  BY <1>1, SameStages DEF Core, Mirror, Stages
<1>3. Mode'
  BY <1>1 DEF Core, Mode, lower, Count
<1>4. NativeSound'
  BY <1>1 DEF Core, NativeSound
<1>5. ~InForce'
  BY <1>1 DEF Core, InForce, Mode
<1> QED BY <1>1, <1>2, <1>3, <1>4, <1>5 DEF Core, Lockstep

LEMMA ReplayStarts ==
    ASSUME Core, StartReplay
    PROVE  Core' /\ lower' = lower
<1>1. /\ stage = "batch" /\ stage' = "replay" /\ engine = "mirrored" /\ failed' = failed
      /\ raised' = raised /\ lower' = lower /\ builder' = builder /\ deferred' = deferred
      /\ queued' = queued /\ draining' = draining /\ flushing' = flushing
      /\ engine' = engine /\ batched' = batched /\ handles' = handles /\ events' = events
      /\ nOccurrences' = nOccurrences /\ nEdges' = nEdges /\ nOverlays' = nOverlays
      /\ nSatisfied' = nSatisfied
  BY DEF StartReplay, native, scope
<1>2. Mirror'
  BY <1>1, SameStages DEF Core, Mirror, Stages
<1>3. Mode'
  BY <1>1 DEF Core, Mode, lower, Count
<1>4. NativeSound'
  BY <1>1, SameNative DEF Core
<1>5. Lockstep'
  BY <1>1, LockstepKept DEF Core, InForce
<1> QED BY <1>1, <1>2, <1>3, <1>4, <1>5 DEF Core

LEMMA SameVars ==
    ASSUME Mirror, UNCHANGED vars
    PROVE  Mirror' /\ lower' = lower
<1>1. occurrences' = occurrences /\ edges' = edges /\ overlays' = overlays /\ lower' = lower
      /\ instances' = instances /\ links' = links /\ bound' = bound /\ deferred' = deferred
      /\ draining' = draining /\ queued' = queued /\ flushing' = flushing
      /\ stage' = stage /\ raised' = raised
  BY DEF vars, lower, builder
<1>2. MirrorSound'
  BY <1>1, SameMirror DEF Mirror
<1>3. BuilderKnows'
  BY <1>1 DEF Mirror, BuilderKnows, Known
<1>4. Registry'
  BY <1>1 DEF Mirror, Registry, Count
<1>5. BindingsKnown'
  <2>1. {Told(j) : j \in DOMAIN overlays}' = {Told(j) : j \in DOMAIN overlays}
    BY <1>1 DEF Told, RecordAt
  <2> QED BY <1>1, <2>1 DEF Mirror, BindingsKnown
<1>6. Stages'
  BY <1>1 DEF Mirror, Stages
<1> QED BY <1>1, <1>2, <1>3, <1>4, <1>5, <1>6 DEF Mirror

LEMMA SelectableAre ==
    ASSUME NativeSound, NEW id \in Selectable
    PROVE  /\ IsId(nOccurrences, id) /\ id \notin nSatisfied /\ NRecord(id) = Marker(nOccurrences, id)
           /\ Marker(nOccurrences, id) \in Record /\ nOccurrences[id[1]] \in Occurrences
           /\ nOccurrences[id[1]].prefix \in Seq(Name) \ {<<>>}
<1>1. id \in NIds /\ id \notin nSatisfied
  BY DEF Selectable, NVisible
<1>2. PICK i \in DOMAIN nOccurrences : id \in {i} \X DOMAIN Records[nOccurrences[i].piece]
  BY <1>1, Zenon DEF NIds
<1>3. Sound(nOccurrences, nEdges, nOverlays, nSatisfied) /\ nOccurrences \in Seq(Occurrences)
  BY DEF NativeSound, Sound
<1>4. i \in 1 .. Len(nOccurrences) /\ i \in Nat /\ nOccurrences[i] \in Occurrences
  BY <1>3
<1>5. nOccurrences[i].piece \in Piece /\ nOccurrences[i].prefix \in Seq(Name) \ {<<>>}
  BY <1>4, OccurrencesAre
<1>6. id[1] = i /\ id[2] \in DOMAIN Records[nOccurrences[i].piece] /\ id = <<id[1], id[2]>>
  BY <1>2
<1>7. id[2] \in Nat /\ Records[nOccurrences[i].piece][id[2]] \in Record
  BY <1>5, <1>6, RecordsAre
<1> QED BY <1>1, <1>4, <1>5, <1>6, <1>7 DEF IsId, NRecord, Marker

LEMMA BatchInsertStep ==
    ASSUME Core, NEW id \in Selectable, NEW p \in Piece, NEW n \in Name, Unused(n),
           BatchInsert(id, p, n)
    PROVE  Core'
<1> DEFINE path == Append(nOccurrences[id[1]].prefix, n)
           o == [prefix |-> path, piece |-> p]
           e == [target |-> id, source |-> Len(nOccurrences) + 1]
           E == [kind |-> "insert", target |-> id, path |-> path,
                 source |-> Len(nOccurrences) + 1, name |-> n, piece |-> p]
<1>1. /\ stage = "batch" /\ UNCHANGED vars /\ engine' = engine /\ handles' = handles
      /\ nOverlays' = nOverlays /\ batched' = batched /\ failed' = failed
      /\ nOccurrences' = Append(nOccurrences, o) /\ nEdges' = Append(nEdges, e)
      /\ events' = Append(events, E)
      /\ nSatisfied' = IF NRecord(id).kind = "block" THEN nSatisfied ELSE nSatisfied \cup {id}
      /\ NRecord(id).kind \in HoleKinds
  BY DEF BatchInsert, Hole
<1>2. /\ Mirror /\ Mode /\ NativeSound /\ Lockstep
      /\ Sound(nOccurrences, nEdges, nOverlays, nSatisfied)
      /\ nOccurrences \in Seq(Occurrences) /\ nEdges \in Seq(LowerEdges)
      /\ nOverlays \in Seq(NOverlays) /\ events \in Seq(InsertEvents \cup BindEvents)
  BY DEF Core, NativeSound, Sound
<1>3. /\ IsId(nOccurrences, id) /\ id \notin nSatisfied /\ NRecord(id) = Marker(nOccurrences, id)
      /\ nOccurrences[id[1]].prefix \in Seq(Name) \ {<<>>}
  BY <1>2, SelectableAre
<1>4. path \in Seq(Name) \ {<<>>} /\ Owner(path) = n
  BY <1>3, OwnerAppended
<1>5. /\ o \in Occurrences /\ o.prefix = path /\ o.piece = p
      /\ id \in Nat \X Nat /\ Len(nOccurrences) \in Nat
      /\ id[1] \in 1 .. Len(nOccurrences)
  <2>1. o \in Occurrences
    BY <1>4, OccurrenceMade
  <2>2. id \in Nat \X Nat /\ id[1] \in 1 .. Len(nOccurrences)
    BY <1>3 DEF IsId
  <2> QED BY <1>2, <2>1, <2>2
<1>6. e \in LowerEdges /\ e.target = id
  BY <1>5 DEF LowerEdges
<1>7. E \in InsertEvents
  BY <1>4, <1>5 DEF InsertEvents
<1>8. /\ E.kind = "insert" /\ E.source = Len(nOccurrences) + 1 /\ E.target = id
      /\ E.path = path /\ E.piece = p /\ E.name = n
  OBVIOUS
<1>9. Sound(nOccurrences, nEdges, nOverlays, nSatisfied)'
  <2>1. \A i \in 1 .. Len(nOccurrences) : Owner(nOccurrences[i].prefix) # n
    BY <1>2 DEF Unused
  <2>2. \A j \in DOMAIN nEdges : nEdges[j].target = id => Marker(nOccurrences, id).kind = "block"
    BY <1>2, <1>3, OpenHole
  <2>3. Sound(Append(nOccurrences, o), Append(nEdges, e), nOverlays,
            IF Marker(nOccurrences, id).kind = "block" THEN nSatisfied ELSE nSatisfied \cup {id})
    <3>1. o = [prefix |-> Append(nOccurrences[id[1]].prefix, n), piece |-> p]
          /\ e = [target |-> id, source |-> Len(nOccurrences) + 1]
          /\ Marker(nOccurrences, id).kind \in HoleKinds
      BY <1>1, <1>3
    <3> HIDE DEF o, e
    <3> QED BY <1>2, <1>3, <2>1, <2>2, <3>1, SoundInsert
  <2> HIDE DEF o, e
  <2> QED BY <1>1, <1>3, <2>3
<1> HIDE DEF path, o, e, E
<1>10. events' \in Seq(InsertEvents \cup BindEvents)
  BY <1>1, <1>2, <1>7, Appended
<1>11. NativeSound'
  BY <1>1, <1>2, <1>9, <1>10 DEF NativeSound
<1>12. Mirror' /\ lower' = lower
  BY <1>1, <1>2, SameVars
<1>13. stage' = stage /\ occurrences' = occurrences /\ edges' = edges /\ overlays' = overlays
  BY <1>1, <1>12 DEF vars, lower
<1>14. Mode'
  BY <1>1, <1>2, <1>13 DEF Mode, Count
<1>15. ASSUME InForce' PROVE Ahead' /\ Pending'
  <2>1. Ahead /\ Pending /\ Count > 0
    BY <1>1, <1>2, <1>15 DEF Lockstep, InForce, Mode
  <2>2. /\ Len(nOccurrences') = Len(nOccurrences) + 1
        /\ \A i \in 1 .. Len(nOccurrences) : nOccurrences'[i] = nOccurrences[i]
        /\ nOccurrences'[Len(nOccurrences) + 1] = o
    BY <1>1, <1>2, <1>5, Appended
  <2>3. /\ Len(nEdges') = Len(nEdges) + 1 /\ DOMAIN nEdges = 1 .. Len(nEdges) /\ Len(nEdges) \in Nat
        /\ \A i \in DOMAIN nEdges : nEdges'[i] = nEdges[i]
        /\ nEdges'[Len(nEdges) + 1] = e
    BY <1>1, <1>2, <1>6, Appended
  <2>4. Len(nOccurrences) = Len(nEdges) + 1
    <3>1. nOccurrences # <<>>
      BY <1>5
    <3> QED BY <1>2, <3>1 DEF Sound, OneRoot
  <2>5. Count \in Nat /\ Count <= Len(nOccurrences) /\ DOMAIN edges = 1 .. Count - 1
        /\ Len(overlays) \in Nat
    <3>1. Sound(occurrences, edges, overlays, satisfied) /\ overlays \in Seq(Overlays)
      BY <1>2 DEF Mirror, MirrorSound
    <3> QED BY <2>1, <3>1, EdgesAre DEF Ahead, Count
  <2>6. \A j \in DOMAIN edges : j \in DOMAIN nEdges
    BY <2>3, <2>4, <2>5
  <2>7. Ahead'
    <3>1. \A i \in 1 .. Count : i \in 1 .. Len(nOccurrences)
      BY <1>5, <2>5
    <3>2. Count' = Count /\ Count <= Len(nOccurrences')
      BY <1>5, <1>13, <2>2, <2>5 DEF Count
    <3> QED BY <1>1, <1>13, <2>1, <2>2, <2>3, <2>6, <3>1, <3>2 DEF Ahead
  <2>8. PICK N \in Nat : N = Len(events) + 1
    BY <1>2
  <2>9. /\ DOMAIN events' = DOMAIN events \cup {N} /\ N \notin DOMAIN events
        /\ \A k \in DOMAIN events : events'[k] = events[k] /\ k \in Nat /\ k < N
        /\ events'[N] = E
    BY <1>1, <1>2, <1>7, <2>8, Appended
  <2>10. Insertings' = Insertings \cup {N} /\ Bindeds' = Bindeds
    BY <1>8, <2>9 DEF Insertings, Bindeds, BindKinds
  <2>11. Insertings \subseteq DOMAIN events /\ Bindeds \subseteq DOMAIN events
    BY DEF Insertings, Bindeds
  <2>12. ASSUME NEW k \in Insertings PROVE InsertPending(events[k])'
    <3>1. InsertPending(events[k]) /\ events'[k] = events[k]
      BY <2>1, <2>9, <2>11 DEF Pending
    <3> DEFINE s == events[k].source
    <3>2. s \in Count + 1 .. Len(nOccurrences) /\ s \in Count + 1 .. Len(nOccurrences')
      BY <2>2, <2>5, <1>5, <3>1 DEF InsertPending
    <3>3. s - 1 \in DOMAIN nEdges /\ s \in 1 .. Len(nOccurrences)
      BY <1>5, <2>1, <2>3, <2>4, <2>5, <3>2
    <3>4. nEdges'[s - 1] = nEdges[s - 1] /\ nOccurrences'[s] = nOccurrences[s]
      BY <2>2, <2>3, <3>3
    <3>5. Count' = Count
      BY <1>13 DEF Count
    <3> QED BY <3>1, <3>2, <3>4, <3>5 DEF InsertPending
  <2>13. InsertPending(events[N])'
    <3>1. /\ events'[N].source = Len(nOccurrences) + 1 /\ events'[N].target = id
          /\ events'[N].path = path /\ events'[N].piece = p /\ events'[N].name = n
      BY <1>8, <2>9
    <3>2. Len(nOccurrences) + 1 \in Count + 1 .. Len(nOccurrences')
      BY <1>5, <2>2, <2>5
    <3>3. nEdges'[Len(nOccurrences) + 1 - 1].target = id
      BY <1>6, <2>3, <2>4
    <3>4. nOccurrences'[Len(nOccurrences) + 1] = o /\ Count' = Count
      BY <1>13, <2>2 DEF Count
    <3> QED BY <1>4, <1>5, <3>1, <3>2, <3>3, <3>4 DEF InsertPending
  <2>14. ASSUME NEW k \in Bindeds PROVE BindPending(events[k])'
    <3>1. BindPending(events[k]) /\ events'[k] = events[k]
      BY <2>1, <2>9, <2>11 DEF Pending
    <3> QED BY <1>1, <1>13, <3>1 DEF BindPending
  <2>15. \A q \in Count' + 1 .. Len(nOccurrences') : \E k \in Insertings' : events'[k].source = q
    <3> SUFFICES ASSUME NEW q \in Count' + 1 .. Len(nOccurrences')
                 PROVE  \E k \in Insertings' : events'[k].source = q
      OBVIOUS
    <3>1. q \in Count + 1 .. Len(nOccurrences) \/ q = Len(nOccurrences) + 1
      BY <1>5, <1>13, <2>2, <2>5 DEF Count
    <3>2. CASE q = Len(nOccurrences) + 1
      BY <1>8, <2>9, <2>10, <3>2
    <3>3. CASE q \in Count + 1 .. Len(nOccurrences)
      <4>1. PICK k \in Insertings : events[k].source = q
        BY <2>1, <3>3 DEF Pending
      <4> QED BY <2>9, <2>10, <2>11, <4>1
    <3> QED BY <3>1, <3>2, <3>3
  <2>16. \A q \in Len(overlays') + 1 .. Len(nOverlays') : \E k \in Bindeds' : events'[k].overlay = q
    BY <1>1, <1>13, <2>1, <2>9, <2>10, <2>11 DEF Pending
  <2>17. \A j, k \in Insertings' : j < k => events'[j].source < events'[k].source
    <3>1. \A j \in Insertings : events[j].source <= Len(nOccurrences) /\ events[j].source \in Nat
      <4> SUFFICES ASSUME NEW j \in Insertings
                   PROVE  events[j].source <= Len(nOccurrences) /\ events[j].source \in Nat
        OBVIOUS
      <4>1. InsertPending(events[j])
        BY <2>1 DEF Pending
      <4> QED BY <1>5, <2>5, <4>1 DEF InsertPending
    <3>2. \A j, k \in Insertings : j < k => events[j].source < events[k].source
      BY <2>1 DEF Pending
    <3>3. \A j \in Insertings : j \in Nat /\ j < N /\ events'[j] = events[j]
      BY <2>9, <2>11
    <3>4. events'[N].source = Len(nOccurrences) + 1
      BY <1>8, <2>9
    <3> SUFFICES ASSUME NEW j \in Insertings', NEW k \in Insertings', j < k
                 PROVE  events'[j].source < events'[k].source
      OBVIOUS
    <3>5. CASE j \in Insertings /\ k \in Insertings
      BY <3>2, <3>3, <3>5
    <3>6. CASE j \in Insertings /\ k = N
      BY <1>5, <3>1, <3>3, <3>4, <3>6
    <3>7. j # N
      BY <2>8, <2>10, <3>3
    <3> QED BY <2>10, <3>5, <3>6, <3>7
  <2>18. \A j, k \in Bindeds' : j < k => events'[j].overlay < events'[k].overlay
    <3>1. \A j \in Bindeds : events'[j] = events[j]
      BY <2>9, <2>11
    <3>2. \A j, k \in Bindeds : j < k => events[j].overlay < events[k].overlay
      BY <2>1 DEF Pending
    <3> QED BY <2>10, <3>1, <3>2
  <2>19. \A k \in DOMAIN events' : events'[k].target[1] > Count' =>
            \E j \in Insertings' : j < k /\ events'[j].source = events'[k].target[1]
    <3> SUFFICES ASSUME NEW k \in DOMAIN events', events'[k].target[1] > Count'
                 PROVE  \E j \in Insertings' : j < k /\ events'[j].source = events'[k].target[1]
      OBVIOUS
    <3>0. Count' = Count
      BY <1>13 DEF Count
    <3>1. CASE k \in DOMAIN events
      <4>1. PICK j \in Insertings : j < k /\ events[j].source = events[k].target[1]
        BY <2>1, <2>9, <3>0, <3>1 DEF Pending
      <4> QED BY <2>9, <2>10, <2>11, <3>1, <4>1
    <3>2. CASE k = N
      <4>1. events'[k].target[1] = id[1] /\ id[1] \in Count + 1 .. Len(nOccurrences)
        BY <1>5, <1>8, <2>5, <2>9, <3>0, <3>2
      <4>2. PICK j \in Insertings : events[j].source = id[1]
        BY <2>1, <4>1 DEF Pending
      <4> QED BY <2>9, <2>10, <2>11, <3>2, <4>1, <4>2
    <3> QED BY <2>9, <3>1, <3>2
  <2>20. \A k \in Insertings' : InsertPending(events[k])'
    BY <2>10, <2>12, <2>13
  <2>21. \A k \in Bindeds' : BindPending(events[k])'
    BY <2>10, <2>14
  <2>22. Pending'
    BY <2>15, <2>16, <2>17, <2>18, <2>19, <2>20, <2>21 DEF Pending
  <2> QED BY <2>7, <2>22
<1> QED BY <1>11, <1>12, <1>14, <1>15 DEF Core, Lockstep

LEMMA NLabelIn ==
    ASSUME NativeSound, NEW id, IsId(nOccurrences, id), Marker(nOccurrences, id) \in Record
    PROVE  NLabel(id) \in Word
<1>1. NRecord(id).label \in Word
  BY DEF Record, Marker, NRecord
<1>2. \A j \in DOMAIN nOverlays : nOverlays[j].label \in Word
  <2>1. \A j \in DOMAIN nOverlays : nOverlays[j] \in NOverlays
    BY DEF NativeSound
  <2> QED BY <2>1 DEF NOverlays
<1> DEFINE renaming == {j \in DOMAIN nOverlays :
            /\ nOverlays[j].kind = "identifier"
            /\ nOverlays[j].target[1] = id[1]
            /\ NRecord(nOverlays[j].target).label = NRecord(id).label}
<1>3. renaming = {} => NLabel(id) = NRecord(id).label
  BY DEF NLabel
<1>4. ASSUME renaming # {}
      PROVE  NLabel(id) = nOverlays[CHOOSE j \in renaming : \A k \in renaming : k <= j].label
             /\ (CHOOSE j \in renaming : \A k \in renaming : k <= j) \in renaming
  <2>1. NLabel(id) = nOverlays[CHOOSE j \in renaming : \A k \in renaming : k <= j].label
    BY <1>4 DEF NLabel
  <2>2. \E j \in renaming : \A k \in renaming : k <= j
    <3>1. /\ \A j, k \in DOMAIN nOverlays :
               /\ nOverlays[j].target[1] = nOverlays[k].target[1]
               /\ Marker(nOccurrences, nOverlays[j].target) = Marker(nOccurrences, nOverlays[k].target)
               => j = k
          /\ \A j \in DOMAIN nOverlays : BindingSound(nOccurrences, nOverlays, j)
          /\ \A i \in 1 .. Len(nOccurrences) : nOccurrences[i] \in Occurrences
      BY EdgesAre DEF NativeSound, Sound, DemandsOnce
    <3>2. ASSUME NEW j \in renaming, NEW k \in renaming PROVE j = k
      <4>1. /\ IsId(nOccurrences, nOverlays[j].target) /\ IsId(nOccurrences, nOverlays[k].target)
            /\ Marker(nOccurrences, nOverlays[j].target).kind = Marker(nOccurrences, nOverlays[k].target).kind
            /\ Marker(nOccurrences, nOverlays[j].target).label = Marker(nOccurrences, nOverlays[k].target).label
        BY <3>1, <3>2 DEF BindingSound, NRecord, Marker
      <4>2. Marker(nOccurrences, nOverlays[j].target) \in Record
            /\ Marker(nOccurrences, nOverlays[k].target) \in Record
        BY <3>1, <4>1, OccurrencesAre, RecordsAre DEF IsId, Marker
      <4>3. Marker(nOccurrences, nOverlays[j].target) = Marker(nOccurrences, nOverlays[k].target)
        BY <4>1, <4>2 DEF Record
      <4> QED BY <3>1, <4>3
    <3>3. \A j \in renaming : j \in Nat
      BY DEF NativeSound
    <3> HIDE DEF renaming
    <3>4. PICK j \in renaming : TRUE
      BY <1>4
    <3>5. \A k \in renaming : k <= j
      BY <3>2, <3>3
    <3> QED BY <3>5
  <2> HIDE DEF renaming
  <2> QED BY <2>1, <2>2
<1>5. CASE renaming = {}
  BY <1>1, <1>3, <1>5
<1>6. CASE renaming # {}
  BY <1>2, <1>4, <1>6
<1> QED BY <1>5, <1>6

LEMMA BatchBindStep ==
    ASSUME Core, NEW id \in Selectable, NEW v \in Word, NUnbound(id), BatchBind(id, v),
           ValueFirst(nOccurrences, nOverlays, id)
    PROVE  Core'
<1> DEFINE b == [kind |-> NRecord(id).kind, target |-> id,
                 label |-> IF NRecord(id).kind = "external" THEN NLabel(id) ELSE v]
           E == [kind |-> NRecord(id).kind, target |-> id,
                 overlay |-> Len(nOverlays) + 1, value |-> v]
<1>1. /\ stage = "batch" /\ UNCHANGED vars /\ engine' = engine /\ handles' = handles
      /\ nOccurrences' = nOccurrences /\ batched' = batched /\ failed' = failed
      /\ nOverlays' = Append(nOverlays, b) /\ nEdges' = nEdges
      /\ events' = Append(events, E)
      /\ nSatisfied' = nSatisfied \cup {id}
      /\ NRecord(id).kind \in BindKinds
  BY DEF BatchBind
<1>2. /\ Mirror /\ Mode /\ NativeSound /\ Lockstep
      /\ Sound(nOccurrences, nEdges, nOverlays, nSatisfied)
      /\ nOccurrences \in Seq(Occurrences)
      /\ nOverlays \in Seq(NOverlays) /\ events \in Seq(InsertEvents \cup BindEvents)
  BY DEF Core, NativeSound, Sound
<1>3. /\ IsId(nOccurrences, id) /\ NRecord(id) = Marker(nOccurrences, id)
      /\ Marker(nOccurrences, id) \in Record
  BY <1>2, SelectableAre
<1>4. \A j \in DOMAIN nOverlays :
         nOverlays[j].target[1] = id[1] => Marker(nOccurrences, nOverlays[j].target) # Marker(nOccurrences, id)
  BY DEF NUnbound, NRecord, Marker
<1>5. NRecord(id).kind = "external" => NLabel(id) = NRecord(id).label
  <2> SUFFICES ASSUME NRecord(id).kind = "external" PROVE NLabel(id) = NRecord(id).label
    OBVIOUS
  <2>1. ASSUME NEW j \in DOMAIN nOverlays, nOverlays[j].kind = "identifier",
               nOverlays[j].target[1] = id[1], NRecord(nOverlays[j].target).label = NRecord(id).label
        PROVE  FALSE
    <3>1. BindingSound(nOccurrences, nOverlays, j)
      BY <1>2 DEF Sound
    <3> DEFINE t == nOverlays[j].target
    <3>2. IsId(nOccurrences, t) /\ Marker(nOccurrences, t).kind = "identifier"
      BY <2>1, <3>1 DEF BindingSound
    <3>3. Marker(nOccurrences, t).label = Marker(nOccurrences, id).label
          /\ Marker(nOccurrences, id).kind = "external"
      BY <1>3, <2>1 DEF NRecord, Marker
    <3> QED BY <1>2, <1>3, <1>4, <2>1, <3>2, <3>3, NoTwinBound
  <2>2. {j \in DOMAIN nOverlays :
            /\ nOverlays[j].kind = "identifier"
            /\ nOverlays[j].target[1] = id[1]
            /\ NRecord(nOverlays[j].target).label = NRecord(id).label} = {}
    BY <2>1
  <2> QED BY <2>2 DEF NLabel
<1>6. /\ b \in NOverlays /\ b.target = id /\ b.kind = Marker(nOccurrences, id).kind
      /\ b.kind = "external" => b.label = Marker(nOccurrences, id).label
      /\ b.kind = "identifier" => b.label = v
  <2>1. NLabel(id) \in Word /\ id \in Nat \X Nat
    BY <1>2, <1>3, NLabelIn DEF IsId
  <2> QED BY <1>1, <1>3, <1>5, <2>1 DEF NOverlays
<1>7. /\ E \in BindEvents /\ E.kind = b.kind /\ E.target = id /\ E.value = v
      /\ E.overlay = Len(nOverlays) + 1 /\ E.kind \in BindKinds
  <2>1. Len(nOverlays) + 1 \in Nat /\ id \in Nat \X Nat
    BY <1>2, <1>3 DEF IsId
  <2> QED BY <1>1, <2>1 DEF BindEvents
<1>8. Sound(nOccurrences, nEdges, nOverlays, nSatisfied)'
  <2>1. Marker(nOccurrences, id).kind \in BindKinds
    BY <1>1, <1>3
  <2> HIDE DEF b
  <2>2. Sound(nOccurrences, nEdges, Append(nOverlays, b), nSatisfied \cup {id})
    <3>1. TwinTold(nOccurrences, nOverlays, id, Len(nOverlays) + 1)
      BY <1>2, TwinIsTold
    <3> QED BY <1>2, <1>3, <1>4, <1>6, <2>1, <3>1, SoundBind
  <2> QED BY <1>1, <2>2
<1> HIDE DEF b, E
<1>9. nOverlays' \in Seq(NOverlays) /\ events' \in Seq(InsertEvents \cup BindEvents)
  BY <1>1, <1>2, <1>6, <1>7, Appended
<1>10. NativeSound'
  BY <1>8, <1>9 DEF NativeSound
<1>11. Mirror' /\ lower' = lower
  BY <1>1, <1>2, SameVars
<1>12. stage' = stage /\ occurrences' = occurrences /\ edges' = edges /\ overlays' = overlays
  BY <1>1, <1>11 DEF vars, lower
<1>13. Mode'
  BY <1>1, <1>2, <1>12 DEF Mode, Count
<1>14. ASSUME InForce' PROVE Ahead' /\ Pending'
  <2>1. Ahead /\ Pending
    BY <1>1, <1>2, <1>14 DEF Lockstep, InForce
  <2>2. /\ Len(nOverlays') = Len(nOverlays) + 1 /\ Len(nOverlays) \in Nat
        /\ DOMAIN nOverlays = 1 .. Len(nOverlays)
        /\ \A i \in DOMAIN nOverlays : nOverlays'[i] = nOverlays[i]
        /\ nOverlays'[Len(nOverlays) + 1] = b
    BY <1>1, <1>2, <1>6, Appended
  <2>3. Len(overlays) \in Nat /\ DOMAIN overlays = 1 .. Len(overlays) /\ Len(overlays) <= Len(nOverlays)
    <3>1. overlays \in Seq(Overlays)
      BY <1>2 DEF Mirror, MirrorSound
    <3> QED BY <2>1, <3>1 DEF Ahead
  <2>4. Ahead'
    <3>1. \A j \in DOMAIN overlays : nOverlays'[j] = nOverlays[j]
      BY <2>2, <2>3
    <3> QED BY <1>1, <1>12, <2>1, <2>2, <2>3, <3>1 DEF Ahead, Count
  <2>5. PICK N \in Nat : N = Len(events) + 1
    BY <1>2
  <2>6. /\ DOMAIN events' = DOMAIN events \cup {N} /\ N \notin DOMAIN events
        /\ \A k \in DOMAIN events : events'[k] = events[k] /\ k \in Nat /\ k < N
        /\ events'[N] = E
    BY <1>1, <1>2, <1>7, <2>5, Appended
  <2>7. Insertings' = Insertings /\ Bindeds' = Bindeds \cup {N}
    BY <1>7, <2>6 DEF Insertings, Bindeds, BindKinds
  <2>8. Insertings \subseteq DOMAIN events /\ Bindeds \subseteq DOMAIN events
    BY DEF Insertings, Bindeds
  <2>9. ASSUME NEW k \in Insertings PROVE InsertPending(events[k])'
    <3>1. InsertPending(events[k]) /\ events'[k] = events[k]
      BY <2>1, <2>6, <2>8 DEF Pending
    <3> QED BY <1>1, <1>12, <3>1 DEF InsertPending, Count
  <2>10. ASSUME NEW k \in Bindeds PROVE BindPending(events[k])'
    <3>1. BindPending(events[k]) /\ events'[k] = events[k]
      BY <2>1, <2>6, <2>8 DEF Pending
    <3>2. /\ events[k].overlay \in Len(overlays) + 1 .. Len(nOverlays')
          /\ events[k].overlay \in DOMAIN nOverlays
      BY <2>2, <2>3, <3>1 DEF BindPending
    <3>3. nOverlays'[events[k].overlay] = nOverlays[events[k].overlay]
      BY <2>2, <3>2
    <3> QED BY <1>12, <3>1, <3>2, <3>3 DEF BindPending
  <2>11. BindPending(events[N])'
    <3>1. /\ events'[N].overlay = Len(nOverlays) + 1 /\ events'[N].target = id
          /\ events'[N].kind = b.kind /\ events'[N].value = v
      BY <1>7, <2>6
    <3>2. Len(nOverlays) + 1 \in Len(overlays) + 1 .. Len(nOverlays')
      BY <2>2, <2>3
    <3>3. nOverlays'[Len(nOverlays) + 1] = b
      BY <2>2
    <3> QED BY <1>6, <1>12, <3>1, <3>2, <3>3 DEF BindPending
  <2>12. \A q \in Count' + 1 .. Len(nOccurrences') : \E k \in Insertings' : events'[k].source = q
    BY <1>1, <1>12, <2>1, <2>6, <2>7, <2>8 DEF Pending, Count
  <2>13. \A q \in Len(overlays') + 1 .. Len(nOverlays') : \E k \in Bindeds' : events'[k].overlay = q
    <3> SUFFICES ASSUME NEW q \in Len(overlays') + 1 .. Len(nOverlays')
                 PROVE  \E k \in Bindeds' : events'[k].overlay = q
      OBVIOUS
    <3>1. q \in Len(overlays) + 1 .. Len(nOverlays) \/ q = Len(nOverlays) + 1
      BY <1>12, <2>2, <2>3
    <3>2. CASE q = Len(nOverlays) + 1
      BY <1>7, <2>6, <2>7, <3>2
    <3>3. CASE q \in Len(overlays) + 1 .. Len(nOverlays)
      <4>1. PICK k \in Bindeds : events[k].overlay = q
        BY <2>1, <3>3 DEF Pending
      <4> QED BY <2>6, <2>7, <2>8, <4>1
    <3> QED BY <3>1, <3>2, <3>3
  <2>14. \A j, k \in Insertings' : j < k => events'[j].source < events'[k].source
    <3>1. \A j \in Insertings : events'[j] = events[j]
      BY <2>6, <2>8
    <3>2. \A j, k \in Insertings : j < k => events[j].source < events[k].source
      BY <2>1 DEF Pending
    <3> QED BY <2>7, <3>1, <3>2
  <2>15. \A j, k \in Bindeds' : j < k => events'[j].overlay < events'[k].overlay
    <3>1. \A j \in Bindeds : events[j].overlay <= Len(nOverlays) /\ events[j].overlay \in Nat
      <4> SUFFICES ASSUME NEW j \in Bindeds
                   PROVE  events[j].overlay <= Len(nOverlays) /\ events[j].overlay \in Nat
        OBVIOUS
      <4>1. BindPending(events[j])
        BY <2>1 DEF Pending
      <4> QED BY <2>2, <2>3, <4>1 DEF BindPending
    <3>2. \A j, k \in Bindeds : j < k => events[j].overlay < events[k].overlay
      BY <2>1 DEF Pending
    <3>3. \A j \in Bindeds : j \in Nat /\ j < N /\ events'[j] = events[j]
      BY <2>6, <2>8
    <3>4. events'[N].overlay = Len(nOverlays) + 1
      BY <1>7, <2>6
    <3> SUFFICES ASSUME NEW j \in Bindeds', NEW k \in Bindeds', j < k
                 PROVE  events'[j].overlay < events'[k].overlay
      OBVIOUS
    <3>5. CASE j \in Bindeds /\ k \in Bindeds
      BY <3>2, <3>3, <3>5
    <3>6. CASE j \in Bindeds /\ k = N
      BY <2>2, <3>1, <3>3, <3>4, <3>6
    <3>7. j # N
      BY <2>5, <2>7, <3>3
    <3> QED BY <2>7, <3>5, <3>6, <3>7
  <2>16. \A k \in DOMAIN events' : events'[k].target[1] > Count' =>
            \E j \in Insertings' : j < k /\ events'[j].source = events'[k].target[1]
    <3> SUFFICES ASSUME NEW k \in DOMAIN events', events'[k].target[1] > Count'
                 PROVE  \E j \in Insertings' : j < k /\ events'[j].source = events'[k].target[1]
      OBVIOUS
    <3>0. Count' = Count
      BY <1>12 DEF Count
    <3>1. CASE k \in DOMAIN events
      <4>1. PICK j \in Insertings : j < k /\ events[j].source = events[k].target[1]
        BY <2>1, <2>6, <3>0, <3>1 DEF Pending
      <4> QED BY <2>6, <2>7, <2>8, <3>1, <4>1
    <3>2. CASE k = N
      <4>1. events'[k].target[1] = id[1] /\ id[1] \in Count + 1 .. Len(nOccurrences)
        <5>1. Count \in Nat
          BY <1>2, EdgesAre DEF Mirror, MirrorSound, Count
        <5>2. id[1] \in 1 .. Len(nOccurrences) /\ Len(nOccurrences) \in Nat
          BY <1>2, <1>3 DEF IsId
        <5>3. events'[k].target[1] = id[1]
          BY <1>7, <2>6, <3>2
        <5> QED BY <3>0, <5>1, <5>2, <5>3
      <4>2. PICK j \in Insertings : events[j].source = id[1]
        BY <2>1, <4>1 DEF Pending
      <4> QED BY <2>6, <2>7, <2>8, <3>2, <4>1, <4>2
    <3> QED BY <2>6, <3>1, <3>2
  <2>17. \A k \in Insertings' : InsertPending(events[k])'
    BY <2>7, <2>9
  <2>18. \A k \in Bindeds' : BindPending(events[k])'
    BY <2>7, <2>10, <2>11
  <2>19. Pending'
    BY <2>12, <2>13, <2>14, <2>15, <2>16, <2>17, <2>18 DEF Pending
  <2> QED BY <2>4, <2>19
<1> QED BY <1>10, <1>11, <1>13, <1>14 DEF Core, Lockstep

-----------------------------------------------------------------------------
(* The replay: the first event is the mirror's next.                        *)
LEMMA EventsShift ==
    ASSUME events \in Seq(InsertEvents \cup BindEvents), events # <<>>, events' = Tail(events)
    PROVE  /\ events' \in Seq(InsertEvents \cup BindEvents)
           /\ Head(events) = events[1] /\ 1 \in DOMAIN events
           /\ events[1] \in InsertEvents \cup BindEvents
           /\ \A k \in DOMAIN events' :
                 k \in Nat /\ k + 1 \in DOMAIN events /\ events'[k] = events[k + 1]
           /\ \A k \in DOMAIN events : /\ k \in Nat /\ k >= 1
                 /\ k # 1 => k - 1 \in DOMAIN events' /\ events'[k - 1] = events[k]
<1>1. /\ Len(events) \in Nat /\ Len(events) >= 1 /\ DOMAIN events = 1 .. Len(events)
      /\ Head(events) = events[1]
  OBVIOUS
<1>2. /\ events' \in Seq(InsertEvents \cup BindEvents) /\ Len(events') = Len(events) - 1
      /\ DOMAIN events' = 1 .. Len(events) - 1
      /\ \A k \in 1 .. Len(events) - 1 : events'[k] = events[k + 1]
  BY HeadTailProperties
<1>3. \A k \in DOMAIN events : k # 1 => k - 1 \in DOMAIN events' /\ events'[k - 1] = events[k]
  <2> SUFFICES ASSUME NEW k \in DOMAIN events, k # 1
               PROVE  k - 1 \in DOMAIN events' /\ events'[k - 1] = events[k]
    OBVIOUS
  <2>1. k - 1 \in 1 .. Len(events) - 1 /\ k - 1 + 1 = k
    BY <1>1
  <2>2. events'[k - 1] = events[k - 1 + 1]
    BY <1>2, <2>1
  <2> QED BY <1>2, <2>1, <2>2
<1>4. events[1] \in InsertEvents \cup BindEvents
  BY <1>1
<1> QED BY <1>1, <1>2, <1>3, <1>4

LEMMA EventKinds ==
    /\ \A e \in InsertEvents : e.kind = "insert" /\ e.kind \notin BindKinds
    /\ \A e \in BindEvents : e.kind \in BindKinds /\ e.kind # "insert" /\ e.value \in Word
BY DEF InsertEvents, BindEvents, BindKinds

(* The order of the events that are left, once the first is done.           *)
LEMMA PendingShift ==
    ASSUME events \in Seq(InsertEvents \cup BindEvents), events # <<>>, events' = Tail(events),
           Pending, Count \in Nat, Len(overlays) \in Nat
    PROVE  /\ \A j, k \in Insertings' : j < k => events'[j].source < events'[k].source
           /\ \A j, k \in Bindeds' : j < k => events'[j].overlay < events'[k].overlay
           /\ \A k \in Insertings' : k + 1 \in Insertings /\ events'[k] = events[k + 1]
           /\ \A k \in Bindeds' : k + 1 \in Bindeds /\ events'[k] = events[k + 1]
           /\ \A k \in Insertings : k # 1 => k - 1 \in Insertings' /\ events'[k - 1] = events[k]
           /\ \A k \in Bindeds : k # 1 => k - 1 \in Bindeds' /\ events'[k - 1] = events[k]
<1>1. /\ \A k \in DOMAIN events' :
            k \in Nat /\ k + 1 \in DOMAIN events /\ events'[k] = events[k + 1]
      /\ \A k \in DOMAIN events : /\ k \in Nat /\ k >= 1
            /\ k # 1 => k - 1 \in DOMAIN events' /\ events'[k - 1] = events[k]
  BY EventsShift
<1>2. /\ \A k \in Insertings' : k \in Nat /\ k + 1 \in Insertings /\ events'[k] = events[k + 1]
      /\ \A k \in Bindeds' : k \in Nat /\ k + 1 \in Bindeds /\ events'[k] = events[k + 1]
  BY <1>1 DEF Insertings, Bindeds
<1>3. /\ \A k \in Insertings : k # 1 => k - 1 \in Insertings' /\ events'[k - 1] = events[k]
      /\ \A k \in Bindeds : k # 1 => k - 1 \in Bindeds' /\ events'[k - 1] = events[k]
  BY <1>1 DEF Insertings, Bindeds
<1>4. /\ \A j, k \in Insertings : j < k => events[j].source < events[k].source
      /\ \A j, k \in Bindeds : j < k => events[j].overlay < events[k].overlay
  BY DEF Pending
<1>5. \A j, k \in Insertings' : j < k => events'[j].source < events'[k].source
  <2> SUFFICES ASSUME NEW j \in Insertings', NEW k \in Insertings', j < k
               PROVE  events'[j].source < events'[k].source
    OBVIOUS
  <2>1. j + 1 < k + 1
    BY <1>2
  <2> QED BY <1>2, <1>4, <2>1
<1>6. \A j, k \in Bindeds' : j < k => events'[j].overlay < events'[k].overlay
  <2> SUFFICES ASSUME NEW j \in Bindeds', NEW k \in Bindeds', j < k
               PROVE  events'[j].overlay < events'[k].overlay
    OBVIOUS
  <2>1. j + 1 < k + 1
    BY <1>2
  <2> QED BY <1>2, <1>4, <2>1
<1> QED BY <1>2, <1>3, <1>5, <1>6

LEMMA HeadInserts ==
    ASSUME Core, stage = "replay", events # <<>>, NEW e, e = events[1], e.kind = "insert"
    PROVE  /\ InForce /\ Ahead /\ Pending /\ Count \in Nat \ {0} /\ Count + 1 <= Len(nOccurrences)
           /\ 1 \in Insertings /\ InsertPending(e) /\ e.source = Count + 1
           /\ IsId(occurrences, e.target) /\ e.target[1] \in 1 .. Count
           /\ nEdges[Count] = [target |-> e.target, source |-> Count + 1]
           /\ Marker(occurrences, e.target).kind \in HoleKinds
           /\ e.name \in Name /\ e.piece \in Piece
           /\ nOccurrences[Count + 1] \in Occurrences
           /\ nOccurrences[Count + 1] =
                 [prefix |-> Append(occurrences[e.target[1]].prefix, e.name), piece |-> e.piece]
           /\ \A i \in 1 .. Count : Owner(occurrences[i].prefix) # e.name
           /\ \A j \in DOMAIN edges : edges[j].target = e.target =>
                 Marker(occurrences, e.target).kind = "block"
<1>1. /\ Mirror /\ Mode /\ NativeSound /\ Lockstep
      /\ Sound(nOccurrences, nEdges, nOverlays, nSatisfied)
      /\ nOccurrences \in Seq(Occurrences) /\ events \in Seq(InsertEvents \cup BindEvents)
      /\ Sound(occurrences, edges, overlays, satisfied) /\ occurrences \in Seq(Occurrences)
  BY DEF Core, NativeSound, Sound, Mirror, MirrorSound
<1>2. InForce /\ Ahead /\ Pending /\ Count > 0
  BY <1>1 DEF Mode, InForce, Lockstep
<1>3. /\ DOMAIN events = 1 .. Len(events) /\ 1 \in DOMAIN events
      /\ \A k \in DOMAIN events : k \in Nat /\ k >= 1
      /\ e \in InsertEvents \cup BindEvents
  BY <1>1
<1>4. 1 \in Insertings /\ InsertPending(e)
  BY <1>2, <1>3 DEF Insertings, Pending
<1>5. /\ Count \in Nat \ {0} /\ DOMAIN edges = 1 .. Count - 1 /\ Count <= Len(nOccurrences)
      /\ Len(nOccurrences) \in Nat
  BY <1>1, <1>2, EdgesAre DEF Count, Ahead
<1>6. e.source \in Count + 1 .. Len(nOccurrences)
  BY <1>4 DEF InsertPending
<1>7. Count + 1 \in Count + 1 .. Len(nOccurrences)
  BY <1>5, <1>6
<1>8. e.source = Count + 1
  <2>1. PICK k \in Insertings : events[k].source = Count + 1
    BY <1>2, <1>7 DEF Pending
  <2>2. CASE k = 1
    BY <2>1, <2>2
  <2>3. CASE k # 1
    <3>1. 1 < k
      BY <1>3, <2>3 DEF Insertings
    <3>2. events[1].source < events[k].source
      BY <1>2, <1>4, <3>1 DEF Pending
    <3> QED BY <1>5, <1>6, <2>1, <3>2
  <2> QED BY <2>2, <2>3
<1> DEFINE t == e.target
<1>9. t[1] <= Count
  <2>1. ASSUME t[1] > Count PROVE FALSE
    <3>1. PICK j \in Insertings : j < 1
      BY <1>2, <1>3, <2>1 DEF Pending
    <3> QED BY <1>3, <3>1 DEF Insertings
  <2>2. t[1] \in Nat
    BY <1>3, EventKinds DEF InsertEvents, BindEvents
  <2> QED BY <1>5, <2>1, <2>2
<1>10. /\ Count \in DOMAIN nEdges /\ t = nEdges[Count].target
  <2>1. Count \in DOMAIN nEdges
    BY <1>1, <1>5, <1>7, EdgesAre
  <2>2. e.source - 1 = Count
    BY <1>5, <1>8
  <2> QED BY <1>4, <2>1, <2>2 DEF InsertPending
<1>11. EdgeSound(nOccurrences, nEdges, Count)
  BY <1>1, <1>10 DEF Sound
<1>12. /\ nEdges[Count] = [target |-> t, source |-> Count + 1]
       /\ IsId(nOccurrences, t) /\ Marker(nOccurrences, t).kind \in HoleKinds
       /\ nOccurrences[Count + 1].prefix =
             Append(nOccurrences[t[1]].prefix, Owner(nOccurrences[Count + 1].prefix))
  BY <1>10, <1>11 DEF EdgeSound
<1>13. t[1] \in 1 .. Count /\ nOccurrences[t[1]] = occurrences[t[1]]
  <2>1. t[1] \in 1 .. Count
    BY <1>5, <1>9, <1>12 DEF IsId
  <2> QED BY <1>2, <2>1 DEF Ahead
<1>14. IsId(occurrences, t) /\ Marker(occurrences, t) = Marker(nOccurrences, t)
  BY <1>12, <1>13 DEF IsId, Marker, Count
<1>15. nOccurrences[Count + 1] \in Occurrences
  BY <1>1, <1>5, <1>7
<1>16. /\ e.piece = nOccurrences[Count + 1].piece /\ e.path = nOccurrences[Count + 1].prefix
       /\ e.name = Owner(nOccurrences[Count + 1].prefix)
  BY <1>4, <1>8 DEF InsertPending
<1>17. e.name \in Name /\ e.piece \in Piece
  <2>1. nOccurrences[Count + 1].prefix \in Seq(Name) \ {<<>>} /\ nOccurrences[Count + 1].piece \in Piece
    BY <1>15, OccurrencesAre
  <2> QED BY <1>16, <2>1 DEF Owner
<1>18. nOccurrences[Count + 1] =
          [prefix |-> Append(occurrences[t[1]].prefix, e.name), piece |-> e.piece]
  <2>1. \A o \in Occurrences : o = [prefix |-> o.prefix, piece |-> o.piece]
    BY DEF Occurrences
  <2> QED BY <1>12, <1>13, <1>15, <1>16, <2>1
<1>19. \A i \in 1 .. Count : Owner(occurrences[i].prefix) # e.name
  <2> SUFFICES ASSUME NEW i \in 1 .. Count, Owner(occurrences[i].prefix) = e.name PROVE FALSE
    OBVIOUS
  <2>1. /\ i \in 1 .. Len(nOccurrences) /\ Count + 1 \in 1 .. Len(nOccurrences)
        /\ i # Count + 1 /\ nOccurrences[i] = occurrences[i]
    BY <1>2, <1>5, <1>7 DEF Ahead
  <2> QED BY <1>1, <1>16, <2>1 DEF Sound, NamesOnce
<1>20. \A j \in DOMAIN edges : edges[j].target = t => Marker(occurrences, t).kind = "block"
  <2> SUFFICES ASSUME NEW j \in DOMAIN edges, edges[j].target = t
               PROVE  Marker(occurrences, t).kind = "block"
    OBVIOUS
  <2>1. j # Count /\ j \in DOMAIN nEdges /\ nEdges[j] = edges[j]
    <3>1. DOMAIN nEdges = 1 .. Len(nOccurrences) - 1
      BY <1>1, EdgesAre
    <3> QED BY <1>2, <1>5, <3>1 DEF Ahead
  <2> QED BY <1>1, <1>10, <1>14, <2>1 DEF Sound, HolesOnce
<1>21. Count + 1 <= Len(nOccurrences)
  BY <1>5, <1>7
<1> HIDE DEF t
<1> QED BY <1>2, <1>4, <1>5, <1>8, <1>12, <1>13, <1>14, <1>15, <1>17, <1>18, <1>19, <1>20, <1>21
        DEF t

LEMMA HeadBinds ==
    ASSUME Core, stage = "replay", events # <<>>, NEW e, e = events[1], e.kind \in BindKinds
    PROVE  /\ InForce /\ Ahead /\ Pending /\ Len(overlays) \in Nat /\ Count \in Nat \ {0}
           /\ Len(overlays) + 1 \in DOMAIN nOverlays
           /\ 1 \in Bindeds /\ BindPending(e) /\ e.overlay = Len(overlays) + 1
           /\ IsId(occurrences, e.target) /\ e.target[1] \in 1 .. Count
           /\ nOverlays[Len(overlays) + 1].target = e.target
           /\ nOverlays[Len(overlays) + 1].kind = e.kind
           /\ e.kind = Marker(occurrences, e.target).kind /\ e.value \in Word
           /\ nOverlays[Len(overlays) + 1].label =
                 IF e.kind = "external" THEN Marker(occurrences, e.target).label ELSE e.value
           /\ \A j \in DOMAIN overlays : overlays[j].target[1] = e.target[1] =>
                 Marker(occurrences, overlays[j].target) # Marker(occurrences, e.target)
           /\ TwinTold(occurrences, overlays, e.target, Len(overlays) + 1)
<1>1. /\ Mirror /\ Mode /\ NativeSound /\ Lockstep
      /\ Sound(nOccurrences, nEdges, nOverlays, nSatisfied) /\ nOverlays \in Seq(NOverlays)
      /\ nOccurrences \in Seq(Occurrences) /\ events \in Seq(InsertEvents \cup BindEvents)
      /\ Sound(occurrences, edges, overlays, satisfied) /\ overlays \in Seq(Overlays)
  BY DEF Core, NativeSound, Sound, Mirror, MirrorSound
<1>2. InForce /\ Ahead /\ Pending /\ Count > 0
  BY <1>1 DEF Mode, InForce, Lockstep
<1>3. /\ DOMAIN events = 1 .. Len(events) /\ 1 \in DOMAIN events
      /\ \A k \in DOMAIN events : k \in Nat /\ k >= 1
      /\ e \in InsertEvents \cup BindEvents
  BY <1>1
<1>4. 1 \in Bindeds /\ BindPending(e) /\ e.value \in Word
  <2>1. 1 \in Bindeds /\ BindPending(e)
    BY <1>2, <1>3 DEF Bindeds, Pending
  <2> QED BY <1>3, <2>1, EventKinds
<1>5. /\ Count \in Nat \ {0} /\ Len(overlays) \in Nat /\ Len(nOverlays) \in Nat
      /\ DOMAIN overlays = 1 .. Len(overlays) /\ DOMAIN nOverlays = 1 .. Len(nOverlays)
      /\ Count <= Len(nOccurrences)
  BY <1>1, <1>2, EdgesAre DEF Count, Ahead
<1>6. e.overlay \in Len(overlays) + 1 .. Len(nOverlays)
  BY <1>4 DEF BindPending
<1>7. /\ Len(overlays) + 1 \in Len(overlays) + 1 .. Len(nOverlays)
      /\ Len(overlays) + 1 \in DOMAIN nOverlays
  BY <1>5, <1>6
<1>8. e.overlay = Len(overlays) + 1
  <2>1. PICK k \in Bindeds : events[k].overlay = Len(overlays) + 1
    BY <1>2, <1>7 DEF Pending
  <2>2. CASE k = 1
    BY <2>1, <2>2
  <2>3. CASE k # 1
    <3>1. 1 < k
      BY <1>3, <2>3 DEF Bindeds
    <3>2. events[1].overlay < events[k].overlay
      BY <1>2, <1>4, <3>1 DEF Pending
    <3> QED BY <1>5, <1>6, <2>1, <3>2
  <2> QED BY <2>2, <2>3
<1> DEFINE t == e.target
           N == Len(overlays) + 1
<1>9. t[1] <= Count
  <2>1. ASSUME t[1] > Count PROVE FALSE
    <3>1. PICK j \in Insertings : j < 1
      BY <1>2, <1>3, <2>1 DEF Pending
    <3> QED BY <1>3, <3>1 DEF Insertings
  <2>2. t[1] \in Nat
    BY <1>3 DEF InsertEvents, BindEvents
  <2> QED BY <1>5, <2>1, <2>2
<1>10. /\ t = nOverlays[N].target /\ e.kind = nOverlays[N].kind
       /\ e.kind = "identifier" => nOverlays[N].label = e.value
  BY <1>4, <1>8 DEF BindPending
<1>11. BindingSound(nOccurrences, nOverlays, N)
  BY <1>1, <1>7 DEF Sound
<1>12. /\ IsId(nOccurrences, t) /\ e.kind = Marker(nOccurrences, t).kind
       /\ e.kind = "external" => nOverlays[N].label = Marker(nOccurrences, t).label
  BY <1>10, <1>11 DEF BindingSound
<1>13. t[1] \in 1 .. Count /\ nOccurrences[t[1]] = occurrences[t[1]]
  <2>1. t[1] \in 1 .. Count
    BY <1>5, <1>9, <1>12 DEF IsId
  <2> QED BY <1>2, <2>1 DEF Ahead
<1>14. IsId(occurrences, t) /\ Marker(occurrences, t) = Marker(nOccurrences, t)
  BY <1>12, <1>13 DEF IsId, Marker, Count
<1>15. nOverlays[N].label = IF e.kind = "external" THEN Marker(occurrences, t).label ELSE e.value
  BY <1>10, <1>12, <1>14 DEF BindKinds
<1>16. \A j \in DOMAIN overlays : overlays[j].target[1] = t[1] =>
          Marker(occurrences, overlays[j].target) # Marker(occurrences, t)
  <2> SUFFICES ASSUME NEW j \in DOMAIN overlays, overlays[j].target[1] = t[1],
                      Marker(occurrences, overlays[j].target) = Marker(occurrences, t)
               PROVE  FALSE
    OBVIOUS
  <2>1. j # N /\ j \in DOMAIN nOverlays
    BY <1>5, <1>7
  <2>2. nOverlays[j].target = overlays[j].target
    <3>1. nOverlays[j] = [kind |-> overlays[j].kind, target |-> overlays[j].target,
                          label |-> overlays[j].label]
      BY <1>2 DEF Ahead
    <3> QED BY <3>1
  <2>3. Marker(nOccurrences, nOverlays[j].target) = Marker(nOccurrences, t)
    BY <1>13, <1>14, <2>2 DEF Marker
  <2> QED BY <1>1, <1>7, <1>10, <2>1, <2>2, <2>3 DEF Sound, DemandsOnce
<1>17. TwinTold(occurrences, overlays, t, N)
  <2> SUFFICES ASSUME HasTwin(occurrences, t)
               PROVE  \E j \in DOMAIN overlays :
                         /\ j < N /\ overlays[j].target[1] = t[1]
                         /\ Marker(occurrences, overlays[j].target) = Twin(occurrences, t)
    BY DEF TwinTold
  <2>1. HasTwin(nOccurrences, t) /\ Twin(nOccurrences, t) = Twin(occurrences, t)
    BY <1>13, <1>14 DEF HasTwin, Twin
  <2>2. PICK j \in DOMAIN nOverlays :
           /\ j < N /\ nOverlays[j].target[1] = t[1]
           /\ Marker(nOccurrences, nOverlays[j].target) = Twin(occurrences, t)
    BY <1>1, <1>7, <1>10, <2>1 DEF Sound, ValuesFirst, TwinTold
  <2>3. j \in DOMAIN overlays
    BY <1>5, <2>2
  <2>4. nOverlays[j].target = overlays[j].target
    <3>1. nOverlays[j] = [kind |-> overlays[j].kind, target |-> overlays[j].target,
                          label |-> overlays[j].label]
      BY <1>2, <2>3 DEF Ahead
    <3> QED BY <3>1
  <2>5. Marker(occurrences, overlays[j].target) = Twin(occurrences, t)
    BY <1>13, <2>2, <2>4 DEF Marker
  <2> QED BY <2>2, <2>3, <2>4, <2>5
<1> HIDE DEF t, N
<1> QED BY <1>2, <1>4, <1>5, <1>7, <1>8, <1>10, <1>12, <1>13, <1>14, <1>15, <1>16, <1>17 DEF t, N

LEMMA ReplayInsertStep ==
    ASSUME Core, ReplayEvent, events[1].kind = "insert"
    PROVE  /\ Core' /\ nOccurrences' = nOccurrences /\ literals' = literals
<1> DEFINE e == events[1]
           t == e.target
           o == [prefix |-> Append(occurrences[t[1]].prefix, e.name), piece |-> e.piece]
<1>1. stage = "replay" /\ events # <<>> /\ events' = Tail(events)
  BY DEF ReplayEvent
<1>2. /\ Mirror /\ Mode /\ NativeSound /\ Lockstep /\ MirrorSound /\ BuilderKnows /\ Registry
      /\ BindingsKnown /\ Stages
      /\ events \in Seq(InsertEvents \cup BindEvents) /\ overlays \in Seq(Overlays)
      /\ occurrences \in Seq(Occurrences) /\ edges \in Seq(LowerEdges)
  BY DEF Core, NativeSound, Mirror, MirrorSound, Sound
<1>3. Head(events) = e /\ e.kind \notin BindKinds
  BY <1>1, <1>2, EventsShift DEF BindKinds
<1> DEFINE c == CandidateAt(t[1], t[2])
<1>4. /\ InsertEffects(c, e.piece, e.name) /\ handles' = With(handles, e.path, e.source)
      /\ UNCHANGED <<literals, raised>>
      /\ UNCHANGED <<engine, native, batched, failed>>
      /\ stage' = IF events' = <<>> \/ raised' THEN "idle" ELSE stage
  BY <1>3 DEF ReplayEvent
<1>5. /\ InForce /\ Ahead /\ Pending /\ Count \in Nat \ {0} /\ Count + 1 <= Len(nOccurrences)
      /\ 1 \in Insertings /\ InsertPending(e) /\ e.source = Count + 1
      /\ IsId(occurrences, t) /\ t[1] \in 1 .. Count
      /\ nEdges[Count] = [target |-> t, source |-> Count + 1]
      /\ e.name \in Name /\ e.piece \in Piece
      /\ nOccurrences[Count + 1] \in Occurrences /\ nOccurrences[Count + 1] = o
      /\ \A i \in 1 .. Count : Owner(occurrences[i].prefix) # e.name
  BY <1>1, HeadInserts
<1>6. /\ Marker(occurrences, t).kind \in HoleKinds
      /\ \A j \in DOMAIN edges : edges[j].target = t => Marker(occurrences, t).kind = "block"
  BY <1>1, HeadInserts
<1>7. c.kind = Marker(occurrences, t).kind
  BY <1>2, <1>5, CandidateIs
<1>8. /\ c.kind \in HoleKinds
      /\ \A j \in DOMAIN edges : edges[j].target = t => c.kind = "block"
  BY <1>6, <1>7
<1>9. MirrorSound' /\ overlays' = overlays /\ BuilderKnows' /\ Registry' /\ BindingsKnown'
  <2>1. PICK n \in Name : n = e.name
    BY <1>5
  <2>2. PICK p \in Piece : p = e.piece
    BY <1>5
  <2>3. PICK d : d = c
    OBVIOUS
  <2>4. /\ d = CandidateAt(t[1], t[2]) /\ d.kind \in HoleKinds
        /\ InsertEffects(d, p, n)
        /\ \A i \in 1 .. Count : Owner(occurrences[i].prefix) # n
        /\ \A j \in DOMAIN edges : edges[j].target = t => d.kind = "block"
    BY <1>4, <1>5, <1>8, <2>1, <2>2, <2>3
  <2>5. IsId(occurrences, t)
    BY <1>5
  <2> HIDE DEF t, e, c
  <2>6. MirrorSound'
    BY <1>2, <2>4, <2>5, MirrorInsert
  <2>7. BuilderKnows' /\ Registry' /\ BindingsKnown'
    BY <1>2, <2>4, <2>5, BuilderInsert
  <2> QED BY <2>4, <2>6, <2>7 DEF InsertEffects
<1>10. edges' = Append(edges, nEdges[Count])
  BY <1>2, <1>4, <1>5, <1>8, MirrorInsert
<1>11. occurrences' = Append(occurrences, nOccurrences[Count + 1])
  <2>1. c.prefix = occurrences[t[1]].prefix
    BY <1>2, <1>5, CandidateIs
  <2> QED BY <1>4, <1>5, <2>1 DEF InsertEffects
<1> HIDE DEF c, o, t, e
<1>13. /\ raised' = FALSE /\ draining' = draining /\ flushing' = flushing
       /\ stage' = IF events' = <<>> THEN "idle" ELSE "replay"
  BY <1>1, <1>2, <1>4 DEF Stages, InsertEffects
<1>14. Stages'
  BY <1>1, <1>2, <1>13 DEF Stages, BindKinds
<1>15. Len(occurrences) = Count /\ nEdges[Count] \in LowerEdges
  BY <1>2, <1>5 DEF Count, LowerEdges, IsId
<1>16. /\ Count' = Count + 1
       /\ \A i \in 1 .. Count : occurrences'[i] = occurrences[i]
       /\ occurrences'[Count + 1] = nOccurrences[Count + 1]
  <2>1. /\ Len(occurrences') = Len(occurrences) + 1
        /\ \A i \in 1 .. Len(occurrences) : occurrences'[i] = occurrences[i]
        /\ occurrences'[Len(occurrences) + 1] = nOccurrences[Count + 1]
    BY <1>2, <1>5, <1>11, AppendProperties
  <2> QED BY <1>15, <2>1 DEF Count
<1>17. Mode'
  BY <1>1, <1>2, <1>4, <1>5, <1>13, <1>16 DEF Mode
<1>18. /\ nOccurrences' = nOccurrences /\ nEdges' = nEdges /\ nOverlays' = nOverlays
       /\ nSatisfied' = nSatisfied
  BY <1>4 DEF native
<1>19. NativeSound'
  BY <1>1, <1>2, <1>18, EventsShift DEF NativeSound
<1>20. Ahead'
  <2>1. DOMAIN edges = 1 .. Count - 1
    BY <1>2, EdgesAre DEF MirrorSound, Count
  <2>2. /\ DOMAIN edges' = DOMAIN edges \cup {Count}
        /\ \A j \in DOMAIN edges : edges'[j] = edges[j]
        /\ edges'[Count] = nEdges[Count]
    <3>1. /\ DOMAIN edges' = DOMAIN edges \cup {Len(edges) + 1}
          /\ \A j \in DOMAIN edges : edges'[j] = edges[j]
          /\ edges'[Len(edges) + 1] = nEdges[Count]
      BY <1>2, <1>10, <1>15, Appended
    <3>2. Len(edges) + 1 = Count
      BY <1>2, <1>5, <2>1
    <3> QED BY <3>1, <3>2
  <2>3. \A i \in 1 .. Count' : nOccurrences'[i] = occurrences'[i]
    <3>1. \A i \in 1 .. Count' : i \in 1 .. Count \/ i = Count + 1
      BY <1>5, <1>16
    <3> QED BY <1>5, <1>16, <1>18, <3>1 DEF Ahead
  <2>4. \A j \in DOMAIN edges' : nEdges'[j] = edges'[j]
    BY <1>5, <1>18, <2>2 DEF Ahead
  <2>5. HandlesKnown'
    <3>1. HandlesKnown
      BY <1>5 DEF Ahead, HandlesKnown
    <3>2. e.path = nOccurrences[Count + 1].prefix
      BY <1>5 DEF InsertPending
    <3>3. \A i \in 1 .. Len(occurrences) : occurrences[i].prefix # nOccurrences[Count + 1].prefix
      <4>1. Owner(nOccurrences[Count + 1].prefix) = e.name
        BY <1>5, <3>2 DEF InsertPending
      <4> QED BY <1>5, <1>15, <4>1
    <3>4. handles' = With(handles, nOccurrences[Count + 1].prefix, Len(occurrences) + 1)
      BY <1>4, <1>5, <1>15, <3>2 DEF e
    <3> QED BY <1>2, <1>5, <1>11, <3>1, <3>3, <3>4, HandleAdded
  <2>6. Count' <= Len(nOccurrences') /\ Len(overlays') <= Len(nOverlays')
    BY <1>5, <1>9, <1>16, <1>18 DEF Ahead
  <2> QED BY <1>5, <1>9, <1>18, <2>3, <2>4, <2>5, <2>6 DEF Ahead, HandlesKnown
<1>21. Pending'
  <2>0. Len(overlays) \in Nat
    BY <1>2
  <2>1. /\ \A j, k \in Insertings' : j < k => events'[j].source < events'[k].source
        /\ \A j, k \in Bindeds' : j < k => events'[j].overlay < events'[k].overlay
        /\ \A k \in Insertings' : k + 1 \in Insertings /\ events'[k] = events[k + 1]
        /\ \A k \in Bindeds' : k + 1 \in Bindeds /\ events'[k] = events[k + 1]
        /\ \A k \in Insertings : k # 1 => k - 1 \in Insertings' /\ events'[k - 1] = events[k]
        /\ \A k \in Bindeds : k # 1 => k - 1 \in Bindeds' /\ events'[k - 1] = events[k]
    BY <1>1, <1>2, <1>5, <2>0, PendingShift
  <2>2. ASSUME NEW k \in Insertings' PROVE InsertPending(events[k])'
    <3>1. InsertPending(events[k + 1]) /\ events'[k] = events[k + 1]
      BY <1>5, <2>1 DEF Pending
    <3>2. 1 < k + 1
      BY <1>1, <1>2, EventsShift DEF Insertings
    <3>3. events[1].source < events[k + 1].source
      BY <1>5, <2>1, <3>2 DEF Pending
    <3>4. events[k + 1].source \in Count' + 1 .. Len(nOccurrences')
      BY <1>5, <1>16, <1>18, <3>1, <3>3 DEF InsertPending, e
    <3> QED BY <1>18, <3>1, <3>4 DEF InsertPending
  <2>3. ASSUME NEW k \in Bindeds' PROVE BindPending(events[k])'
    <3>1. BindPending(events[k + 1]) /\ events'[k] = events[k + 1]
      BY <1>5, <2>1 DEF Pending
    <3> QED BY <1>9, <1>18, <3>1 DEF BindPending
  <2>4. ASSUME NEW q \in Count' + 1 .. Len(nOccurrences')
        PROVE  \E k \in Insertings' : events'[k].source = q
    <3>1. q \in Count + 1 .. Len(nOccurrences) /\ q # Count + 1
      BY <1>5, <1>16, <1>18
    <3>2. PICK k \in Insertings : events[k].source = q
      BY <1>5, <3>1 DEF Pending
    <3>3. k # 1
      BY <1>5, <3>1, <3>2 DEF e
    <3> QED BY <2>1, <3>2, <3>3
  <2>5. ASSUME NEW q \in Len(overlays') + 1 .. Len(nOverlays')
        PROVE  \E k \in Bindeds' : events'[k].overlay = q
    <3>1. PICK k \in Bindeds : events[k].overlay = q
      BY <1>5, <1>9, <1>18 DEF Pending
    <3>2. k # 1
      BY <1>3 DEF Bindeds, e
    <3> QED BY <2>1, <3>1, <3>2
  <2>6. ASSUME NEW k \in DOMAIN events', events'[k].target[1] > Count'
        PROVE  \E j \in Insertings' : j < k /\ events'[j].source = events'[k].target[1]
    <3>1. k \in Nat /\ k + 1 \in DOMAIN events /\ events'[k] = events[k + 1]
      BY <1>1, <1>2, EventsShift
    <3> DEFINE at == events[k + 1].target[1]
    <3>2. at \in Nat
      <4>1. events[k + 1] \in InsertEvents \cup BindEvents
        BY <1>2, <3>1
      <4> QED BY <4>1 DEF InsertEvents, BindEvents
    <3>3. at > Count + 1
      BY <1>16, <2>6, <3>1
    <3>4. at > Count
      BY <1>5, <3>2, <3>3
    <3>5. PICK j \in Insertings : j < k + 1 /\ events[j].source = at
      BY <1>5, <3>1, <3>4 DEF Pending
    <3>6. j # 1
      BY <1>5, <3>2, <3>3, <3>5 DEF e
    <3>7. j \in Nat
      BY <1>1, <1>2, EventsShift DEF Insertings
    <3>8. j - 1 \in Insertings' /\ events'[j - 1] = events[j] /\ j - 1 < k
      BY <2>1, <3>1, <3>5, <3>6, <3>7
    <3> QED BY <3>1, <3>5, <3>8
  <2> QED BY <2>1, <2>2, <2>3, <2>4, <2>5, <2>6 DEF Pending
<1> QED BY <1>4, <1>9, <1>14, <1>17, <1>18, <1>19, <1>20, <1>21 DEF Core, Mirror, Lockstep

LEMMA ReplayBindStep ==
    ASSUME Core, ReplayEvent, events[1].kind \in BindKinds
    PROVE  /\ Core' /\ nOccurrences' = nOccurrences
           /\ literals' = WithLiteral(events[1].kind, events[1].overlay, events[1].value)
<1> DEFINE e == events[1]
           t == e.target
<1>1. stage = "replay" /\ events # <<>> /\ events' = Tail(events)
  BY DEF ReplayEvent
<1>2. /\ Mirror /\ Mode /\ NativeSound /\ Lockstep /\ MirrorSound /\ BuilderKnows /\ Registry
      /\ BindingsKnown /\ Stages
      /\ events \in Seq(InsertEvents \cup BindEvents) /\ overlays \in Seq(Overlays)
  BY DEF Core, NativeSound, Mirror, MirrorSound
<1>3. Head(events) = e /\ e.kind # "insert"
  BY <1>1, <1>2, EventsShift DEF BindKinds
<1> DEFINE c == CandidateAt(t[1], t[2])
<1>4. /\ BindEffects(c, e.value)
      /\ literals' = WithLiteral(e.kind, Len(overlays) + 1, e.value)
      /\ raised' = (Collides(Binding(c, e.value)) \/ e.overlay # Len(overlays) + 1)
      /\ UNCHANGED handles
      /\ UNCHANGED <<engine, native, batched, failed>>
      /\ stage' = IF events' = <<>> \/ raised' THEN "idle" ELSE stage
  BY <1>3 DEF ReplayEvent, BindMirror
<1>5. /\ InForce /\ Ahead /\ Pending /\ Len(overlays) \in Nat /\ Count \in Nat \ {0}
      /\ Len(overlays) + 1 \in DOMAIN nOverlays
      /\ 1 \in Bindeds /\ BindPending(e) /\ e.overlay = Len(overlays) + 1
      /\ IsId(occurrences, t) /\ t[1] \in 1 .. Count
      /\ nOverlays[Len(overlays) + 1].target = t
      /\ nOverlays[Len(overlays) + 1].kind = e.kind
  BY <1>1, HeadBinds
<1>6. /\ e.kind = Marker(occurrences, t).kind /\ e.value \in Word
      /\ nOverlays[Len(overlays) + 1].label =
            IF e.kind = "external" THEN Marker(occurrences, t).label ELSE e.value
      /\ \A j \in DOMAIN overlays : overlays[j].target[1] = t[1] =>
            Marker(occurrences, overlays[j].target) # Marker(occurrences, t)
      /\ TwinTold(occurrences, overlays, t, Len(overlays) + 1)
  BY <1>1, HeadBinds
<1>7. c.kind = e.kind /\ c.label \in Word
  BY <1>2, <1>5, <1>6, CandidateIs
<1>c. c = CandidateAt(t[1], t[2]) /\ c.kind \in BindKinds
  BY <1>7
<1>v. e.value \in Word /\ IsId(occurrences, t) /\ BindEffects(c, e.value)
  BY <1>4, <1>5, <1>6
<1>t. /\ \A j \in DOMAIN overlays : overlays[j].target[1] = t[1] =>
            Marker(occurrences, overlays[j].target) # Marker(occurrences, t)
      /\ TwinTold(occurrences, overlays, t, Len(overlays) + 1)
  BY <1>6
<1> DEFINE b == [kind |-> c.kind, target |-> t,
                 label |-> IF c.kind = "external" THEN c.label ELSE e.value, value |-> e.value]
<1>8. /\ MirrorSound' /\ overlays' = Append(overlays, b) /\ c.label = Marker(occurrences, t).label
      /\ occurrences' = occurrences /\ edges' = edges
  <2> HIDE DEF c, t, e
  <2> QED BY <1>2, <1>c, <1>v, <1>t, MirrorBind
<1>9. ~Collides(Binding(c, e.value)) /\ BuilderKnows' /\ Registry' /\ BindingsKnown'
  <2> HIDE DEF c, t, e
  <2> QED BY <1>2, <1>c, <1>v, <1>t, BuilderBind
<1>10. b \in Overlays /\ b.kind = e.kind /\ b.target = t
       /\ b.label = IF e.kind = "external" THEN Marker(occurrences, t).label ELSE e.value
  BY <1>5, <1>6, <1>7, <1>8 DEF Overlays, IsId
<1> HIDE DEF b, t, e
<1>11. /\ raised' = FALSE /\ draining' = draining /\ flushing' = flushing /\ deferred' = deferred
       /\ stage' = IF events' = <<>> THEN "idle" ELSE "replay"
  BY <1>1, <1>4, <1>5, <1>9 DEF BindEffects
<1>12. Stages'
  BY <1>1, <1>2, <1>11 DEF Stages, BindKinds
<1>13. Mode'
  BY <1>1, <1>2, <1>4, <1>8, <1>11 DEF Mode, Count
<1>14. /\ nOccurrences' = nOccurrences /\ nEdges' = nEdges /\ nOverlays' = nOverlays
       /\ nSatisfied' = nSatisfied /\ Count' = Count /\ handles' = handles
  BY <1>4, <1>8 DEF native, Count
<1>15. NativeSound'
  BY <1>1, <1>2, <1>14, EventsShift DEF NativeSound
<1>16. PICK N : N = Len(overlays) + 1
  OBVIOUS
<1>17. /\ Len(overlays') = N /\ DOMAIN overlays' = DOMAIN overlays \cup {N}
       /\ \A j \in DOMAIN overlays : overlays'[j] = overlays[j]
       /\ overlays'[N] = b /\ N \in Nat
  BY <1>2, <1>5, <1>8, <1>10, <1>16, Appended
<1>18. Ahead'
  <2>1. nOverlays[N] = [kind |-> b.kind, target |-> b.target, label |-> b.label]
    <3>1. nOverlays[N] \in NOverlays
      BY <1>2, <1>5, <1>16 DEF NativeSound
    <3>2. nOverlays[N].kind = b.kind /\ nOverlays[N].target = b.target /\ nOverlays[N].label = b.label
      BY <1>5, <1>6, <1>10, <1>16
    <3> QED BY <3>1, <3>2 DEF NOverlays
  <2>2. \A j \in DOMAIN overlays' :
           nOverlays[j] = [kind |-> overlays'[j].kind, target |-> overlays'[j].target,
                           label |-> overlays'[j].label]
    BY <1>5, <1>17, <2>1 DEF Ahead
  <2>3. N <= Len(nOverlays)
    <3>1. DOMAIN nOverlays = 1 .. Len(nOverlays)
      BY <1>2 DEF NativeSound
    <3> QED BY <1>5, <1>16, <3>1
  <2> QED BY <1>5, <1>8, <1>14, <1>17, <2>2, <2>3 DEF Ahead
<1>19. Pending'
  <2>1. /\ \A j, k \in Insertings' : j < k => events'[j].source < events'[k].source
        /\ \A j, k \in Bindeds' : j < k => events'[j].overlay < events'[k].overlay
        /\ \A k \in Insertings' : k + 1 \in Insertings /\ events'[k] = events[k + 1]
        /\ \A k \in Bindeds' : k + 1 \in Bindeds /\ events'[k] = events[k + 1]
        /\ \A k \in Insertings : k # 1 => k - 1 \in Insertings' /\ events'[k - 1] = events[k]
        /\ \A k \in Bindeds : k # 1 => k - 1 \in Bindeds' /\ events'[k - 1] = events[k]
    BY <1>1, <1>2, <1>5, PendingShift
  <2>2. ASSUME NEW k \in Insertings' PROVE InsertPending(events[k])'
    <3>1. InsertPending(events[k + 1]) /\ events'[k] = events[k + 1]
      BY <1>5, <2>1 DEF Pending
    <3> QED BY <1>14, <3>1 DEF InsertPending
  <2>3. ASSUME NEW k \in Bindeds' PROVE BindPending(events[k])'
    <3>1. BindPending(events[k + 1]) /\ events'[k] = events[k + 1]
      BY <1>5, <2>1 DEF Pending
    <3>2. 1 < k + 1
      BY <1>1, <1>2, EventsShift DEF Bindeds
    <3>3. events[1].overlay < events[k + 1].overlay
      BY <1>5, <2>1, <3>2 DEF Pending
    <3>4. events[k + 1].overlay \in Len(overlays') + 1 .. Len(nOverlays')
      BY <1>5, <1>14, <1>16, <1>17, <3>1, <3>3 DEF BindPending, e
    <3> QED BY <1>14, <3>1, <3>4 DEF BindPending
  <2>4. ASSUME NEW q \in Count' + 1 .. Len(nOccurrences')
        PROVE  \E k \in Insertings' : events'[k].source = q
    <3>1. PICK k \in Insertings : events[k].source = q
      BY <1>5, <1>14 DEF Pending
    <3>2. k # 1
      BY <1>3 DEF Insertings, e
    <3> QED BY <2>1, <3>1, <3>2
  <2>5. ASSUME NEW q \in Len(overlays') + 1 .. Len(nOverlays')
        PROVE  \E k \in Bindeds' : events'[k].overlay = q
    <3>1. q \in Len(overlays) + 1 .. Len(nOverlays) /\ q # Len(overlays) + 1
      BY <1>5, <1>14, <1>16, <1>17
    <3>2. PICK k \in Bindeds : events[k].overlay = q
      BY <1>5, <3>1 DEF Pending
    <3>3. k # 1
      BY <1>5, <3>1, <3>2 DEF e
    <3> QED BY <2>1, <3>2, <3>3
  <2>6. ASSUME NEW k \in DOMAIN events', events'[k].target[1] > Count'
        PROVE  \E j \in Insertings' : j < k /\ events'[j].source = events'[k].target[1]
    <3>1. k \in Nat /\ k + 1 \in DOMAIN events /\ events'[k] = events[k + 1]
      BY <1>1, <1>2, EventsShift
    <3>2. PICK j \in Insertings : j < k + 1 /\ events[j].source = events[k + 1].target[1]
      BY <1>5, <1>14, <2>6, <3>1 DEF Pending
    <3>3. j # 1
      BY <1>3 DEF Insertings, e
    <3>4. j \in Nat
      BY <1>1, <1>2, EventsShift DEF Insertings
    <3>5. j - 1 \in Insertings' /\ events'[j - 1] = events[j] /\ j - 1 < k
      BY <2>1, <3>1, <3>2, <3>3, <3>4
    <3> QED BY <3>1, <3>2, <3>5
  <2> QED BY <2>1, <2>2, <2>3, <2>4, <2>5, <2>6 DEF Pending
<1>20. literals' = WithLiteral(events[1].kind, events[1].overlay, events[1].value)
  BY <1>4, <1>5 DEF e
<1> QED BY <1>9, <1>8, <1>12, <1>13, <1>14, <1>15, <1>18, <1>19, <1>20 DEF Core, Mirror, Lockstep

-----------------------------------------------------------------------------
(* What was asked for, and what an assembly holds, grow together.           *)
LEMMA PiecesGrow ==
    ASSUME NEW placed, NEW inserted, NEW bindings, NEW filled,
           Sound(placed, inserted, bindings, filled),
           NEW pieces, PiecesAre(pieces, placed, inserted),
           NEW id, IsId(placed, id), NEW n \in Name, NEW p \in Piece
    PROVE  PiecesAre(Append(pieces, [prefix |-> placed[id[1]].prefix, at |-> id[2],
                                     name |-> n, piece |-> p]),
                     Append(placed, [prefix |-> Append(placed[id[1]].prefix, n), piece |-> p]),
                     Append(inserted, [target |-> id, source |-> Len(placed) + 1]))
<1> DEFINE a == [prefix |-> placed[id[1]].prefix, at |-> id[2], name |-> n, piece |-> p]
           o == [prefix |-> Append(placed[id[1]].prefix, n), piece |-> p]
           e == [target |-> id, source |-> Len(placed) + 1]
           A == Append(pieces, a)
           P == Append(placed, o)
           E == Append(inserted, e)
<1>1. /\ placed \in Seq(Occurrences) /\ inserted \in Seq(LowerEdges) /\ pieces \in Seq(AskedFor)
      /\ Len(pieces) = Len(placed) /\ Len(placed) \in Nat
      /\ id \in Nat \X Nat /\ id[1] \in 1 .. Len(placed)
  BY DEF Sound, PiecesAre, IsId
<1>2. placed # <<>> /\ Len(placed) = Len(inserted) + 1 /\ Len(inserted) \in Nat
  <2>1. placed # <<>>
    BY <1>1
  <2> QED BY <1>1, <2>1 DEF Sound, OneRoot
<1>3. placed[id[1]].prefix \in Seq(Name) \ {<<>>}
  <2>1. placed[id[1]] \in Occurrences
    BY <1>1
  <2> QED BY <2>1, OccurrencesAre
<1>4. /\ o \in Occurrences /\ Owner(o.prefix) = n /\ o.piece = p
  <2>1. Append(placed[id[1]].prefix, n) \in Seq(Name) \ {<<>>} /\ Owner(Append(placed[id[1]].prefix, n)) = n
    BY <1>3, OwnerAppended
  <2> QED BY <2>1, OccurrenceMade
<1>5. e \in LowerEdges /\ e.target = id
  BY <1>1 DEF LowerEdges
<1>6. a \in AskedFor
  BY <1>1, <1>3 DEF AskedFor
<1>7. a = [prefix |-> placed[id[1]].prefix, at |-> id[2], name |-> n, piece |-> p]
  OBVIOUS
<1> HIDE DEF a, o, e
<1>8. /\ A \in Seq(AskedFor) /\ Len(A) = Len(placed) + 1
      /\ \A j \in 1 .. Len(placed) : A[j] = pieces[j]
      /\ A[Len(placed) + 1] = a
  BY <1>1, <1>6, Appended
<1>9. /\ Len(P) = Len(placed) + 1 /\ P # <<>>
      /\ \A j \in 1 .. Len(placed) : P[j] = placed[j]
      /\ P[Len(placed) + 1] = o
  BY <1>1, <1>4, AppendProperties
<1>10. /\ DOMAIN E = DOMAIN inserted \cup {Len(placed)}
       /\ \A j \in DOMAIN inserted : E[j] = inserted[j] /\ j + 1 \in 1 .. Len(placed)
       /\ E[Len(placed)] = e
  BY <1>1, <1>2, <1>5, Appended
<1> HIDE DEF A, P, E
<1>11. \A j \in DOMAIN inserted : inserted[j].target[1] \in 1 .. Len(placed)
  BY EdgesAre
<1>12. A[1] = [prefix |-> <<>>, at |-> 0, name |-> Owner(P[1].prefix), piece |-> P[1].piece]
  <2>1. 1 \in 1 .. Len(placed)
    BY <1>1
  <2> QED BY <1>2, <1>8, <1>9, <2>1 DEF PiecesAre
<1>13. \A j \in DOMAIN inserted : A[j + 1] =
          [prefix |-> P[E[j].target[1]].prefix, at |-> E[j].target[2],
           name |-> Owner(P[j + 1].prefix), piece |-> P[j + 1].piece]
  <2> SUFFICES ASSUME NEW j \in DOMAIN inserted
               PROVE  A[j + 1] = [prefix |-> P[E[j].target[1]].prefix, at |-> E[j].target[2],
                                  name |-> Owner(P[j + 1].prefix), piece |-> P[j + 1].piece]
    OBVIOUS
  <2>1. /\ E[j] = inserted[j] /\ A[j + 1] = pieces[j + 1] /\ P[j + 1] = placed[j + 1]
        /\ P[inserted[j].target[1]] = placed[inserted[j].target[1]]
    BY <1>8, <1>9, <1>10, <1>11
  <2> QED BY <2>1 DEF PiecesAre
<1>14. A[Len(placed) + 1] =
          [prefix |-> P[E[Len(placed)].target[1]].prefix, at |-> E[Len(placed)].target[2],
           name |-> Owner(P[Len(placed) + 1].prefix), piece |-> P[Len(placed) + 1].piece]
  <2>1. /\ E[Len(placed)].target = id /\ P[Len(placed) + 1] = o /\ P[id[1]] = placed[id[1]]
    BY <1>1, <1>5, <1>9, <1>10
  <2> QED BY <1>4, <1>7, <1>8, <2>1
<1>15. \A j \in DOMAIN E : A[j + 1] =
          [prefix |-> P[E[j].target[1]].prefix, at |-> E[j].target[2],
           name |-> Owner(P[j + 1].prefix), piece |-> P[j + 1].piece]
  BY <1>10, <1>13, <1>14
<1> QED BY <1>8, <1>9, <1>12, <1>15 DEF PiecesAre, A, P, E, a, o, e

LEMMA ValuesPlaced ==
    ASSUME NEW placed, NEW inserted, NEW bindings, NEW filled,
           Sound(placed, inserted, bindings, filled),
           NEW values, NEW kept, NEW told, ValuesAre(values, kept, placed, bindings, told),
           NEW more, \A i \in 1 .. Len(placed) : more[i] = placed[i]
    PROVE  ValuesAre(values, kept, more, bindings, told)
<1>1. \A j \in DOMAIN bindings : more[bindings[j].target[1]] = placed[bindings[j].target[1]]
  BY DEF Sound, BindingSound, IsId
<1> QED BY <1>1 DEF ValuesAre

LEMMA ValuesGrow ==
    ASSUME NEW S, NEW bindings \in Seq(S), NEW b \in S, NEW placed, NEW id, NEW v \in Word,
           NEW values, NEW kept, NEW told, ValuesAre(values, kept, placed, bindings, told),
           b.target = id, b.kind = "identifier" => b.label = v,
           NEW later, \A j \in DOMAIN bindings : j \in DOMAIN later =>
                         j \in DOMAIN kept /\ later[j] = kept[j],
           b.kind = "external" /\ Len(bindings) + 1 \in DOMAIN later => later[Len(bindings) + 1] = v
    PROVE  ValuesAre(values \cup {[prefix |-> placed[id[1]].prefix, at |-> id[2], value |-> v]},
                     later, placed, Append(bindings, b),
                     [j \in DOMAIN Append(bindings, b) |->
                         IF j = Len(bindings) + 1 THEN v ELSE told[j]])
<1> DEFINE B == Append(bindings, b)
           N == Len(bindings) + 1
           T == [j \in DOMAIN B |-> IF j = N THEN v ELSE told[j]]
<1>1. /\ DOMAIN B = DOMAIN bindings \cup {N} /\ N \notin DOMAIN bindings
      /\ \A j \in DOMAIN bindings : B[j] = bindings[j]
      /\ B[N] = b
  BY Appended
<1> HIDE DEF B, N
<1>2. /\ T \in [DOMAIN B -> Word] /\ T[N] = v
      /\ \A j \in DOMAIN bindings : T[j] = told[j]
  BY <1>1 DEF ValuesAre
<1> HIDE DEF T
<1>3. {[prefix |-> placed[B[j].target[1]].prefix, at |-> B[j].target[2], value |-> T[j]] : j \in DOMAIN B}
        = values \cup {[prefix |-> placed[id[1]].prefix, at |-> id[2], value |-> v]}
  <2> DEFINE Old(j) == [prefix |-> placed[bindings[j].target[1]].prefix,
                        at |-> bindings[j].target[2], value |-> told[j]]
             New(j) == [prefix |-> placed[B[j].target[1]].prefix, at |-> B[j].target[2], value |-> T[j]]
             x == [prefix |-> placed[id[1]].prefix, at |-> id[2], value |-> v]
  <2>1. \A j \in DOMAIN bindings : New(j) = Old(j)
    BY <1>1, <1>2
  <2>2. New(N) = x
    BY <1>1, <1>2
  <2>3. values = {Old(j) : j \in DOMAIN bindings}
    BY DEF ValuesAre
  <2> HIDE DEF Old, New, x
  <2>4. {New(j) : j \in DOMAIN B} = values \cup {x}
    BY <1>1, <2>1, <2>2, <2>3
  <2> QED BY <2>4 DEF New, x
<1>4. \A j \in DOMAIN B : B[j].kind = "identifier" => T[j] = B[j].label
  BY <1>1, <1>2 DEF ValuesAre
<1>5. \A j \in DOMAIN B : B[j].kind = "external" /\ j \in DOMAIN later => later[j] = T[j]
  <2>1. \A j \in DOMAIN bindings : bindings[j].kind = "external" /\ j \in DOMAIN later => later[j] = told[j]
    BY DEF ValuesAre
  <2>2. b.kind = "external" /\ N \in DOMAIN later => later[N] = v
    BY DEF N
  <2> QED BY <1>1, <1>2, <2>1, <2>2
<1>6. ValuesAre(values \cup {[prefix |-> placed[id[1]].prefix, at |-> id[2], value |-> v]}, later, placed, B, T)
  BY <1>2, <1>3, <1>4, <1>5 DEF ValuesAre
<1> QED BY <1>6 DEF T, B, N

ValueKept(bindings, b, id, v, kept, later) ==
    /\ b.target = id
    /\ b.kind = "identifier" => b.label = v
    /\ \A j \in DOMAIN bindings : j \in DOMAIN later => j \in DOMAIN kept /\ later[j] = kept[j]
    /\ (b.kind = "external" /\ Len(bindings) + 1 \in DOMAIN later) => later[Len(bindings) + 1] = v

ValueAt(placed, id, v) == [prefix |-> placed[id[1]].prefix, at |-> id[2], value |-> v]
TellsToo(bindings, told, v, more) ==
    /\ \A j \in DOMAIN bindings : more[j] = told[j]
    /\ more[Len(bindings) + 1] = v

LEMMA ValuesGrown ==
    ASSUME NEW S, NEW bindings \in Seq(S), NEW b \in S, NEW placed, NEW id, NEW v \in Word,
           NEW values, NEW kept, NEW told, ValuesAre(values, kept, placed, bindings, told),
           NEW later, ValueKept(bindings, b, id, v, kept, later)
    PROVE  \E more : /\ ValuesAre(values \cup {ValueAt(placed, id, v)}, later, placed,
                                   Append(bindings, b), more)
                     /\ TellsToo(bindings, told, v, more)
<1> DEFINE T == [j \in DOMAIN Append(bindings, b) |->
                    IF j = Len(bindings) + 1 THEN v ELSE told[j]]
<1>1. ValuesAre(values \cup {ValueAt(placed, id, v)}, later, placed, Append(bindings, b), T)
  BY ValuesGrow DEF ValueKept, ValueAt
<1>2. /\ DOMAIN Append(bindings, b) = DOMAIN bindings \cup {Len(bindings) + 1}
      /\ Len(bindings) + 1 \notin DOMAIN bindings
  BY Appended
<1>3. /\ \A j \in DOMAIN bindings : T[j] = told[j]
      /\ T[Len(bindings) + 1] = v
  BY <1>2
<1> HIDE DEF T
<1> QED BY <1>1, <1>3 DEF TellsToo

AskedKept == AskedPython /\ AskedNative

LEMMA AskedPlain ==
    ASSUME Core, AskedKept, engine = "python" \/ (InStep /\ events = <<>> /\ ~failed)
    PROVE  /\ PiecesAre(askedPieces, occurrences, edges) /\ askedPieces \in Seq(AskedFor)
           /\ Sound(occurrences, edges, overlays, satisfied)
           /\ engine # "python" => Sound(occurrences, edges, nOverlays, satisfied)
<1>1. Sound(occurrences, edges, overlays, satisfied)
  BY DEF Core, Mirror, MirrorSound
<1>2. engine # "python" => Sound(occurrences, edges, nOverlays, satisfied)
  BY DEF Core, NativeSound, InStep
<1>3. PiecesAre(askedPieces, occurrences, edges)
  BY DEF AskedKept, AskedPython, AskedNative, InStep
<1> QED BY <1>1, <1>2, <1>3 DEF PiecesAre

LEMMA AskedRoot ==
    ASSUME Core, AskedKept, NEW n \in Name, NEW p \in Piece, AddRoot(n, p)
    PROVE  AskedKept'
<1> DEFINE o == [prefix |-> << n >>, piece |-> p]
           a == [prefix |-> <<>>, at |-> 0, name |-> n, piece |-> p]
<1>1. /\ Core' /\ occurrences = <<>> /\ occurrences' = << o >> /\ edges' = edges
      /\ edges = <<>> /\ overlays = <<>> /\ overlays' = overlays
      /\ engine # "python" => InStep /\ InStep'
  <2>1. Core' /\ occurrences = <<>> /\ occurrences' = << o >>
    BY RootStep
  <2>2. edges' = edges /\ edges = <<>> /\ overlays = <<>> /\ overlays' = overlays
    BY RootStep
  <2>3. engine # "python" => InStep /\ InStep'
    BY RootStep
  <2> QED BY <2>1, <2>2, <2>3
<1>2. /\ askedPieces' = Append(askedPieces, a) /\ askedValues' = askedValues
      /\ engine' = engine /\ literals' = literals /\ events' = events /\ failed' = failed
      /\ Count = 0 /\ stage = "idle"
  BY DEF AddRoot, Placed
<1>3. engine # "python" => InStep /\ events = <<>> /\ ~failed
  BY <1>1, <1>2 DEF Core, Mode
<1>4. PiecesAre(askedPieces, occurrences, edges)
  BY <1>3, AskedPlain
<1>5. askedPieces' = << a >>
  <2>1. Len(askedPieces) = 0 /\ askedPieces \in Seq(AskedFor)
    BY <1>1, <1>4 DEF PiecesAre
  <2>2. askedPieces = <<>>
    BY <2>1
  <2> QED BY <1>2, <2>2
<1>6. a \in AskedFor /\ o.prefix = << n >> /\ o.piece = p /\ Owner(<< n >>) = n
  BY DEF AskedFor, Owner
<1>7. a = [prefix |-> <<>>, at |-> 0, name |-> Owner(o.prefix), piece |-> o.piece]
  BY <1>6
<1> HIDE DEF a, o
<1>8. PiecesAre(askedPieces', occurrences', edges')
  <2>1. << a >> \in Seq(AskedFor) /\ Len(<< a >>) = 1 /\ Len(<< o >>) = 1 /\ << a >>[1] = a
        /\ << o >>[1] = o /\ DOMAIN <<>> = {}
    BY <1>6
  <2> QED BY <1>1, <1>5, <1>7, <2>1 DEF PiecesAre
<1>9. CASE engine = "python"
  <2>1. PICK told : ValuesAre(askedValues, literals, occurrences, overlays, told)
    BY <1>9 DEF AskedKept, AskedPython
  <2>2. \A i \in 1 .. Len(occurrences) : occurrences'[i] = occurrences[i]
    BY <1>1
  <2>3. ValuesAre(askedValues, literals, occurrences', overlays, told)
    BY <1>9, <2>1, <2>2, AskedPlain, ValuesPlaced
  <2>4. AskedPython'
    BY <1>1, <1>2, <1>8, <1>9, <2>3 DEF AskedKept, AskedPython
  <2> QED BY <1>2, <1>9, <2>4 DEF AskedKept, AskedNative
<1>10. CASE engine # "python"
  <2>1. PICK told : ValuesAre(askedValues, literals, nOccurrences, nOverlays, told)
    BY <1>10 DEF AskedKept, AskedNative
  <2>2. nOccurrences = occurrences /\ nOccurrences' = occurrences' /\ nEdges' = edges'
    BY <1>1, <1>10 DEF InStep
  <2>3. \A i \in 1 .. Len(occurrences) : occurrences'[i] = occurrences[i]
    BY <1>1
  <2>4. ValuesAre(askedValues, literals, nOccurrences', nOverlays, told)
    BY <1>3, <1>10, <2>1, <2>2, <2>3, AskedPlain, ValuesPlaced
  <2>5. nOverlays' = nOverlays /\ Externals = {} /\ Externals' = {}
    BY <1>2, <1>3, <1>10 DEF AddRoot, Externals
  <2>6. PiecesAre(askedPieces', nOccurrences', nEdges')
    BY <1>8, <2>2
  <2>7. AskedNative'
    BY <1>2, <1>3, <1>10, <2>4, <2>5, <2>6 DEF AskedKept, AskedNative
  <2> QED BY <1>2, <1>10, <2>7 DEF AskedKept, AskedPython
<1> QED BY <1>9, <1>10

LEMMA AskedInsert ==
    ASSUME Core, AskedKept, Singly, NEW id, IsId(occurrences, id), id \notin satisfied,
           NEW c, c = CandidateAt(id[1], id[2]),
           NEW n \in Name, NEW p \in Piece, Unused(n), WireInsert(c, p, n)
    PROVE  AskedKept'
<1> DEFINE o == [prefix |-> Append(occurrences[id[1]].prefix, n), piece |-> p]
           e == [target |-> id, source |-> Len(occurrences) + 1]
           a == [prefix |-> occurrences[id[1]].prefix, at |-> id[2], name |-> n, piece |-> p]
<1>1. /\ Core' /\ overlays' = overlays /\ c.prefix = occurrences[id[1]].prefix /\ c.at = id[2]
      /\ engine # "python" => InStep /\ InStep'
  BY WireInsertStep
<1>2. occurrences' = Append(occurrences, o) /\ edges' = Append(edges, e)
  BY WireInsertStep DEF Count
<1>3. /\ askedPieces' = Append(askedPieces, a) /\ askedValues' = askedValues
      /\ engine' = engine /\ literals' = literals /\ events' = events /\ failed' = failed
      /\ stage = "idle"
  BY <1>1 DEF WireInsert, Insert, Placed
<1>4. engine # "python" => InStep /\ events = <<>> /\ ~failed
  BY <1>1, <1>3 DEF Core, Mode, Singly
<1>5. PiecesAre(askedPieces, occurrences, edges) /\ Sound(occurrences, edges, overlays, satisfied)
  BY <1>4, AskedPlain
<1>6. PiecesAre(askedPieces', occurrences', edges')
  BY <1>2, <1>3, <1>5, PiecesGrow
<1>7. \A i \in 1 .. Len(occurrences) : occurrences'[i] = occurrences[i]
  <2>1. occurrences \in Seq(Occurrences) /\ o \in Occurrences
    <3>1. occurrences[id[1]] \in Occurrences
      BY <1>5 DEF Sound, IsId
    <3>2. occurrences[id[1]].prefix \in Seq(Name) \ {<<>>}
      BY <3>1, OccurrencesAre
    <3>3. Append(occurrences[id[1]].prefix, n) \in Seq(Name) \ {<<>>}
      BY <3>2, OwnerAppended
    <3> QED BY <1>5, <3>3, OccurrenceMade DEF Sound
  <2> HIDE DEF o
  <2> QED BY <1>2, <2>1, AppendProperties
<1>8. CASE engine = "python"
  <2>1. PICK told : ValuesAre(askedValues, literals, occurrences, overlays, told)
    BY <1>8 DEF AskedKept, AskedPython
  <2>2. ValuesAre(askedValues, literals, occurrences', overlays, told)
    BY <1>5, <1>7, <2>1, ValuesPlaced
  <2>3. AskedPython'
    BY <1>1, <1>3, <1>6, <1>8, <2>2 DEF AskedKept, AskedPython
  <2> QED BY <1>3, <1>8, <2>3 DEF AskedKept, AskedNative
<1>9. CASE engine # "python"
  <2>1. PICK told : ValuesAre(askedValues, literals, nOccurrences, nOverlays, told)
    BY <1>9 DEF AskedKept, AskedNative
  <2>2. nOccurrences = occurrences /\ nOccurrences' = occurrences' /\ nEdges' = edges'
    BY <1>1, <1>9 DEF InStep
  <2>3. Sound(occurrences, edges, nOverlays, satisfied)
    BY <1>4, <1>9, AskedPlain
  <2>4. ValuesAre(askedValues, literals, nOccurrences', nOverlays, told)
    BY <1>7, <2>1, <2>2, <2>3, ValuesPlaced
  <2>5. nOverlays' = nOverlays /\ Externals = {} /\ Externals' = {}
    BY <1>3, <1>4, <1>9 DEF WireInsert, InsertNatively, Externals
  <2>6. PiecesAre(askedPieces', nOccurrences', nEdges')
    BY <1>6, <2>2
  <2>7. AskedNative'
    BY <1>3, <1>4, <1>9, <2>4, <2>5, <2>6 DEF AskedKept, AskedNative
  <2> QED BY <1>3, <1>9, <2>7 DEF AskedKept, AskedPython
<1> QED BY <1>8, <1>9

LEMMA AskedBind ==
    ASSUME Core, AskedKept, Singly, NEW id, IsId(occurrences, id),
           NEW c, c = CandidateAt(id[1], id[2]),
           NEW v \in Word, Unbound(c), WireBind(c, v),
           \A t \in TargetOf(c) : ValueFirst(occurrences, overlays, t)
    PROVE  AskedKept'
<1> DEFINE b == [kind |-> c.kind, target |-> id,
                 label |-> IF c.kind = "external" THEN c.label ELSE v, value |-> v]
           nb == [kind |-> c.kind, target |-> id,
                  label |-> IF c.kind = "external" THEN c.label ELSE v]
           x == [prefix |-> occurrences[id[1]].prefix, at |-> id[2], value |-> v]
<1>1. /\ Core' /\ c.prefix = occurrences[id[1]].prefix /\ c.at = id[2]
      /\ c.kind \in BindKinds /\ occurrences' = occurrences /\ edges' = edges
      /\ engine # "python" => InStep /\ InStep'
  BY WireBindStep
<1>2. overlays' = Append(overlays, b)
  BY WireBindStep
<1>3. /\ askedPieces' = askedPieces /\ askedValues' = askedValues \cup {x}
      /\ engine' = engine /\ literals' = WithLiteral(c.kind, Len(overlays) + 1, v)
      /\ events' = events /\ failed' = failed /\ stage = "idle"
  BY <1>1 DEF WireBind, Bind, Valued
<1>4. engine # "python" => InStep /\ events = <<>> /\ ~failed
  BY <1>1, <1>3 DEF Core, Mode, Singly
<1>5. PiecesAre(askedPieces, occurrences, edges) /\ Sound(occurrences, edges, overlays, satisfied)
  BY <1>4, AskedPlain
<1>6. overlays \in Seq(Overlays) /\ b \in Overlays /\ nb \in NOverlays
      /\ DOMAIN overlays = 1 .. Len(overlays) /\ Len(overlays) \in Nat
  <2>1. c.label \in Word
    BY CandidateIs DEF Core, Mirror
  <2>2. b \in Overlays /\ nb \in NOverlays
    BY <1>1, <2>1 DEF IsId, Overlays, NOverlays
  <2> HIDE DEF b, nb
  <2> QED BY <2>2 DEF Core, Mirror, MirrorSound
<1>7. /\ b.target = id
      /\ b.kind = c.kind
      /\ b.kind = "identifier" => b.label = v
      /\ nb.target = id
      /\ nb.kind = c.kind
      /\ nb.kind = "identifier" => nb.label = v
  <2>1. b.target = id /\ b.kind = c.kind /\ nb.target = id /\ nb.kind = c.kind
    OBVIOUS
  <2>2. b.kind = "identifier" => b.label = v
    OBVIOUS
  <2>3. nb.kind = "identifier" => nb.label = v
    OBVIOUS
  <2> QED BY <2>1, <2>2, <2>3
<1> HIDE DEF b, nb
<1>19. /\ c.kind = "external" => literals' = With(literals, Len(overlays) + 1, v)
       /\ c.kind # "external" => literals' = literals
  BY <1>3 DEF WithLiteral
<1>20. DOMAIN literals' = IF c.kind = "external" THEN DOMAIN literals \cup {Len(overlays) + 1}
                          ELSE DOMAIN literals
  <2>1. DOMAIN With(literals, Len(overlays) + 1, v) = DOMAIN literals \cup {Len(overlays) + 1}
    BY DEF With
  <2> QED BY <1>19, <2>1
<1>21. c.kind = "external" => literals'[Len(overlays) + 1] = v
  <2>1. With(literals, Len(overlays) + 1, v)[Len(overlays) + 1] = v
    BY DEF With
  <2> QED BY <1>19, <2>1
<1>22. \A j \in DOMAIN literals : j # Len(overlays) + 1 => literals'[j] = literals[j]
  <2>1. \A j \in DOMAIN literals : j # Len(overlays) + 1 => With(literals, Len(overlays) + 1, v)[j] = literals[j]
    BY DEF With
  <2> QED BY <1>19, <2>1
<1>23. \A j \in DOMAIN overlays : j # Len(overlays) + 1
  BY <1>6
<1>24. \A j \in DOMAIN overlays :
           j \in DOMAIN literals' => j \in DOMAIN literals /\ literals'[j] = literals[j]
  BY <1>20, <1>22, <1>23
<1>8. /\ \A j \in DOMAIN overlays :
           j \in DOMAIN literals' => j \in DOMAIN literals /\ literals'[j] = literals[j]
      /\ (c.kind = "external" /\ Len(overlays) + 1 \in DOMAIN literals')
             => literals'[Len(overlays) + 1] = v
      /\ DOMAIN literals' = IF c.kind = "external" THEN DOMAIN literals \cup {Len(overlays) + 1}
                            ELSE DOMAIN literals
  BY <1>20, <1>21, <1>24
<1>9. CASE engine = "python"
  <2>1. PICK told : ValuesAre(askedValues, literals, occurrences, overlays, told)
    BY <1>9 DEF AskedKept, AskedPython
  <2>2. \E later : ValuesAre(askedValues \cup {x}, literals', occurrences, Append(overlays, b), later)
    <3>1. PICK after : after = literals'
      OBVIOUS
    <3>2. b.kind = "external" /\ Len(overlays) + 1 \in DOMAIN after => after[Len(overlays) + 1] = v
      BY <1>7, <1>8, <3>1
    <3>3. b.kind = "identifier" => b.label = v
      BY <1>7
    <3>4. \A j \in DOMAIN overlays : j \in DOMAIN after => j \in DOMAIN literals /\ after[j] = literals[j]
      BY <1>8, <3>1
    <3>5. b.target = id
      BY <1>7
    <3>6. overlays \in Seq(Overlays) /\ b \in Overlays
      BY <1>6
    <3>7. ValuesAre(askedValues, literals, occurrences, overlays, told)
      BY <2>1
    <3>8. x = [prefix |-> occurrences[id[1]].prefix, at |-> id[2], value |-> v]
      OBVIOUS
    <3> HIDE DEF x
    <3>10. ValueKept(overlays, b, id, v, literals, after)
      BY <3>2, <3>3, <3>4, <3>5 DEF ValueKept
    <3>9. \E later : /\ ValuesAre(askedValues \cup {ValueAt(occurrences, id, v)}, after,
                                   occurrences, Append(overlays, b), later)
                     /\ TellsToo(overlays, told, v, later)
      BY <3>6, <3>7, <3>10, ValuesGrown
    <3> QED BY <3>1, <3>8, <3>9 DEF ValueAt
  <2>3. \A j \in DOMAIN overlays' : overlays'[j].kind = "external" => j \in DOMAIN literals'
    <3>1. /\ DOMAIN overlays' = DOMAIN overlays \cup {Len(overlays) + 1}
          /\ \A j \in DOMAIN overlays : overlays'[j] = overlays[j]
          /\ overlays'[Len(overlays) + 1] = b
      BY <1>2, <1>6, Appended
    <3>2. \A j \in DOMAIN overlays : overlays[j].kind = "external" => j \in DOMAIN literals
      BY <1>9 DEF AskedKept, AskedPython
    <3> QED BY <1>7, <1>8, <3>1, <3>2
  <2>4. AskedPython'
    BY <1>1, <1>2, <1>3, <1>5, <2>2, <2>3 DEF AskedPython
  <2> QED BY <1>3, <1>9, <2>4 DEF AskedKept, AskedNative
<1>10. CASE engine # "python"
  <2>1. PICK told : ValuesAre(askedValues, literals, nOccurrences, nOverlays, told)
    BY <1>10 DEF AskedKept, AskedNative
  <2>2. /\ nOccurrences = occurrences /\ nOccurrences' = occurrences' /\ nEdges' = edges'
        /\ Len(nOverlays) = Len(overlays) /\ InStep'
    BY <1>1, <1>10 DEF InStep, OverlaysAlike
  <2>3. /\ nOverlays \in Seq(NOverlays) /\ nOverlays' \in Seq(NOverlays)
        /\ DOMAIN nOverlays = DOMAIN overlays
    BY <1>1, <1>6, <2>2 DEF Core, NativeSound
  <2>4. /\ DOMAIN overlays' = DOMAIN overlays \cup {Len(overlays) + 1}
        /\ \A j \in DOMAIN overlays : overlays'[j] = overlays[j]
        /\ overlays'[Len(overlays) + 1] = b /\ Len(overlays') = Len(overlays) + 1
    BY <1>2, <1>6, Appended
  <2>5. nOverlays' = Append(nOverlays, nb)
    <3>1. TargetOf(c) = {id} /\ (CHOOSE t \in TargetOf(c) : TRUE) = id
      BY <1>1, <1>5, TargetIs
    <3>2. HandlesKnown
      BY <1>3, <1>10, SinglyInStep
    <3>3. NativeId(id) = id
      BY <3>2, IdsAlike
    <3>4. BindNatively(c, v)
      BY <1>10 DEF WireBind
    <3>5. nOverlays' = nOverlays \o [i \in 1..Cardinality({id}) |-> nb]
      BY <3>1, <3>3, <3>4 DEF BindNatively, nb
    <3> QED BY <1>6, <2>3, <3>5, OnceAppended
  <2>6. \E later : ValuesAre(askedValues \cup {x}, literals', occurrences, Append(nOverlays, nb), later)
    <3>1. PICK after : after = literals'
      OBVIOUS
    <3>2. nb.kind = "external" /\ Len(nOverlays) + 1 \in DOMAIN after => after[Len(nOverlays) + 1] = v
      BY <1>7, <1>8, <3>1, <2>2, <2>3
    <3>3. nb.kind = "identifier" => nb.label = v
      BY <1>7
    <3>4. \A j \in DOMAIN nOverlays : j \in DOMAIN after => j \in DOMAIN literals /\ after[j] = literals[j]
      BY <1>8, <3>1, <2>2, <2>3
    <3>5. nb.target = id
      BY <1>7
    <3>6. nOverlays \in Seq(NOverlays) /\ nb \in NOverlays
      BY <1>6, <2>2, <2>3
    <3>7. ValuesAre(askedValues, literals, occurrences, nOverlays, told)
      BY <2>1, <2>2
    <3>8. x = [prefix |-> occurrences[id[1]].prefix, at |-> id[2], value |-> v]
      OBVIOUS
    <3> HIDE DEF x
    <3>10. ValueKept(nOverlays, nb, id, v, literals, after)
      BY <3>2, <3>3, <3>4, <3>5 DEF ValueKept
    <3>9. \E later : /\ ValuesAre(askedValues \cup {ValueAt(occurrences, id, v)}, after,
                                   occurrences, Append(nOverlays, nb), later)
                     /\ TellsToo(nOverlays, told, v, later)
      BY <3>6, <3>7, <3>10, ValuesGrown
    <3> QED BY <3>1, <3>8, <3>9 DEF ValueAt
  <2>7. \A j \in DOMAIN nOverlays' : nOverlays'[j].kind = "external" => j \in DOMAIN literals'
    <3>1. /\ DOMAIN nOverlays' = DOMAIN nOverlays \cup {Len(nOverlays) + 1}
          /\ \A j \in DOMAIN nOverlays : nOverlays'[j] = nOverlays[j]
          /\ nOverlays'[Len(nOverlays) + 1] = nb
      BY <1>6, <2>3, <2>5, Appended
    <3>2. Externals = {}
      BY <1>4, <1>10 DEF Externals
    <3>3. \A j \in DOMAIN nOverlays : nOverlays[j].kind = "external" => j \in DOMAIN literals
      BY <1>4, <1>10, <3>2 DEF AskedKept, AskedNative
    <3> QED BY <1>7, <1>8, <2>2, <3>1, <3>3
  <2>8. DOMAIN literals' \subseteq DOMAIN nOverlays'
    <3>1. DOMAIN nOverlays' = DOMAIN overlays \cup {Len(overlays) + 1}
      BY <1>6, <2>2, <2>3, <2>5, Appended
    <3>2. DOMAIN literals \subseteq DOMAIN nOverlays
      BY <1>10 DEF AskedKept, AskedNative
    <3> QED BY <1>8, <2>3, <3>1, <3>2
  <2>9. Externals' = {}
    BY <1>3, <1>4, <1>10 DEF Externals
  <2>10. PiecesAre(askedPieces', nOccurrences', nEdges')
    BY <1>1, <1>3, <1>5, <2>2
  <2>11. \E later : ValuesAre(askedValues', literals', nOccurrences', nOverlays', later)
    BY <1>1, <1>3, <2>2, <2>5, <2>6
  <2>12. AskedNative'
    BY <2>7, <2>8, <2>9, <2>10, <2>11 DEF AskedNative
  <2> QED BY <1>3, <1>10, <2>12 DEF AskedKept, AskedPython
<1> QED BY <1>9, <1>10

LEMMA AskedSame ==
    ASSUME Core, AskedKept, asked' = asked, engine' = engine, literals' = literals,
           native' = native, events' = events, failed' = failed,
           occurrences' = occurrences, edges' = edges, overlays' = overlays
    PROVE  AskedKept'
BY DEF AskedKept, AskedPython, AskedNative, Externals, asked, native

(* In a batch only the native side is told.                                 *)
LEMMA AskedOfBatch ==
    ASSUME Core, AskedKept, stage = "batch" \/ stage = "replay"
    PROVE  engine # "python"
BY DEF Core, Mode

LEMMA AskedBatchInsert ==
    ASSUME Core, AskedKept, NEW id \in Selectable, NEW p \in Piece, NEW n \in Name, Unused(n),
           BatchInsert(id, p, n)
    PROVE  AskedKept'
<1> DEFINE path == Append(nOccurrences[id[1]].prefix, n)
           o == [prefix |-> path, piece |-> p]
           e == [target |-> id, source |-> Len(nOccurrences) + 1]
           E == [kind |-> "insert", target |-> id, path |-> path,
                 source |-> Len(nOccurrences) + 1, name |-> n, piece |-> p]
           a == [prefix |-> nOccurrences[id[1]].prefix, at |-> id[2], name |-> n, piece |-> p]
<1>1. /\ stage = "batch" /\ engine' = engine /\ literals' = literals /\ failed' = failed
      /\ nOverlays' = nOverlays
      /\ nOccurrences' = Append(nOccurrences, o) /\ nEdges' = Append(nEdges, e)
      /\ events' = Append(events, E)
      /\ askedPieces' = Append(askedPieces, a) /\ askedValues' = askedValues
  BY DEF BatchInsert, Placed
<1>2. engine # "python"
  BY <1>1, AskedOfBatch
<1>3. /\ Sound(nOccurrences, nEdges, nOverlays, nSatisfied) /\ NativeSound
      /\ nOccurrences \in Seq(Occurrences) /\ events \in Seq(InsertEvents \cup BindEvents)
  BY DEF Core, NativeSound, Sound
<1>4. /\ IsId(nOccurrences, id)
      /\ nOccurrences[id[1]].prefix \in Seq(Name) \ {<<>>}
  BY <1>3, SelectableAre
<1>5. path \in Seq(Name) \ {<<>>}
  BY <1>4, OwnerAppended
<1>6. o \in Occurrences
  BY <1>5, OccurrenceMade
<1>7. E \in InsertEvents /\ E.kind = "insert"
  <2>1. id \in Nat \X Nat /\ Len(nOccurrences) \in Nat
    BY <1>3, <1>4 DEF IsId
  <2> QED BY <1>5, <2>1 DEF InsertEvents
<1>8. PiecesAre(askedPieces, nOccurrences, nEdges)
  BY <1>2 DEF AskedKept, AskedNative
<1>9. PiecesAre(askedPieces', nOccurrences', nEdges')
  BY <1>1, <1>3, <1>4, <1>8, PiecesGrow
<1> HIDE DEF path, o, e, E, a
<1>10. \A i \in 1 .. Len(nOccurrences) : nOccurrences'[i] = nOccurrences[i]
  BY <1>1, <1>3, <1>6, AppendProperties
<1>11. /\ DOMAIN events' = DOMAIN events \cup {Len(events) + 1}
       /\ \A j \in DOMAIN events : events'[j] = events[j]
       /\ events'[Len(events) + 1] = E
  BY <1>1, <1>3, <1>7, Appended
<1>12. Externals' = Externals /\ \A k \in Externals : events'[k] = events[k]
  BY <1>7, <1>11 DEF Externals
<1>13. PICK told : /\ ValuesAre(askedValues, literals, nOccurrences, nOverlays, told)
                   /\ \A k \in Externals : told[events[k].overlay] = events[k].value
  BY <1>2 DEF AskedKept, AskedNative
<1>14. ValuesAre(askedValues, literals, nOccurrences', nOverlays, told)
  BY <1>3, <1>10, <1>13, ValuesPlaced
<1>16. /\ \A k \in Externals : events[k].overlay \in DOMAIN nOverlays
       /\ DOMAIN literals \subseteq DOMAIN nOverlays
  BY <1>2 DEF AskedKept, AskedNative
<1>17. failed \/ \A j \in DOMAIN nOverlays : nOverlays[j].kind = "external" =>
          j \in DOMAIN literals \/ \E k \in Externals : events[k].overlay = j
  BY <1>2 DEF AskedKept, AskedNative
<1>18. \A k \in Externals' : events'[k] = events[k] /\ k \in Externals
  BY <1>12
<1>19. \E later : /\ ValuesAre(askedValues', literals', nOccurrences', nOverlays', later)
                 /\ \A k \in Externals' : later[events'[k].overlay] = events'[k].value
  <2>1. ValuesAre(askedValues', literals', nOccurrences', nOverlays', told)
    BY <1>1, <1>14
  <2>2. \A k \in Externals' : told[events'[k].overlay] = events'[k].value
    BY <1>13, <1>18
  <2> QED BY <2>1, <2>2
<1>20. \A k \in Externals' : events'[k].overlay \in DOMAIN nOverlays'
  BY <1>1, <1>16, <1>18
<1>21. failed' \/ \A j \in DOMAIN nOverlays' : nOverlays'[j].kind = "external" =>
          j \in DOMAIN literals' \/ \E k \in Externals' : events'[k].overlay = j
  BY <1>1, <1>12, <1>17
<1>22. DOMAIN literals' \subseteq DOMAIN nOverlays'
  BY <1>1, <1>16
<1>15. AskedNative'
  BY <1>9, <1>19, <1>20, <1>21, <1>22 DEF AskedNative
<1> QED BY <1>1, <1>2, <1>15 DEF AskedKept, AskedPython

LEMMA AskedBatchBind ==
    ASSUME Core, AskedKept, NEW id \in Selectable, NEW v \in Word, NUnbound(id), BatchBind(id, v)
    PROVE  AskedKept'
<1> DEFINE b == [kind |-> NRecord(id).kind, target |-> id,
                 label |-> IF NRecord(id).kind = "external" THEN NLabel(id) ELSE v]
           E == [kind |-> NRecord(id).kind, target |-> id,
                 overlay |-> Len(nOverlays) + 1, value |-> v]
           x == [prefix |-> nOccurrences[id[1]].prefix, at |-> id[2], value |-> v]
<1>1. /\ stage = "batch" /\ engine' = engine /\ literals' = literals /\ failed' = failed
      /\ nOccurrences' = nOccurrences /\ nEdges' = nEdges
      /\ nOverlays' = Append(nOverlays, b) /\ events' = Append(events, E)
      /\ NRecord(id).kind \in BindKinds
      /\ askedPieces' = askedPieces /\ askedValues' = askedValues \cup {x}
  BY DEF BatchBind, Valued
<1>2. engine # "python"
  BY <1>1, AskedOfBatch
<1>3. /\ NativeSound /\ nOverlays \in Seq(NOverlays)
      /\ events \in Seq(InsertEvents \cup BindEvents)
  BY DEF Core, NativeSound
<1>4. /\ IsId(nOccurrences, id) /\ NRecord(id) = Marker(nOccurrences, id)
      /\ Marker(nOccurrences, id) \in Record
  BY <1>3, SelectableAre
<1>5. NLabel(id) \in Word /\ id \in Nat \X Nat
  BY <1>3, <1>4, NLabelIn DEF IsId
<1>6. b \in NOverlays /\ E \in BindEvents
  <2>1. Len(nOverlays) + 1 \in Nat
    BY <1>3
  <2> QED BY <1>1, <1>5, <2>1 DEF NOverlays, BindEvents
<1>7. b.target = id /\ b.kind = E.kind /\ E.overlay = Len(nOverlays) + 1 /\ E.value = v
  OBVIOUS
<1>8. b.kind = "identifier" => b.label = v
  OBVIOUS
<1>9. x = ValueAt(nOccurrences, id, v)
  BY DEF ValueAt
<1> HIDE DEF b, E, x
<1>10. PICK N : N = Len(nOverlays) + 1
  OBVIOUS
<1>11. /\ DOMAIN nOverlays' = DOMAIN nOverlays \cup {N} /\ N \notin DOMAIN nOverlays
       /\ \A j \in DOMAIN nOverlays : nOverlays'[j] = nOverlays[j]
       /\ nOverlays'[N] = b
  BY <1>1, <1>3, <1>6, <1>10, Appended
<1>12. PICK M : M = Len(events) + 1
  OBVIOUS
<1>13. /\ DOMAIN events' = DOMAIN events \cup {M} /\ M \notin DOMAIN events
       /\ \A j \in DOMAIN events : events'[j] = events[j]
       /\ events'[M] = E
  BY <1>1, <1>3, <1>6, <1>12, Appended
<1>14. /\ PiecesAre(askedPieces, nOccurrences, nEdges)
       /\ \A k \in Externals : events[k].overlay \in DOMAIN nOverlays
       /\ DOMAIN literals \subseteq DOMAIN nOverlays
  BY <1>2 DEF AskedKept, AskedNative
<1>15. failed \/ \A j \in DOMAIN nOverlays : nOverlays[j].kind = "external" =>
          j \in DOMAIN literals \/ \E k \in Externals : events[k].overlay = j
  BY <1>2 DEF AskedKept, AskedNative
<1>16. PICK told : /\ ValuesAre(askedValues, literals, nOccurrences, nOverlays, told)
                   /\ \A k \in Externals : told[events[k].overlay] = events[k].value
  BY <1>2 DEF AskedKept, AskedNative
<1>17. ValueKept(nOverlays, b, id, v, literals, literals)
  <2>1. N \notin DOMAIN literals
    BY <1>11, <1>14
  <2> QED BY <1>7, <1>8, <1>10, <2>1 DEF ValueKept
<1>18. PICK more : /\ ValuesAre(askedValues \cup {ValueAt(nOccurrences, id, v)}, literals,
                                nOccurrences, Append(nOverlays, b), more)
                   /\ TellsToo(nOverlays, told, v, more)
  BY <1>3, <1>6, <1>16, <1>17, ValuesGrown
<1>19. ValuesAre(askedValues', literals', nOccurrences', nOverlays', more)
  BY <1>1, <1>9, <1>18
<1>20. /\ \A j \in DOMAIN nOverlays : more[j] = told[j]
       /\ more[N] = v
  BY <1>10, <1>18 DEF TellsToo
<1>21. \A k \in Externals' : \/ k \in Externals /\ events'[k] = events[k]
                             \/ k = M /\ E.kind = "external" /\ events'[k] = E
  BY <1>13 DEF Externals
<1>22. \A k \in Externals : k \in Externals' /\ events'[k] = events[k]
  BY <1>13 DEF Externals
<1>23. E.kind = "external" => M \in Externals' /\ events'[M].overlay = N
  BY <1>7, <1>10, <1>13 DEF Externals
<1>24. \A k \in Externals' : /\ more[events'[k].overlay] = events'[k].value
                             /\ events'[k].overlay \in DOMAIN nOverlays'
  <2> SUFFICES ASSUME NEW k \in Externals'
               PROVE  /\ more[events'[k].overlay] = events'[k].value
                      /\ events'[k].overlay \in DOMAIN nOverlays'
    OBVIOUS
  <2>1. CASE k \in Externals /\ events'[k] = events[k]
    BY <1>11, <1>14, <1>16, <1>20, <2>1
  <2>2. CASE k = M /\ events'[k] = E
    BY <1>7, <1>10, <1>11, <1>20, <2>2
  <2> QED BY <1>21, <2>1, <2>2
<1>25. failed' \/ \A j \in DOMAIN nOverlays' : nOverlays'[j].kind = "external" =>
          j \in DOMAIN literals' \/ \E k \in Externals' : events'[k].overlay = j
  <2> SUFFICES ASSUME ~failed, NEW j \in DOMAIN nOverlays', nOverlays'[j].kind = "external"
               PROVE  j \in DOMAIN literals' \/ \E k \in Externals' : events'[k].overlay = j
    BY <1>1
  <2>1. CASE j \in DOMAIN nOverlays
    BY <1>1, <1>11, <1>15, <1>22, <2>1
  <2>2. CASE j = N
    BY <1>7, <1>11, <1>23, <2>2
  <2> QED BY <1>11, <2>1, <2>2
<1>26. PiecesAre(askedPieces', nOccurrences', nEdges') /\ DOMAIN literals' \subseteq DOMAIN nOverlays'
  BY <1>1, <1>11, <1>14
<1>27. AskedNative'
  BY <1>19, <1>24, <1>25, <1>26 DEF AskedNative
<1> QED BY <1>1, <1>2, <1>27 DEF AskedKept, AskedPython

LEMMA AskedFails ==
    ASSUME Core, AskedKept, BatchRaises
    PROVE  AskedKept'
<1>1. /\ stage = "batch" /\ engine' = engine /\ literals' = literals /\ failed' = TRUE
      /\ native' = native /\ events' = <<>> /\ asked' = asked
  BY DEF BatchRaises
<1>2. engine # "python"
  BY <1>1, AskedOfBatch
<1>3. Externals' = {}
  BY <1>1 DEF Externals
<1> QED BY <1>1, <1>2, <1>3 DEF AskedKept, AskedPython, AskedNative, asked, native

LEMMA AskedCommit ==
    ASSUME Core, AskedKept, CommitBatch
    PROVE  AskedKept'
<1>1. /\ stage = "batch" /\ engine' = engine /\ failed' = failed /\ NoteEvents
      /\ native' = native /\ events' = <<>> /\ asked' = asked
  BY DEF CommitBatch
<1>2. engine # "python"
  BY <1>1, AskedOfBatch
<1>3. Externals' = {}
  BY <1>1 DEF Externals
<1>4. PICK told : /\ ValuesAre(askedValues, literals, nOccurrences, nOverlays, told)
                  /\ \A k \in Externals : told[events[k].overlay] = events[k].value
  BY <1>2 DEF AskedKept, AskedNative
<1>5. literals' = [o \in DOMAIN literals \cup {events[j].overlay : j \in Externals} |->
            IF \E j \in Externals : events[j].overlay = o
            THEN events[CHOOSE j \in Externals : events[j].overlay = o].value
            ELSE literals[o]]
  BY <1>1 DEF NoteEvents
<1>6. DOMAIN literals' = DOMAIN literals \cup {events[j].overlay : j \in Externals}
  BY <1>5
<1>7. ASSUME NEW o \in DOMAIN literals', \E j \in Externals : events[j].overlay = o
      PROVE  literals'[o] = told[o]
  <2>1. literals'[o] = events[CHOOSE j \in Externals : events[j].overlay = o].value
    BY <1>5, <1>7
  <2>2. PICK k : k = CHOOSE j \in Externals : events[j].overlay = o
    OBVIOUS
  <2>3. k \in Externals /\ events[k].overlay = o
    BY <1>7, <2>2
  <2> QED BY <1>4, <2>1, <2>2, <2>3
<1>8. ASSUME NEW o \in DOMAIN literals', ~\E j \in Externals : events[j].overlay = o
      PROVE  o \in DOMAIN literals /\ literals'[o] = literals[o]
  BY <1>5, <1>6, <1>8
<1>9. ASSUME NEW j \in DOMAIN nOverlays, nOverlays[j].kind = "external", j \in DOMAIN literals'
      PROVE  literals'[j] = told[j]
  <2>1. j \in DOMAIN literals => literals[j] = told[j]
    BY <1>4, <1>9 DEF ValuesAre
  <2> QED BY <1>7, <1>8, <1>9, <2>1
<1>10. ValuesAre(askedValues, literals', nOccurrences, nOverlays, told)
  BY <1>4, <1>9 DEF ValuesAre
<1>11. /\ PiecesAre(askedPieces, nOccurrences, nEdges)
       /\ \A k \in Externals : events[k].overlay \in DOMAIN nOverlays
       /\ DOMAIN literals \subseteq DOMAIN nOverlays
  BY <1>2 DEF AskedKept, AskedNative
<1>12. failed \/ \A j \in DOMAIN nOverlays : nOverlays[j].kind = "external" =>
          j \in DOMAIN literals \/ \E k \in Externals : events[k].overlay = j
  BY <1>2 DEF AskedKept, AskedNative
<1>13. failed' \/ \A j \in DOMAIN nOverlays' : nOverlays'[j].kind = "external" => j \in DOMAIN literals'
  BY <1>1, <1>6, <1>12 DEF native
<1>14. DOMAIN literals' \subseteq DOMAIN nOverlays'
  BY <1>1, <1>6, <1>11 DEF native
<1>15. AskedNative'
  BY <1>1, <1>3, <1>10, <1>11, <1>13, <1>14 DEF AskedNative, asked, native
<1> QED BY <1>1, <1>2, <1>15 DEF AskedKept, AskedPython

LEMMA AskedReplayInsert ==
    ASSUME Core, AskedKept, ReplayEvent, events[1].kind = "insert"
    PROVE  AskedKept'
<1>1. /\ stage = "replay" /\ events # <<>> /\ events' = Tail(events) /\ engine' = engine
      /\ native' = native /\ failed' = failed /\ asked' = asked
  BY DEF ReplayEvent
<1>2. engine # "python" /\ literals' = literals
  BY <1>1, AskedOfBatch, ReplayInsertStep
<1>3. events \in Seq(InsertEvents \cup BindEvents)
  BY DEF Core, NativeSound
<1>4. \A k \in Externals' : k + 1 \in Externals /\ events'[k] = events[k + 1]
  BY <1>1, <1>3, EventsShift DEF Externals
<1>5. \A k \in Externals : k - 1 \in Externals' /\ events'[k - 1] = events[k]
  <2> SUFFICES ASSUME NEW k \in Externals PROVE k - 1 \in Externals' /\ events'[k - 1] = events[k]
    OBVIOUS
  <2>1. k # 1 /\ k \in DOMAIN events
    BY DEF Externals
  <2>2. k - 1 \in DOMAIN events' /\ events'[k - 1] = events[k]
    BY <1>1, <1>3, <2>1, EventsShift
  <2> QED BY <2>2 DEF Externals
<1>6. PICK told : /\ ValuesAre(askedValues, literals, nOccurrences, nOverlays, told)
                  /\ \A k \in Externals : told[events[k].overlay] = events[k].value
  BY <1>2 DEF AskedKept, AskedNative
<1>7. /\ PiecesAre(askedPieces, nOccurrences, nEdges)
      /\ \A k \in Externals : events[k].overlay \in DOMAIN nOverlays
      /\ DOMAIN literals \subseteq DOMAIN nOverlays
  BY <1>2 DEF AskedKept, AskedNative
<1>8. failed \/ \A j \in DOMAIN nOverlays : nOverlays[j].kind = "external" =>
         j \in DOMAIN literals \/ \E k \in Externals : events[k].overlay = j
  BY <1>2 DEF AskedKept, AskedNative
<1>9. /\ nOccurrences' = nOccurrences /\ nEdges' = nEdges /\ nOverlays' = nOverlays
      /\ askedPieces' = askedPieces /\ askedValues' = askedValues
  BY <1>1 DEF native, asked
<1>10. \E later : /\ ValuesAre(askedValues', literals', nOccurrences', nOverlays', later)
                  /\ \A k \in Externals' : later[events'[k].overlay] = events'[k].value
  BY <1>2, <1>4, <1>6, <1>9
<1>11. \A k \in Externals' : events'[k].overlay \in DOMAIN nOverlays'
  BY <1>4, <1>7, <1>9
<1>12. failed' \/ \A j \in DOMAIN nOverlays' : nOverlays'[j].kind = "external" =>
          j \in DOMAIN literals' \/ \E k \in Externals' : events'[k].overlay = j
  <2> SUFFICES ASSUME ~failed, NEW j \in DOMAIN nOverlays, nOverlays[j].kind = "external"
               PROVE  j \in DOMAIN literals' \/ \E k \in Externals' : events'[k].overlay = j
    BY <1>1, <1>9
  <2>1. CASE j \in DOMAIN literals
    BY <1>2, <2>1
  <2>2. CASE \E k \in Externals : events[k].overlay = j
    BY <1>5, <2>2
  <2> QED BY <1>8, <2>1, <2>2
<1>13. PiecesAre(askedPieces', nOccurrences', nEdges') /\ DOMAIN literals' \subseteq DOMAIN nOverlays'
  BY <1>2, <1>7, <1>9
<1>14. AskedNative'
  BY <1>10, <1>11, <1>12, <1>13 DEF AskedNative
<1> QED BY <1>1, <1>2, <1>14 DEF AskedKept, AskedPython

LEMMA AskedReplayBind ==
    ASSUME Core, AskedKept, ReplayEvent, events[1].kind \in BindKinds
    PROVE  AskedKept'
<1> DEFINE e == events[1]
<1>1. /\ stage = "replay" /\ events # <<>> /\ events' = Tail(events) /\ engine' = engine
      /\ native' = native /\ failed' = failed /\ asked' = asked
  BY DEF ReplayEvent
<1>2. engine # "python" /\ literals' = WithLiteral(e.kind, e.overlay, e.value)
  BY <1>1, AskedOfBatch, ReplayBindStep
<1>3. events \in Seq(InsertEvents \cup BindEvents) /\ 1 \in DOMAIN events
  <2>1. events \in Seq(InsertEvents \cup BindEvents)
    BY DEF Core, NativeSound
  <2> QED BY <1>1, <2>1, EventsShift
<1>4. \A k \in Externals' : k + 1 \in Externals /\ events'[k] = events[k + 1]
  BY <1>1, <1>3, EventsShift DEF Externals
<1>5. \A k \in Externals : k # 1 => k - 1 \in Externals' /\ events'[k - 1] = events[k]
  <2> SUFFICES ASSUME NEW k \in Externals, k # 1
               PROVE k - 1 \in Externals' /\ events'[k - 1] = events[k]
    OBVIOUS
  <2>1. k \in DOMAIN events
    BY DEF Externals
  <2>2. k - 1 \in DOMAIN events' /\ events'[k - 1] = events[k]
    BY <1>1, <1>3, <2>1, EventsShift
  <2> QED BY <2>2 DEF Externals
<1>6. PICK told : /\ ValuesAre(askedValues, literals, nOccurrences, nOverlays, told)
                  /\ \A k \in Externals : told[events[k].overlay] = events[k].value
  BY <1>2 DEF AskedKept, AskedNative
<1>7. /\ PiecesAre(askedPieces, nOccurrences, nEdges)
      /\ \A k \in Externals : events[k].overlay \in DOMAIN nOverlays
      /\ DOMAIN literals \subseteq DOMAIN nOverlays
  BY <1>2 DEF AskedKept, AskedNative
<1>8. failed \/ \A j \in DOMAIN nOverlays : nOverlays[j].kind = "external" =>
         j \in DOMAIN literals \/ \E k \in Externals : events[k].overlay = j
  BY <1>2 DEF AskedKept, AskedNative
<1>9. /\ nOccurrences' = nOccurrences /\ nEdges' = nEdges /\ nOverlays' = nOverlays
      /\ askedPieces' = askedPieces /\ askedValues' = askedValues
  BY <1>1 DEF native, asked
<1>15. e.kind = "external" => 1 \in Externals
  BY <1>3 DEF Externals
<1>16. DOMAIN literals' = IF e.kind = "external" THEN DOMAIN literals \cup {e.overlay} ELSE DOMAIN literals
  <2>1. DOMAIN With(literals, e.overlay, e.value) = DOMAIN literals \cup {e.overlay}
    BY DEF With
  <2> QED BY <1>2, <2>1 DEF WithLiteral
<1>17. e.kind = "external" => literals'[e.overlay] = told[e.overlay]
  <2>1. With(literals, e.overlay, e.value)[e.overlay] = e.value
    BY DEF With
  <2>2. e.kind = "external" => told[e.overlay] = e.value
    BY <1>6, <1>15
  <2> QED BY <1>2, <2>1, <2>2 DEF WithLiteral
<1>18. \A j \in DOMAIN literals' : (j \in DOMAIN literals /\ literals'[j] = literals[j])
                                    \/ (j = e.overlay /\ e.kind = "external")
  <2>1. \A j \in DOMAIN literals : j # e.overlay => With(literals, e.overlay, e.value)[j] = literals[j]
    BY DEF With
  <2> QED BY <1>2, <1>16, <2>1 DEF WithLiteral
<1>19. 1 \in Externals => e.kind = "external"
  BY DEF Externals
<1> HIDE DEF e
<1>20. ValuesAre(askedValues, literals', nOccurrences, nOverlays, told)
  <2>1. ASSUME NEW j \in DOMAIN nOverlays, nOverlays[j].kind = "external", j \in DOMAIN literals'
        PROVE  literals'[j] = told[j]
    <3>1. j \in DOMAIN literals => literals[j] = told[j]
      BY <1>6, <2>1 DEF ValuesAre
    <3> QED BY <1>17, <1>18, <2>1, <3>1
  <2> QED BY <1>6, <2>1 DEF ValuesAre
<1>10. \E later : /\ ValuesAre(askedValues', literals', nOccurrences', nOverlays', later)
                  /\ \A k \in Externals' : later[events'[k].overlay] = events'[k].value
  BY <1>4, <1>6, <1>9, <1>20
<1>11. \A k \in Externals' : events'[k].overlay \in DOMAIN nOverlays'
  BY <1>4, <1>7, <1>9
<1>12. failed' \/ \A j \in DOMAIN nOverlays' : nOverlays'[j].kind = "external" =>
          j \in DOMAIN literals' \/ \E k \in Externals' : events'[k].overlay = j
  <2> SUFFICES ASSUME ~failed, NEW j \in DOMAIN nOverlays, nOverlays[j].kind = "external"
               PROVE  j \in DOMAIN literals' \/ \E k \in Externals' : events'[k].overlay = j
    BY <1>1, <1>9
  <2>1. CASE j \in DOMAIN literals
    BY <1>16, <2>1
  <2>2. CASE \E k \in Externals : events[k].overlay = j
    <3>1. PICK k \in Externals : events[k].overlay = j
      BY <2>2
    <3>2. CASE k = 1
      BY <1>16, <1>19, <3>1, <3>2 DEF e
    <3>3. CASE k # 1
      BY <1>5, <3>1, <3>3
    <3> QED BY <3>2, <3>3
  <2> QED BY <1>8, <2>1, <2>2
<1>13. PiecesAre(askedPieces', nOccurrences', nEdges') /\ DOMAIN literals' \subseteq DOMAIN nOverlays'
  <2>1. e.kind = "external" => e.overlay \in DOMAIN nOverlays
    BY <1>7, <1>15 DEF e
  <2> QED BY <1>7, <1>9, <1>16, <2>1
<1>14. AskedNative'
  BY <1>10, <1>11, <1>12, <1>13 DEF AskedNative
<1> QED BY <1>1, <1>2, <1>14 DEF AskedKept, AskedPython

-----------------------------------------------------------------------------
(* The invariant holds at first and is kept by every step.                  *)
LEMMA InvariantStarts == NInit => NInv
<1> SUFFICES ASSUME NInit PROVE NInv
  OBVIOUS
<1> USE DEF NInit, Init
<1>1. MirrorSound
  <2>1. Sound(occurrences, edges, overlays, satisfied)
    BY SoundEmpty
  <2>2. renames = {} /\ DOMAIN overlays = {} /\ overlays \in Seq(Overlays)
    OBVIOUS
  <2> QED BY <2>1, <2>2 DEF MirrorSound
<1>2. BuilderKnows
  <2>1. /\ deferred = <<>> /\ draining = <<>> /\ links = <<>> /\ edges = <<>>
    OBVIOUS
  <2>2. Known = <<>>
    BY <2>1 DEF Known
  <2> QED BY <2>1, <2>2 DEF BuilderKnows
<1>3. Registry
  BY DEF Registry, Count
<1>4. BindingsKnown /\ Stages
  BY DEF BindingsKnown, Stages, BindKinds
<1>5. Mode
  BY DEF Mode
<1>6. NativeSound
  <2>1. Sound(nOccurrences, nEdges, nOverlays, nSatisfied)
    BY SoundEmpty
  <2>2. nOverlays \in Seq(NOverlays) /\ events \in Seq(InsertEvents \cup BindEvents)
    OBVIOUS
  <2> QED BY <2>1, <2>2 DEF NativeSound
<1>7. InStep /\ HandlesKnown
  BY DEF InStep, HandlesKnown, OverlaysAlike, Count
<1>8. Lockstep
  BY <1>1, <1>6, <1>7, InStepHolds DEF Lockstep, NativeSound
<1>9. PiecesAre(<<>>, <<>>, <<>>)
  BY DEF PiecesAre
<1>10. \A S : ValuesAre({}, <<>>, <<>>, <<>>, <<>>)
  BY DEF ValuesAre
<1>11. AskedPython /\ AskedNative
  BY <1>9, <1>10 DEF AskedPython, AskedNative, Externals
<1> QED BY <1>1, <1>2, <1>3, <1>4, <1>5, <1>6, <1>8, <1>11 DEF NInv, Core, Mirror

LEMMA InvariantKept ==
    ASSUME NInv, [NNext]_allVars
    PROVE  NInv'
<1>1. Core /\ AskedKept /\ MirrorSound /\ NativeSound
  BY DEF NInv, AskedKept, Core, Mirror
<1> SUFFICES Core' /\ AskedKept'
  BY DEF NInv, AskedKept
<1>2. ASSUME NEW n \in Name, NEW p \in Piece, AddRoot(n, p) PROVE Core' /\ AskedKept'
  BY <1>1, <1>2, RootStep, AskedRoot
<1>3. ASSUME Singly, NEW c \in Offered, NEW p \in Piece, NEW n \in Name, Unused(n), WireInsert(c, p, n)
      PROVE  Core' /\ AskedKept'
  <2>1. PICK id : /\ IsId(occurrences, id) /\ id \notin satisfied
                  /\ c = CandidateAt(id[1], id[2])
    BY <1>1, OfferedAre
  <2>2. Core'
    BY <1>1, <1>3, <2>1, WireInsertStep
  <2>3. AskedKept'
    BY <1>1, <1>3, <2>1, AskedInsert
  <2> QED BY <2>2, <2>3
<1>4. ASSUME Singly, NEW c \in Offered, NEW v \in Values, Unbound(c), WireBind(c, v),
             \A t \in TargetOf(c) : ValueFirst(occurrences, overlays, t)
      PROVE  Core' /\ AskedKept'
  <2>1. PICK id : /\ IsId(occurrences, id) /\ id \notin satisfied
                  /\ c = CandidateAt(id[1], id[2])
    BY <1>1, OfferedAre
  <2>2. v \in Word
    BY ValuesAssumption
  <2>3. Core'
    BY <1>1, <1>4, <2>1, <2>2, WireBindStep
  <2>4. AskedKept'
    BY <1>1, <1>4, <2>1, <2>2, AskedBind
  <2> QED BY <2>3, <2>4
<1>5. ASSUME Singly, Adapt PROVE Core' /\ AskedKept'
  <2>1. Core' /\ lower' = lower
    BY <1>1, <1>5, AdaptStep
  <2>2. UNCHANGED <<engine, native, scope, asked>>
    BY <1>5 DEF Adapt
  <2>3. AskedKept'
    BY <1>1, <2>1, <2>2, AskedSame DEF scope, lower
  <2> QED BY <2>1, <2>3
<1>6. ASSUME Count > 0, ~(engine = "mirrored" /\ failed), StartBatch PROVE Core' /\ AskedKept'
  <2>1. Core' /\ lower' = lower
    BY <1>1, <1>6, BatchStarts
  <2>2. UNCHANGED <<engine, native, literals, events, failed, asked>>
    BY <1>6 DEF StartBatch
  <2>3. AskedKept'
    BY <1>1, <2>1, <2>2, AskedSame DEF lower
  <2> QED BY <2>1, <2>3
<1>7. ASSUME NEW id \in Selectable, NEW p \in Piece, NEW n \in Name, Unused(n), BatchInsert(id, p, n)
      PROVE  Core' /\ AskedKept'
  BY <1>1, <1>7, BatchInsertStep, AskedBatchInsert
<1>8. ASSUME NEW id \in Selectable, NEW v \in Values, NUnbound(id), BatchBind(id, v),
             ValueFirst(nOccurrences, nOverlays, id)
      PROVE  Core' /\ AskedKept'
  <2>1. v \in Word
    BY ValuesAssumption
  <2>2. Core'
    BY <1>1, <1>8, <2>1, BatchBindStep
  <2>3. AskedKept'
    BY <1>1, <1>8, <2>1, AskedBatchBind
  <2> QED BY <2>2, <2>3
<1>9. ASSUME BatchRaises PROVE Core' /\ AskedKept'
  BY <1>1, <1>9, BatchFails, AskedFails
<1>10. ASSUME CommitBatch PROVE Core' /\ AskedKept'
  BY <1>1, <1>10, BatchCommits, AskedCommit
<1>11. ASSUME StartReplay PROVE Core' /\ AskedKept'
  <2>1. Core' /\ lower' = lower
    BY <1>1, <1>11, ReplayStarts
  <2>2. UNCHANGED <<engine, native, scope, asked>>
    BY <1>11 DEF StartReplay
  <2>3. AskedKept'
    BY <1>1, <2>1, <2>2, AskedSame DEF scope, lower
  <2> QED BY <2>1, <2>3
<1>12. ASSUME ReplayEvent PROVE Core' /\ AskedKept'
  <2>1. events[1] \in InsertEvents \cup BindEvents
    BY <1>1, <1>12, EventsShift DEF ReplayEvent, NativeSound
  <2>2. CASE events[1].kind = "insert"
    BY <1>1, <1>12, <2>2, ReplayInsertStep, AskedReplayInsert
  <2>3. CASE events[1].kind \in BindKinds
    BY <1>1, <1>12, <2>3, ReplayBindStep, AskedReplayBind
  <2> QED BY <2>1, <2>2, <2>3, EventKinds
<1>13. ASSUME UNCHANGED allVars PROVE Core' /\ AskedKept'
  <2>1. /\ UNCHANGED vars /\ UNCHANGED <<engine, native, scope, asked>>
    BY <1>13 DEF allVars
  <2>2. Mirror' /\ lower' = lower
    BY <1>1, <2>1, SameVars DEF Core
  <2>3. stage' = stage /\ Count' = Count
    BY <2>1, <2>2 DEF vars, lower, Count
  <2>4. Mode'
    BY <1>1, <2>1, <2>3, SameMode DEF Core, scope
  <2>5. NativeSound'
    BY <1>1, <2>1, SameNative DEF native, scope
  <2>6. Lockstep'
    BY <1>1, <2>1, <2>2, LockstepKept DEF Core, native, scope, InForce
  <2>7. AskedKept'
    BY <1>1, <2>1, <2>2, AskedSame DEF scope, lower
  <2> QED BY <2>2, <2>4, <2>5, <2>6, <2>7 DEF Core
<1>14. CASE NNext
  BY <1>2, <1>3, <1>4, <1>5, <1>6, <1>7, <1>8, <1>9, <1>10, <1>11, <1>12, <1>14
     DEF NNext, Wire, Batch
<1> QED BY <1>13, <1>14

(* Whatever mixture of calls, builds, batches and failed batches a careful  *)
(* client makes, the three assemblies stay sound and in step, and hold what *)
(* was asked for.                                                           *)
THEOREM NativeInvariant == NSpec => []NInv
<1>1. NInit => NInv
  BY InvariantStarts
<1>2. NInv /\ [NNext]_allVars => NInv'
  BY InvariantKept
<1> QED BY <1>1, <1>2, PTL DEF NSpec

-----------------------------------------------------------------------------
(* The names of a sound state, told natively and told by the mirror.        *)
LEMMA LabelsAlike ==
    ASSUME MirrorSound, NativeSound, InStep, NEW id, IsId(occurrences, id)
    PROVE  NLabel(id) = Resolved(id[1], RecordAt(id).label)
<1> DEFINE word == RecordAt(id).label
           About == {j \in DOMAIN overlays :
                        /\ overlays[j].kind = "identifier"
                        /\ overlays[j].target[1] = id[1]
                        /\ RecordAt(overlays[j].target).label = word}
           Renaming == {j \in DOMAIN nOverlays :
                           /\ nOverlays[j].kind = "identifier"
                           /\ nOverlays[j].target[1] = id[1]
                           /\ NRecord(nOverlays[j].target).label = NRecord(id).label}
           Here == {r \in renames : r.at = id[1] /\ r.from = word}
<1>1. /\ Sound(occurrences, edges, overlays, satisfied) /\ overlays \in Seq(Overlays)
      /\ nOccurrences = occurrences /\ nOverlays \in Seq(NOverlays)
      /\ Len(nOverlays) = Len(overlays)
  BY DEF MirrorSound, NativeSound, InStep, OverlaysAlike
<1>2. DOMAIN nOverlays = DOMAIN overlays
  BY <1>1
<1>3. \A j \in DOMAIN overlays :
         /\ nOverlays[j].kind = overlays[j].kind /\ nOverlays[j].target = overlays[j].target
         /\ nOverlays[j].label = overlays[j].label
  <2> SUFFICES ASSUME NEW j \in DOMAIN overlays
               PROVE  /\ nOverlays[j].kind = overlays[j].kind /\ nOverlays[j].target = overlays[j].target
                      /\ nOverlays[j].label = overlays[j].label
    OBVIOUS
  <2>1. nOverlays[j] = [kind |-> overlays[j].kind, target |-> overlays[j].target,
                        label |-> overlays[j].label]
    BY DEF InStep, OverlaysAlike
  <2> QED BY <2>1
<1>4. Renaming = About
  BY <1>1, <1>2, <1>3 DEF NRecord, RecordAt
<1>5. \A j, k \in About : j = k
  <2> SUFFICES ASSUME NEW j \in About, NEW k \in About PROVE j = k
    OBVIOUS
  <2>1. \A i \in About : /\ IsId(occurrences, overlays[i].target)
                         /\ Marker(occurrences, overlays[i].target).kind = "identifier"
                         /\ Marker(occurrences, overlays[i].target).label = word
    BY <1>1 DEF Sound, BindingSound, Marker, RecordAt
  <2>2. \A i \in About : Marker(occurrences, overlays[i].target) \in Record
    <3> SUFFICES ASSUME NEW i \in About PROVE Marker(occurrences, overlays[i].target) \in Record
      OBVIOUS
    <3>1. overlays[i].target[1] \in 1 .. Len(occurrences)
          /\ overlays[i].target[2] \in DOMAIN Records[occurrences[overlays[i].target[1]].piece]
      BY <2>1 DEF IsId
    <3>2. occurrences[overlays[i].target[1]] \in Occurrences
      BY <1>1, <3>1 DEF Sound
    <3>3. occurrences[overlays[i].target[1]].piece \in Piece
      BY <3>2, OccurrencesAre
    <3> QED BY <3>1, <3>3, RecordsAre DEF Marker
  <2>3. Marker(occurrences, overlays[j].target) = Marker(occurrences, overlays[k].target)
    BY <2>1, <2>2 DEF Record
  <2> QED BY <1>1, <2>3 DEF Sound, DemandsOnce
<1>6. \A j \in About : [at |-> id[1], from |-> word, to |-> overlays[j].value] \in Here
  BY DEF MirrorSound
<1>7. \A r \in Here : \E j \in About : r = [at |-> id[1], from |-> word, to |-> overlays[j].value]
  BY DEF MirrorSound
<1>8. /\ NLabel(id) = IF Renaming = {} THEN NRecord(id).label
                      ELSE nOverlays[CHOOSE j \in Renaming : \A k \in Renaming : k <= j].label
      /\ Resolved(id[1], word) = IF \E r \in renames : r.at = id[1] /\ r.from = word
                                 THEN (CHOOSE r \in renames : r.at = id[1] /\ r.from = word).to
                                 ELSE word
      /\ NRecord(id).label = word
  BY <1>1 DEF NLabel, Resolved, NRecord, RecordAt
<1> HIDE DEF Renaming, word
<1>9. CASE About = {}
  <2>1. ~\E r \in renames : r.at = id[1] /\ r.from = word
    <3>1. Here = {}
      BY <1>7, <1>9
    <3> QED BY <3>1
  <2>2. Renaming = {}
    BY <1>4, <1>9
  <2>3. Resolved(id[1], word) = word
    BY <1>8, <2>1
  <2>4. NLabel(id) = word
    BY <1>8, <2>2
  <2> QED BY <2>3, <2>4 DEF word
<1>10. CASE About # {}
  <2>1. PICK j \in About : TRUE
    BY <1>10
  <2>2. j \in Nat /\ \A k \in About : k = j
    BY <1>1, <1>5, <2>1
  <2>3. (CHOOSE i \in About : \A k \in About : k <= i) = j
    BY <2>2
  <2>4. NLabel(id) = overlays[j].value
    BY <1>3, <1>4, <1>8, <1>10, <2>3 DEF MirrorSound
  <2>5. PICK r : r = CHOOSE q \in renames : q.at = id[1] /\ q.from = word
    OBVIOUS
  <2>6. \E q \in renames : q.at = id[1] /\ q.from = word
    BY <1>6
  <2>7. r \in Here
    BY <2>5, <2>6
  <2>8. r.to = overlays[j].value
    BY <1>7, <2>2, <2>7
  <2> QED BY <1>8, <2>4, <2>5, <2>6, <2>8 DEF word
<1> QED BY <1>9, <1>10 DEF word

LEMMA OfferedAlike ==
    ASSUME MirrorSound, NativeSound, InStep
    PROVE  {[prefix |-> nOccurrences[id[1]].prefix, at |-> id[2], kind |-> NRecord(id).kind,
             label |-> NLabel(id)] : id \in NVisible} = Visible
<1> DEFINE Site_(id) == [prefix |-> nOccurrences[id[1]].prefix, at |-> id[2],
                         kind |-> NRecord(id).kind, label |-> NLabel(id)]
<1>1. /\ Sound(occurrences, edges, overlays, satisfied)
      /\ nOccurrences = occurrences /\ nSatisfied = satisfied
      /\ Count = Len(occurrences) /\ Count \in Nat /\ DOMAIN occurrences = 1 .. Count
  BY EdgesAre DEF MirrorSound, InStep, Count, Sound
<1>2. \A i \in 1 .. Count : occurrences[i].piece \in Piece
  BY <1>1, EdgesAre, OccurrencesAre
<1>3. ASSUME NEW i \in 1 .. Count, NEW k \in DOMAIN Records[occurrences[i].piece]
      PROVE  /\ IsId(occurrences, << i, k >>) /\ Current(i)
             /\ Site_(<< i, k >>) = CandidateAt(i, k)
  <2>1. k \in Nat
    BY <1>2, RecordsAre
  <2>2. IsId(occurrences, << i, k >>)
    BY <1>1, <1>3, <2>1 DEF IsId
  <2>3. Current(i)
    <3>1. CandidateAt(i, k).prefix = occurrences[i].prefix /\ CandidateAt(i, k).at = k
      BY DEF CandidateAt
    <3> HIDE DEF Site_
    <3>2. PICK c : c = CandidateAt(i, k)
      OBVIOUS
    <3>3. PICK id : id = << i, k >>
      OBVIOUS
    <3>4. id[1] = i /\ id[2] = k
      BY <3>3
    <3> QED BY <1>1, <2>2, <3>1, <3>2, <3>3, <3>4, TargetIs
  <2>4. NLabel(<< i, k >>) = Resolved(i, RecordAt(<< i, k >>).label)
    <3>1. PICK id : id = << i, k >>
      OBVIOUS
    <3>2. id[1] = i /\ id[2] = k
      BY <3>1
    <3> QED BY <2>2, <3>1, <3>2, LabelsAlike
  <2>5. Site_(<< i, k >>) = [prefix |-> occurrences[i].prefix, at |-> k,
                             kind |-> Records[occurrences[i].piece][k].kind,
                             label |-> Resolved(i, Records[occurrences[i].piece][k].label)]
    BY <1>1, <2>4 DEF NRecord, RecordAt
  <2> QED BY <2>2, <2>3, <2>5 DEF CandidateAt
<1> HIDE DEF Site_
<1>4. \A id \in NVisible : \E i \in 1 .. Count : \E k \in OpenSites(i) :
         id = << i, k >> /\ k \in DOMAIN Records[occurrences[i].piece]
  <2> TAKE id \in NVisible
  <2>1. /\ id \in NIds /\ id \notin satisfied
        /\ Records[occurrences[id[1]].piece][id[2]].kind # "production"
    BY <1>1 DEF NVisible, NRecord
  <2>2. PICK i \in 1 .. Count : id \in {i} \X DOMAIN Records[occurrences[i].piece]
    BY <1>1, <2>1 DEF NIds
  <2>3. PICK k \in DOMAIN Records[occurrences[i].piece] : id = << i, k >>
    BY <2>2
  <2>4. id[1] = i /\ id[2] = k
    BY <2>3
  <2>5. k \in OpenSites(i)
    BY <2>1, <2>3, <2>4 DEF OpenSites
  <2> QED BY <2>3, <2>5
<1>5. \A i \in 1 .. Count : \A k \in OpenSites(i) :
         << i, k >> \in NVisible /\ k \in DOMAIN Records[occurrences[i].piece]
  <2> TAKE i \in 1 .. Count
  <2> TAKE k \in OpenSites(i)
  <2>1. /\ k \in DOMAIN Records[occurrences[i].piece] /\ << i, k >> \notin satisfied
        /\ Records[occurrences[i].piece][k].kind # "production"
    BY DEF OpenSites
  <2>2. << i, k >> \in NIds
    BY <1>1, <2>1 DEF NIds
  <2>3. PICK id : id = << i, k >>
    OBVIOUS
  <2>4. id[1] = i /\ id[2] = k
    BY <2>3
  <2>5. NRecord(id).kind # "production"
    BY <1>1, <2>1, <2>4 DEF NRecord
  <2>6. id \in NVisible
    BY <1>1, <2>1, <2>2, <2>3, <2>5 DEF NVisible
  <2> QED BY <2>1, <2>3, <2>6
<1>6. \A id \in NVisible : Site_(id) \in Visible
  <2> SUFFICES ASSUME NEW id \in NVisible PROVE Site_(id) \in Visible
    OBVIOUS
  <2>1. PICK i \in 1 .. Count : \E k \in OpenSites(i) :
           id = << i, k >> /\ k \in DOMAIN Records[occurrences[i].piece]
    BY <1>4
  <2>3. PICK k \in OpenSites(i) : id = << i, k >> /\ k \in DOMAIN Records[occurrences[i].piece]
    BY <2>1
  <2>2. Current(i) /\ Site_(id) = CandidateAt(i, k)
    BY <1>3, <2>3
  <2> QED BY <2>2 DEF Visible
<1>7. \A c \in Visible : \E id \in NVisible : Site_(id) = c
  <2> SUFFICES ASSUME NEW c \in Visible PROVE \E id \in NVisible : Site_(id) = c
    OBVIOUS
  <2>1. PICK i \in 1 .. Count : \E k \in OpenSites(i) : c = CandidateAt(i, k)
    BY DEF Visible
  <2>2. PICK k \in OpenSites(i) : c = CandidateAt(i, k)
    BY <2>1
  <2> QED BY <1>3, <1>5, <2>2
<1>8. {Site_(id) : id \in NVisible} = Visible
  BY <1>6, <1>7
<1> QED BY <1>8 DEF Site_

LEMMA AlikeHolds == NInv => EnginesOfferAlike
<1> SUFFICES ASSUME NInv, MirrorInForce
             PROVE  {[prefix |-> nOccurrences[id[1]].prefix, at |-> id[2], kind |-> NRecord(id).kind,
                      label |-> NLabel(id)] : id \in NVisible} = Visible
  BY DEF EnginesOfferAlike
<1>1. MirrorSound /\ NativeSound /\ Mode /\ Lockstep /\ InForce /\ stage = "idle"
  BY DEF NInv, Core, Mirror, MirrorInForce, InForce
<1>2. events = <<>>
  BY <1>1 DEF Mode
<1>3. InStep
  BY <1>1, <1>2, NothingPending DEF Lockstep
<1> QED BY <1>1, <1>3, OfferedAlike

LEMMA ForgottenNothing == NInv => NothingForgotten
<1> SUFFICES ASSUME NInv PROVE NothingForgotten
  OBVIOUS
<1>1. /\ Core /\ AskedKept /\ MirrorSound /\ NativeSound /\ BuilderKnows /\ Mode /\ Lockstep
      /\ Sound(nOccurrences, nEdges, nOverlays, nSatisfied)
  BY DEF NInv, Core, AskedKept, Mirror, NativeSound
<1>2. engine # "python" => NativeSites = AskedSites
  <2>1. engine # "python" => PiecesAre(askedPieces, nOccurrences, nEdges)
    BY <1>1 DEF AskedKept, AskedNative
  <2> QED BY <1>1, <2>1, SitesAsked DEF NativeSites, SitesOf
<1>3. ASSUME BuilderIsTold PROVE SitesOfBuilder = AskedSites
  <2>1. Singly /\ events = <<>>
    BY <1>1, <1>3 DEF BuilderIsTold, Mode
  <2>2. engine = "python" \/ InStep
    <3>1. engine # "python" => InForce
      BY <1>1, <2>1 DEF Singly, Mode, InForce
    <3> QED BY <1>1, <2>1, <3>1, NothingPending DEF Lockstep
  <2>3. PiecesAre(askedPieces, occurrences, edges) /\ Sound(occurrences, edges, overlays, satisfied)
    BY <1>1, <2>1, <2>2, AskedPlain DEF Singly
  <2> QED BY <1>1, <2>3, SitesAsked, BuilderSites
<1> QED BY <1>2, <1>3 DEF NothingForgotten

(* The native state holds the insertions the scope accepted, no more and in *)
(* the order they were asked for, whatever mixes of calls, builds, batches  *)
(* and raising batches came before; and so does the builder, what it is     *)
(* still being given included, until the default engine makes a batch or a  *)
(* mirrored one is open (scope.py, _queue_deferred_insert and the replay).  *)
THEOREM NothingIsForgotten == NSpec => []NothingForgotten
<1> QED BY ForgottenNothing, NativeInvariant, PTL

(* Each plan, the mirror's and the native state's, is a tree over all that  *)
(* side holds, so a build that walks it meets each of these pieces once     *)
(* (scope.py, _append_lower_occurrence; occurrence_store.rs).               *)
THEOREM PlanStaysWhole == NSpec => []PlanIsWhole
<1>1. NInv => Sound(occurrences, edges, overlays, satisfied)
              /\ Sound(nOccurrences, nEdges, nOverlays, nSatisfied)
  BY DEF NInv, Core, Mirror, MirrorSound, NativeSound
<1>2. NInv => PlanIsWhole
  BY <1>1, PlanHolds DEF PlanIsWhole
<1> QED BY <1>2, NativeInvariant, PTL

(* No scalar hole and no demand is filled twice, in the mirror or in the    *)
(* native state: an applied record is not offered again, by either engine.  *)
THEOREM HolesAreFilledOnce == NSpec => []FilledOnce
<1>1. NInv => FilledOnce
  BY FilledOnceHolds DEF NInv, Core, Mirror, NativeSound
<1> QED BY <1>1, NativeInvariant, PTL

(* What the lower build gives a demand is what the builder has it bound to, *)
(* or will when its queues are flushed (scope.py, _queue_external_bind).    *)
THEOREM BindingsStayAlike == NSpec => []BindingsAgree
<1>1. NInv => BindingsAgree
  BY AgreeHolds DEF NInv, Core, Mirror
<1> QED BY <1>1, NativeInvariant, PTL

(* A careful client is never refused: neither the builder, nor a queue, nor *)
(* the comparison of overlay numbers in a replay raises.                    *)
THEOREM NothingRaises == NSpec => []NeverRaises
<1>1. NInv => NeverRaises
  BY DEF NInv, Core, Mirror, Stages, NeverRaises
<1> QED BY <1>1, NativeInvariant, PTL

(* Native answer and mirror answer are one, site by site and name by name,  *)
(* after any batch and its replay (find_candidates).                        *)
THEOREM EnginesStayAlike == NSpec => []EnginesOfferAlike
<1> QED BY AlikeHolds, NativeInvariant, PTL

-----------------------------------------------------------------------------
(* What a sound state that holds what was asked for is built into.          *)
LEMMA PathsAre ==
    ASSUME NEW placed, NEW inserted, NEW bindings, NEW filled,
           Sound(placed, inserted, bindings, filled), PiecesAre(askedPieces, placed, inserted)
    PROVE  /\ DOMAIN askedPieces = 1 .. Len(placed) /\ Len(placed) \in Nat
           /\ \A j \in 1 .. Len(placed) :
                 /\ Append(askedPieces[j].prefix, askedPieces[j].name) = placed[j].prefix
                 /\ askedPieces[j].piece = placed[j].piece
                 /\ placed[j] \in Occurrences
           /\ \A j \in DOMAIN inserted :
                 /\ askedPieces[j + 1].prefix = placed[inserted[j].target[1]].prefix
                 /\ askedPieces[j + 1].at = inserted[j].target[2]
                 /\ askedPieces[j + 1].name = Owner(placed[j + 1].prefix)
           /\ placed # <<>> => askedPieces[1].prefix = <<>>
<1>1. /\ askedPieces \in Seq(AskedFor) /\ Len(askedPieces) = Len(placed)
      /\ placed \in Seq(Occurrences) /\ OneRoot(placed, inserted)
  BY DEF PiecesAre, Sound
<1>2. DOMAIN askedPieces = 1 .. Len(placed) /\ Len(placed) \in Nat
  BY <1>1
<1>3. \A j \in 1 .. Len(placed) : placed[j] \in Occurrences
  BY <1>1
<1>4. \A j \in DOMAIN inserted :
         /\ askedPieces[j + 1].prefix = placed[inserted[j].target[1]].prefix
         /\ askedPieces[j + 1].at = inserted[j].target[2]
         /\ askedPieces[j + 1].name = Owner(placed[j + 1].prefix)
         /\ askedPieces[j + 1].piece = placed[j + 1].piece
  <2> SUFFICES ASSUME NEW j \in DOMAIN inserted
               PROVE  /\ askedPieces[j + 1].prefix = placed[inserted[j].target[1]].prefix
                      /\ askedPieces[j + 1].at = inserted[j].target[2]
                      /\ askedPieces[j + 1].name = Owner(placed[j + 1].prefix)
                      /\ askedPieces[j + 1].piece = placed[j + 1].piece
    OBVIOUS
  <2>1. askedPieces[j + 1] = [prefix |-> placed[inserted[j].target[1]].prefix,
                              at |-> inserted[j].target[2],
                              name |-> Owner(placed[j + 1].prefix), piece |-> placed[j + 1].piece]
    BY DEF PiecesAre
  <2> QED BY <2>1
<1>5. placed # <<>> => /\ askedPieces[1].prefix = <<>>
                       /\ askedPieces[1].name = Owner(placed[1].prefix)
                       /\ askedPieces[1].piece = placed[1].piece
  <2> SUFFICES ASSUME placed # <<>>
               PROVE  /\ askedPieces[1].prefix = <<>>
                      /\ askedPieces[1].name = Owner(placed[1].prefix)
                      /\ askedPieces[1].piece = placed[1].piece
    OBVIOUS
  <2>1. askedPieces[1] = [prefix |-> <<>>, at |-> 0, name |-> Owner(placed[1].prefix),
                          piece |-> placed[1].piece]
    BY DEF PiecesAre
  <2> QED BY <2>1
<1>6. ASSUME NEW j \in 1 .. Len(placed)
      PROVE  /\ Append(askedPieces[j].prefix, askedPieces[j].name) = placed[j].prefix
             /\ askedPieces[j].piece = placed[j].piece
  <2>1. CASE j = 1
    <3>1. placed # <<>>
      BY <1>1, <1>6
    <3>2. placed[1].prefix = << Owner(placed[1].prefix) >>
      BY <1>1, <3>1 DEF OneRoot
    <3>3. Append(<<>>, Owner(placed[1].prefix)) = << Owner(placed[1].prefix) >>
      OBVIOUS
    <3> QED BY <1>5, <2>1, <3>1, <3>2, <3>3
  <2>2. CASE j # 1
    <3>1. PICK i : i = j - 1
      OBVIOUS
    <3>2. i \in DOMAIN inserted /\ j = i + 1
      BY <1>6, <2>2, <3>1, EdgesAre
    <3>3. placed[i + 1].prefix = Append(placed[inserted[i].target[1]].prefix, Owner(placed[i + 1].prefix))
      BY <3>2, EdgesAre
    <3> QED BY <1>4, <3>2, <3>3
  <2> QED BY <2>1, <2>2
<1> QED BY <1>2, <1>3, <1>4, <1>5, <1>6

PieceAsked(path, k) ==
    \E l \in DOMAIN askedPieces : askedPieces[l].prefix = path /\ askedPieces[l].at = k
HoleFilled(inserted, id) == \E j \in DOMAIN inserted : inserted[j].target = id

LEMMA HolesSettled ==
    ASSUME NEW placed, NEW inserted, NEW bindings, NEW filled,
           Sound(placed, inserted, bindings, filled), PiecesAre(askedPieces, placed, inserted),
           NEW i \in 1 .. Len(placed), NEW k
    PROVE  PieceAsked(placed[i].prefix, k) <=> HoleFilled(inserted, << i, k >>)
<1>1. /\ DOMAIN askedPieces = 1 .. Len(placed) /\ Len(placed) \in Nat
      /\ \A j \in DOMAIN inserted :
            /\ askedPieces[j + 1].prefix = placed[inserted[j].target[1]].prefix
            /\ askedPieces[j + 1].at = inserted[j].target[2]
      /\ placed # <<>> => askedPieces[1].prefix = <<>>
  BY PathsAre
<1>2. placed[i].prefix \in Seq(Name) \ {<<>>}
  BY EdgesAre, OccurrencesAre
<1>3. \A j \in DOMAIN inserted : /\ j + 1 \in 1 .. Len(placed) /\ inserted[j].target \in Nat \X Nat
                                 /\ inserted[j].target[1] \in 1 .. Len(placed)
  BY EdgesAre DEF IsId
<1>4. ASSUME NEW l \in DOMAIN askedPieces, askedPieces[l].prefix = placed[i].prefix, askedPieces[l].at = k
      PROVE  \E j \in DOMAIN inserted : inserted[j].target = << i, k >>
  <2>1. placed # <<>>
    BY <1>1
  <2>2. l # 1
    BY <1>1, <1>2, <1>4, <2>1
  <2>3. PICK j : j = l - 1
    OBVIOUS
  <2>4. j \in DOMAIN inserted /\ l = j + 1
    BY <1>1, <2>2, <2>3, EdgesAre
  <2>5. placed[inserted[j].target[1]].prefix = placed[i].prefix
    BY <1>1, <1>4, <2>4
  <2>6. inserted[j].target[1] = i
    BY <1>3, <2>4, <2>5 DEF Sound, NamesOnce
  <2>7. inserted[j].target[2] = k
    BY <1>1, <1>4, <2>4
  <2> QED BY <1>3, <2>4, <2>6, <2>7
<1>5. ASSUME NEW j \in DOMAIN inserted, inserted[j].target = << i, k >>
      PROVE  \E l \in DOMAIN askedPieces : askedPieces[l].prefix = placed[i].prefix /\ askedPieces[l].at = k
  BY <1>1, <1>3, <1>5
<1> QED BY <1>4, <1>5 DEF PieceAsked, HoleFilled

LEMMA DemandsSettled ==
    ASSUME NEW placed, NEW inserted, NEW bindings, NEW filled,
           Sound(placed, inserted, bindings, filled),
           NEW kept, NEW told, ValuesAre(askedValues, kept, placed, bindings, told),
           NEW i \in 1 .. Len(placed), NEW record
    PROVE  (\E a \in askedValues : /\ a.prefix = placed[i].prefix
                                   /\ Records[placed[i].piece][a.at] = record)
             <=> (\E j \in DOMAIN bindings : /\ bindings[j].target[1] = i
                                            /\ Records[placed[i].piece][bindings[j].target[2]] = record)
<1> DEFINE A(j) == [prefix |-> placed[bindings[j].target[1]].prefix,
                    at |-> bindings[j].target[2], value |-> told[j]]
<1>1. askedValues = {A(j) : j \in DOMAIN bindings}
  BY DEF ValuesAre
<1>2. \A j \in DOMAIN bindings : /\ A(j).prefix = placed[bindings[j].target[1]].prefix
                                 /\ A(j).at = bindings[j].target[2]
  OBVIOUS
<1> HIDE DEF A
<1>3. \A j \in DOMAIN bindings : bindings[j].target[1] \in 1 .. Len(placed)
  BY DEF Sound, BindingSound, IsId
<1>4. \A j \in DOMAIN bindings :
         placed[bindings[j].target[1]].prefix = placed[i].prefix => bindings[j].target[1] = i
  BY <1>3 DEF Sound, NamesOnce
<1> QED BY <1>1, <1>2, <1>4

LEMMA CompleteIs ==
    ASSUME NEW placed, NEW inserted, NEW bindings, NEW filled,
           Sound(placed, inserted, bindings, filled), PiecesAre(askedPieces, placed, inserted),
           NEW kept, NEW told, ValuesAre(askedValues, kept, placed, bindings, told)
    PROVE  Complete(placed, inserted, bindings) <=> Settled
<1> DEFINE R(i, k) == Records[placed[i].piece][k]
           HoleDone(i, k) == \E j \in DOMAIN inserted : inserted[j].target = << i, k >>
           BindDone(i, k) == \E j \in DOMAIN bindings :
                                /\ bindings[j].target[1] = i
                                /\ Records[placed[i].piece][bindings[j].target[2]] = R(i, k)
           Site_(i, k) == /\ R(i, k).kind \in HoleKinds => HoleDone(i, k)
                          /\ R(i, k).kind \in BindKinds => BindDone(i, k)
           Arms(i, k) == CASE R(i, k).kind = "production" -> TRUE
                           [] R(i, k).kind \in HoleKinds -> HoleDone(i, k)
                           [] R(i, k).kind \in BindKinds -> BindDone(i, k)
<1>1. /\ DOMAIN askedPieces = 1 .. Len(placed) /\ Len(placed) \in Nat
      /\ \A j \in 1 .. Len(placed) :
            /\ Append(askedPieces[j].prefix, askedPieces[j].name) = placed[j].prefix
            /\ askedPieces[j].piece = placed[j].piece
            /\ placed[j] \in Occurrences
  BY PathsAre
<1>2. DOMAIN placed = 1 .. Len(placed) /\ (placed # <<>> <=> askedPieces # <<>>)
  <2>1. placed \in Seq(Occurrences) /\ askedPieces \in Seq(AskedFor) /\ Len(askedPieces) = Len(placed)
    BY DEF Sound, PiecesAre
  <2> QED BY <2>1
<1>3. \A i \in 1 .. Len(placed) : \A k \in DOMAIN Records[placed[i].piece] : R(i, k) \in Record
  BY <1>1, OccurrencesAre, RecordsAre
<1>4. \A i \in 1 .. Len(placed) : \A k :
         (\E l \in DOMAIN askedPieces : askedPieces[l].prefix = placed[i].prefix /\ askedPieces[l].at = k)
            <=> HoleDone(i, k)
  <2> SUFFICES ASSUME NEW i \in 1 .. Len(placed), NEW k
               PROVE  (\E l \in DOMAIN askedPieces : askedPieces[l].prefix = placed[i].prefix
                                                     /\ askedPieces[l].at = k)
                        <=> HoleDone(i, k)
    OBVIOUS
  <2>1. PieceAsked(placed[i].prefix, k) <=> HoleFilled(inserted, << i, k >>)
    BY HolesSettled
  <2> QED BY <2>1 DEF PieceAsked, HoleFilled
<1>5. \A i \in 1 .. Len(placed) : \A k :
         (\E a \in askedValues : /\ a.prefix = placed[i].prefix
                                 /\ Records[placed[i].piece][a.at] = R(i, k))
            <=> BindDone(i, k)
  <2> SUFFICES ASSUME NEW i \in 1 .. Len(placed), NEW k
               PROVE  (\E a \in askedValues : /\ a.prefix = placed[i].prefix
                                              /\ Records[placed[i].piece][a.at] = R(i, k))
                        <=> BindDone(i, k)
    OBVIOUS
  <2>1. PICK record : record = R(i, k)
    OBVIOUS
  <2>2. (\E a \in askedValues : /\ a.prefix = placed[i].prefix
                                 /\ Records[placed[i].piece][a.at] = record)
           <=> (\E j \in DOMAIN bindings :
                   /\ bindings[j].target[1] = i
                   /\ Records[placed[i].piece][bindings[j].target[2]] = record)
    BY DemandsSettled
  <2> HIDE DEF R
  <2> QED BY <2>1, <2>2
<1> HIDE DEF HoleDone, BindDone
<1>6. \A i \in 1 .. Len(placed) : \A k \in DOMAIN Records[placed[i].piece] : Arms(i, k) <=> Site_(i, k)
  <2> SUFFICES ASSUME NEW i \in 1 .. Len(placed), NEW k \in DOMAIN Records[placed[i].piece]
               PROVE  Arms(i, k) <=> Site_(i, k)
    OBVIOUS
  <2>1. R(i, k).kind \in HoleKinds \cup BindKinds \cup {"production"}
    BY <1>3 DEF Record
  <2> HIDE DEF R
  <2>2. CASE R(i, k).kind = "production"
    BY <2>2 DEF HoleKinds, BindKinds
  <2>3. CASE R(i, k).kind \in HoleKinds
    BY <2>3 DEF HoleKinds, BindKinds
  <2>4. CASE R(i, k).kind \in BindKinds
    BY <2>4 DEF HoleKinds, BindKinds
  <2> QED BY <2>1, <2>2, <2>3, <2>4
<1>7. Complete(placed, inserted, bindings) <=>
         /\ placed # <<>>
         /\ \A i \in 1 .. Len(placed) : \A k \in DOMAIN Records[placed[i].piece] : Arms(i, k)
  BY <1>2 DEF Complete, HoleDone, BindDone
<1>8. Settled <=>
         /\ askedPieces # <<>>
         /\ \A i \in 1 .. Len(placed) : \A k \in DOMAIN Records[placed[i].piece] : Site_(i, k)
  <2> DEFINE One(j) ==
         \A k \in DOMAIN Records[askedPieces[j].piece] :
            /\ Records[askedPieces[j].piece][k].kind \in HoleKinds =>
                  \E l \in DOMAIN askedPieces :
                     /\ askedPieces[l].prefix = Append(askedPieces[j].prefix, askedPieces[j].name)
                     /\ askedPieces[l].at = k
            /\ Records[askedPieces[j].piece][k].kind \in BindKinds =>
                  \E a \in askedValues :
                     /\ a.prefix = Append(askedPieces[j].prefix, askedPieces[j].name)
                     /\ Records[askedPieces[j].piece][a.at] = Records[askedPieces[j].piece][k]
  <2>1. Settled <=> /\ askedPieces # <<>>
                    /\ \A j \in DOMAIN askedPieces : One(j)
    BY DEF Settled
  <2>2. ASSUME NEW j \in 1 .. Len(placed)
        PROVE  One(j) <=> \A k \in DOMAIN Records[placed[j].piece] : Site_(j, k)
    <3>1. /\ Append(askedPieces[j].prefix, askedPieces[j].name) = placed[j].prefix
          /\ askedPieces[j].piece = placed[j].piece
      BY <1>1
    <3> QED BY <1>4, <1>5, <3>1
  <2> HIDE DEF One
  <2> QED BY <1>1, <2>1, <2>2
<1> HIDE DEF Arms, Site_
<1> QED BY <1>2, <1>6, <1>7, <1>8

LEMMA ProductIs ==
    ASSUME NEW placed, NEW inserted, NEW bindings, NEW filled,
           Sound(placed, inserted, bindings, filled), PiecesAre(askedPieces, placed, inserted),
           NEW told, ValuesAre(askedValues, literals, placed, bindings, told),
           placed # <<>>, Unvalued(bindings) = {}
    PROVE  Product(placed, inserted, bindings) = Asked
<1>1. /\ DOMAIN askedPieces = 1 .. Len(placed) /\ Len(placed) \in Nat
      /\ \A j \in 1 .. Len(placed) :
            /\ Append(askedPieces[j].prefix, askedPieces[j].name) = placed[j].prefix
            /\ askedPieces[j].piece = placed[j].piece
            /\ placed[j] \in Occurrences
      /\ askedPieces[1].prefix = <<>>
  BY PathsAre
<1>2. 1 \in 1 .. Len(placed)
  BY DEF Sound
<1>3. placed[1] = [prefix |-> << askedPieces[1].name >>, piece |-> askedPieces[1].piece]
  <2>1. Append(<<>>, askedPieces[1].name) = << askedPieces[1].name >>
    OBVIOUS
  <2> QED BY <1>1, <1>2, <2>1 DEF Occurrences
<1>4. [j \in DOMAIN inserted |->
         [prefix |-> placed[inserted[j].target[1]].prefix, at |-> inserted[j].target[2],
          name |-> Owner(placed[inserted[j].source].prefix),
          piece |-> placed[inserted[j].source].piece]] = Tail(askedPieces)
  <2> DEFINE F == [j \in DOMAIN inserted |->
                     [prefix |-> placed[inserted[j].target[1]].prefix, at |-> inserted[j].target[2],
                      name |-> Owner(placed[inserted[j].source].prefix),
                      piece |-> placed[inserted[j].source].piece]]
  <2>1. askedPieces \in Seq(AskedFor) /\ askedPieces # <<>>
    BY <1>1, <1>2 DEF PiecesAre
  <2>4. /\ Tail(askedPieces) \in Seq(AskedFor) /\ Len(Tail(askedPieces)) = Len(askedPieces) - 1
        /\ \A j \in 1 .. Len(Tail(askedPieces)) : Tail(askedPieces)[j] = askedPieces[j + 1]
    BY <2>1, HeadTailProperties
  <2>2. DOMAIN inserted = 1 .. Len(askedPieces) - 1
    BY EdgesAre DEF PiecesAre
  <2>3. \A j \in DOMAIN inserted : askedPieces[j + 1] =
           [prefix |-> placed[inserted[j].target[1]].prefix, at |-> inserted[j].target[2],
            name |-> Owner(placed[inserted[j].source].prefix),
            piece |-> placed[inserted[j].source].piece]
    <3>1. \A j \in DOMAIN inserted : inserted[j].source = j + 1
      BY EdgesAre
    <3> QED BY <3>1 DEF PiecesAre
  <2>5. DOMAIN F = DOMAIN Tail(askedPieces) /\ \A j \in DOMAIN F : F[j] = Tail(askedPieces)[j]
    BY <2>2, <2>3, <2>4
  <2> HIDE DEF F
  <2>6. /\ F = [j \in DOMAIN F |-> F[j]]
        /\ Tail(askedPieces) = [j \in DOMAIN Tail(askedPieces) |-> Tail(askedPieces)[j]]
    <3>1. F = [j \in DOMAIN F |-> F[j]]
      BY DEF F
    <3>2. PICK t \in Seq(AskedFor) : t = Tail(askedPieces)
      BY <2>4
    <3>3. t = [j \in DOMAIN t |-> t[j]]
      OBVIOUS
    <3> QED BY <3>1, <3>2, <3>3
  <2>7. F = Tail(askedPieces)
    BY <2>5, <2>6
  <2> QED BY <2>7 DEF F
<1>5. \A j \in DOMAIN bindings :
         (IF bindings[j].kind = "external" THEN literals[j] ELSE bindings[j].label) = told[j]
  <2>1. \A j \in DOMAIN bindings : bindings[j].kind = "external" => j \in DOMAIN literals
    BY DEF Unvalued
  <2>2. \A j \in DOMAIN bindings : bindings[j].kind \in BindKinds
    BY DEF Sound, BindingSound
  <2> QED BY <2>1, <2>2 DEF ValuesAre, BindKinds
<1>6. {[prefix |-> placed[bindings[j].target[1]].prefix, at |-> bindings[j].target[2],
        value |-> IF bindings[j].kind = "external" THEN literals[j] ELSE bindings[j].label]
          : j \in DOMAIN bindings} = askedValues
  BY <1>5 DEF ValuesAre
<1> QED BY <1>3, <1>4, <1>6 DEF Product, Asked

LEMMA SettledOf ==
    ASSUME NEW placed, NEW inserted, NEW bindings, NEW filled,
           Sound(placed, inserted, bindings, filled), PiecesAre(askedPieces, placed, inserted),
           NEW told, ValuesAre(askedValues, literals, placed, bindings, told)
    PROVE  /\ Settled /\ Unvalued(bindings) = {} =>
                 /\ Complete(placed, inserted, bindings)
                 /\ Product(placed, inserted, bindings) = Asked
           /\ ~Settled => ~Complete(placed, inserted, bindings)
<1>1. Complete(placed, inserted, bindings) <=> Settled
  BY CompleteIs
<1>2. ASSUME Settled, Unvalued(bindings) = {} PROVE Product(placed, inserted, bindings) = Asked
  <2>1. placed # <<>>
    <3>1. askedPieces # <<>>
      BY <1>2 DEF Settled
    <3>2. askedPieces \in Seq(AskedFor) /\ placed \in Seq(Occurrences) /\ Len(askedPieces) = Len(placed)
      BY DEF PiecesAre, Sound
    <3> QED BY <3>1, <3>2
  <2> QED BY <1>2, <2>1, ProductIs
<1> QED BY <1>1, <1>2

LEMMA CarefulHolds == NInv => CarefulBuildsWhatWasAsked
<1> SUFFICES ASSUME NInv, Trusted, stage = "idle"
             PROVE  BuildReturns = IF Settled THEN {Asked} ELSE {}
  BY DEF CarefulBuildsWhatWasAsked, BuildsWhatWasAsked
<1>1. /\ MirrorSound /\ NativeSound /\ Mode /\ Lockstep
      /\ Sound(occurrences, edges, overlays, satisfied)
      /\ Sound(nOccurrences, nEdges, nOverlays, nSatisfied)
  BY DEF NInv, Core, Mirror, MirrorSound, NativeSound
<1>2. events = <<>> /\ Externals = {}
  BY <1>1 DEF Mode, Externals
<1>3. CASE engine = "python"
  <2>1. PICK told : ValuesAre(askedValues, literals, occurrences, overlays, told)
    BY <1>3 DEF NInv, AskedPython
  <2>2. PiecesAre(askedPieces, occurrences, edges)
    BY <1>3 DEF NInv, AskedPython
  <2>3. Unvalued(overlays) = {}
    BY <1>3 DEF NInv, AskedPython, Unvalued
  <2>4. /\ Settled /\ Unvalued(overlays) = {} =>
              /\ Complete(occurrences, edges, overlays)
              /\ Product(occurrences, edges, overlays) = Asked
        /\ ~Settled => ~Complete(occurrences, edges, overlays)
    BY <1>1, <2>1, <2>2, SettledOf
  <2>5. BuildReturns = FromMirror
    BY <1>3 DEF BuildReturns, FromNative
  <2>6. CASE Settled
    BY <2>3, <2>4, <2>5, <2>6 DEF FromMirror
  <2>7. CASE ~Settled
    BY <2>4, <2>5, <2>7 DEF FromMirror
  <2> QED BY <2>6, <2>7
<1>4. CASE engine # "python"
  <2>1. PICK told : ValuesAre(askedValues, literals, nOccurrences, nOverlays, told)
    BY <1>4 DEF NInv, AskedNative
  <2>2. PiecesAre(askedPieces, nOccurrences, nEdges)
    BY <1>4 DEF NInv, AskedNative
  <2>3. Unvalued(nOverlays) = {}
    <3>1. CASE failed
      BY <3>1 DEF Trusted
    <3>2. CASE ~failed
      <4>1. \A j \in DOMAIN nOverlays : nOverlays[j].kind = "external" => j \in DOMAIN literals
        BY <1>2, <1>4, <3>2 DEF NInv, AskedNative
      <4> QED BY <4>1 DEF Unvalued
    <3> QED BY <3>1, <3>2
  <2>4. /\ Settled /\ Unvalued(nOverlays) = {} =>
              /\ Complete(nOccurrences, nEdges, nOverlays)
              /\ Product(nOccurrences, nEdges, nOverlays) = Asked
        /\ ~Settled => ~Complete(nOccurrences, nEdges, nOverlays)
    BY <1>1, <2>1, <2>2, SettledOf
  <2>5. CASE Settled
    <3>1. FromNative = {Asked}
      BY <1>4, <2>3, <2>4, <2>5 DEF FromNative
    <3> QED BY <2>5, <3>1 DEF BuildReturns
  <2>6. CASE ~Settled
    <3>1. FromNative = {}
      BY <2>4, <2>6 DEF FromNative
    <3>2. InForce
      BY <1>1, <1>4, <2>6 DEF Trusted, Mode, InForce
    <3>3. InStep
      BY <1>1, <1>2, <3>2, NothingPending DEF Lockstep
    <3>4. ~Complete(occurrences, edges, overlays)
      <4>1. /\ nOccurrences = occurrences /\ nEdges = edges
            /\ Len(nOverlays) = Len(overlays) /\ nOverlays \in Seq(NOverlays) /\ overlays \in Seq(Overlays)
        BY <1>1, <3>3 DEF InStep, OverlaysAlike, MirrorSound, NativeSound
      <4>2. DOMAIN nOverlays = DOMAIN overlays
        BY <4>1
      <4>3. \A j \in DOMAIN overlays : nOverlays[j].target = overlays[j].target
        <5> SUFFICES ASSUME NEW j \in DOMAIN overlays PROVE nOverlays[j].target = overlays[j].target
          OBVIOUS
        <5>1. nOverlays[j] = [kind |-> overlays[j].kind, target |-> overlays[j].target,
                              label |-> overlays[j].label]
          BY <3>3 DEF InStep, OverlaysAlike
        <5> QED BY <5>1
      <4>4. Complete(occurrences, edges, overlays) <=> Complete(occurrences, edges, nOverlays)
        <5>1. \A i, k : (\E j \in DOMAIN overlays :
                            /\ overlays[j].target[1] = i
                            /\ Records[occurrences[i].piece][overlays[j].target[2]]
                                 = Records[occurrences[i].piece][k])
                     <=> (\E j \in DOMAIN nOverlays :
                            /\ nOverlays[j].target[1] = i
                            /\ Records[occurrences[i].piece][nOverlays[j].target[2]]
                                 = Records[occurrences[i].piece][k])
          BY <4>2, <4>3
        <5> QED BY <5>1 DEF Complete
      <4> QED BY <2>4, <2>6, <4>1, <4>4
    <3>5. FromMirror = {}
      BY <3>4 DEF FromMirror
    <3> QED BY <2>6, <3>1, <3>5 DEF BuildReturns
  <2> QED BY <2>5, <2>6
<1> QED BY <1>3, <1>4

(* build() returns exactly what was asked for, every piece in its hole and  *)
(* every value at its demand, and nothing while something is open, on every *)
(* engine (scope.py, _lower_materialize_if_supported), for as long as the   *)
(* default one is not built in the middle of its batches.                   *)
THEOREM BuildsAsAsked == NSpec => []CarefulBuildsWhatWasAsked
<1> QED BY CarefulHolds, NativeInvariant, PTL
=============================================================================
