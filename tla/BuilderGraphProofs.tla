------------------------- MODULE BuilderGraphProofs -------------------------
(***************************************************************************)
(* The builder graph's invariants hold for every set of names, bodies and  *)
(* identifiers.  The inductive invariant is the conjunction of the         *)
(* module's own invariants, where the well-typed tables carry the          *)
(* one-wiring argument and registration the edge argument, with one more   *)
(* about the leaves: what a leaf has added is still there, as its own,     *)
(* until somebody takes an assign back for a second time.                  *)
(***************************************************************************)
EXTENDS BuilderGraph, SequenceTheorems, TLAPS

(* Each leaf that added its assign, and has not taken it back, still owns   *)
(* it: another leaf of the same declaration can only have come before.      *)
Owned ==
    ~again => \A leaf \in DOMAIN committed :
        committed[leaf].added /\ leaf \notin touched =>
            \E i \in DOMAIN assigns :
                assigns[i] = committed[leaf].binding /\ makers[i] = leaf

IInv ==
    /\ TypeOK
    /\ EdgesRegistered
    /\ EdgesAcyclic
    /\ FamilyExclusive
    /\ OneWiringPerDemand
    /\ Owned

-----------------------------------------------------------------------------
(* Appending to a list adds exactly one element to its set of elements.     *)
LEMMA ElementsAppend ==
    ASSUME NEW S, NEW s \in Seq(S), NEW e \in S
    PROVE  ToSet(Append(s, e)) = ToSet(s) \cup {e}
<1>1. ToSet(Append(s, e)) \subseteq ToSet(s) \cup {e}
  BY DEF ToSet
<1>2. ToSet(s) \subseteq ToSet(Append(s, e))
  <2> SUFFICES ASSUME NEW i \in DOMAIN s
               PROVE  s[i] \in ToSet(Append(s, e))
    BY DEF ToSet
  <2>1. i \in DOMAIN Append(s, e) /\ Append(s, e)[i] = s[i]
    OBVIOUS
  <2> QED BY <2>1 DEF ToSet
<1>3. e \in ToSet(Append(s, e))
  <2>1. Len(s) + 1 \in DOMAIN Append(s, e) /\ Append(s, e)[Len(s) + 1] = e
    OBVIOUS
  <2> QED BY <2>1 DEF ToSet
<1> QED BY <1>1, <1>2, <1>3

(* An edge t <- s added to an acyclic graph in which s does not reach t     *)
(* leaves it acyclic.  If a set T held a cycle through the new edge, the    *)
(* part of T inside the closed set R that s cannot leave would already      *)
(* have been one of the old graph, because t lies outside R.                *)
LEMMA AcyclicExtends ==
    ASSUME NEW E, NEW t \in Name, NEW s \in Name, NEW e,
           e.target = t, e.source = s,
           Acyclic(E), ~DependencyPath(E, s, t)
    PROVE  Acyclic(E \cup {e})
<1> SUFFICES ASSUME NEW T \in (SUBSET Name) \ {{}}
             PROVE  \E n \in T : \A f \in E \cup {e} :
                        f.target = n => f.source \notin T
  BY DEF Acyclic
<1>1. PICK R \in SUBSET Name : s \in R /\ Closed(E, R) /\ t \notin R
  BY DEF DependencyPath
<1>2. CASE s \in T
  <2>1. T \cap R \in (SUBSET Name) \ {{}}
    BY <1>1, <1>2
  <2>2. PICK n \in T \cap R : \A f \in E : f.target = n => f.source \notin T \cap R
    BY <2>1 DEF Acyclic
  <2>3. \A f \in E : f.target = n => f.source \notin T
    BY <1>1, <2>2 DEF Closed
  <2>4. n # t
    BY <1>1, <2>2
  <2> QED BY <2>2, <2>3, <2>4
<1>3. CASE s \notin T
  <2>1. PICK n \in T : \A f \in E : f.target = n => f.source \notin T
    BY DEF Acyclic
  <2> QED BY <1>3, <2>1
<1> QED BY <1>2, <1>3

(* A table in which no demand repeats holds each binding at one position,   *)
(* so the last position of a recorded binding is well defined.              *)
LEMMA LastIndexIsThePosition ==
    ASSUME NEW s \in Seq(Binding), NEW b \in ToSet(s),
           \A i, j \in DOMAIN s : s[i].demand = s[j].demand => i = j
    PROVE  LastIndexOf(s, b) \in DOMAIN s /\ s[LastIndexOf(s, b)] = b
<1>1. PICK i \in DOMAIN s : s[i] = b
  BY DEF ToSet
<1>2. \A j \in DOMAIN s : s[j] = b => j = i
  BY <1>1
<1>3. s[i] = b /\ \A j \in DOMAIN s : s[j] = b => j <= i
  BY <1>1, <1>2
<1> QED BY <1>3 DEF LastIndexOf

(* Removing a position shifts the later ones down by one.                   *)
LEMMA RemoveAtShifts ==
    ASSUME NEW S, NEW s \in Seq(S), NEW i \in DOMAIN s
    PROVE  /\ RemoveAt(s, i) \in Seq(S)
           /\ DOMAIN RemoveAt(s, i) = 1 .. Len(s) - 1
           /\ \A j \in 1 .. Len(s) - 1 :
                 RemoveAt(s, i)[j] = IF j < i THEN s[j] ELSE s[j + 1]
<1> DEFINE front == SubSeq(s, 1, i - 1)
            back  == SubSeq(s, i + 1, Len(s))
<1>1. Len(s) \in Nat /\ i \in 1 .. Len(s) /\ \A j \in 1 .. Len(s) : s[j] \in S
  OBVIOUS
<1>2. /\ front \in Seq(S) /\ Len(front) = i - 1
      /\ \A j \in 1 .. i - 1 : front[j] = s[j]
  <2>1. i - 1 \in Int /\ \A j \in 1 .. i - 1 : s[j] \in S
    BY <1>1
  <2> QED BY <1>1, <2>1, SubSeqProperties, Z3
<1>3. /\ back \in Seq(S) /\ Len(back) = Len(s) - i
      /\ \A j \in 1 .. Len(s) - i : back[j] = s[i + j]
  <2>1. i + 1 \in Int /\ \A j \in i + 1 .. Len(s) : s[j] \in S
    BY <1>1
  <2> QED BY <1>1, <2>1, SubSeqProperties, Z3
<1> HIDE DEF front, back
<1>4. /\ front \o back \in Seq(S)
      /\ Len(front \o back) = Len(front) + Len(back)
      /\ \A j \in 1 .. Len(front) + Len(back) :
            (front \o back)[j] =
               IF j <= Len(front) THEN front[j] ELSE back[j - Len(front)]
  BY <1>2, <1>3, ConcatProperties
<1>5. Len(front) + Len(back) = Len(s) - 1
  BY <1>1, <1>2, <1>3
<1>6. \A j \in 1 .. Len(s) - 1 :
         (front \o back)[j] = IF j < i THEN s[j] ELSE s[j + 1]
  <2> TAKE j \in 1 .. Len(s) - 1
  <2>1. CASE j < i
    BY <1>1, <1>2, <1>4, <1>5, <2>1
  <2>2. CASE ~(j < i)
    <3>1. j - (i - 1) \in 1 .. Len(s) - i /\ i + (j - (i - 1)) = j + 1
      BY <1>1, <2>2
    <3>2. (front \o back)[j] = back[j - (i - 1)]
      BY <1>1, <1>2, <1>4, <1>5, <2>2
    <3>3. back[j - (i - 1)] = s[i + (j - (i - 1))]
      BY <1>3, <3>1
    <3>4. s[i + (j - (i - 1))] = s[j + 1]
      BY <3>1, Zenon
    <3>5. (front \o back)[j] = s[j + 1]
      BY <3>2, <3>3, <3>4, Zenon
    <3> QED BY <2>2, <3>5
  <2> QED BY <2>1, <2>2
<1>7. RemoveAt(s, i) = front \o back
  BY DEF RemoveAt, front, back
<1> HIDE DEF front, back
<1>8. DOMAIN (front \o back) = 1 .. Len(s) - 1
  BY <1>4, <1>5
<1> QED BY <1>4, <1>6, <1>7, <1>8

-----------------------------------------------------------------------------
LEMMA InitInvariant == Init => IInv
<1> SUFFICES ASSUME Init PROVE IInv
  OBVIOUS
<1>1. ToSet(edges) = {} /\ Registered = {}
  BY DEF Init, ToSet, Registered
<1>2. TypeOK
  <2>1. instances \in [Registered -> InstanceRecord] /\ Registered \subseteq Name
    BY <1>1 DEF Init, Registered
  <2>2. edges \in Seq(AdditiveEdge) /\ assigns \in Seq(Binding)
    BY DEF Init
  <2>3. identifierBindings \in Seq(Binding) /\ committed \in Seq(CommittedLeaf)
    BY DEF Init
  <2>4. makers \in Seq(Nat)
    BY DEF Init
  <2>5. Len(makers) = Len(assigns) /\ again \in BOOLEAN
    BY Zenon DEF Init
  <2> QED BY <2>1, <2>2, <2>3, <2>4, <2>5 DEF TypeOK
<1>3. EdgesRegistered /\ FamilyExclusive /\ OneWiringPerDemand
  BY <1>1 DEF Init, EdgesRegistered, FamilyExclusive, OneWiringPerDemand
<1>4. EdgesAcyclic
  BY <1>1 DEF EdgesAcyclic, Acyclic
<1>5. Owned
  BY DEF Init, Owned
<1> QED BY <1>2, <1>3, <1>4, <1>5 DEF IInv

LEMMA StepInvariant == IInv /\ [Next]_vars => IInv'
<1> SUFFICES ASSUME IInv, [Next]_vars PROVE IInv'
  OBVIOUS
<1> USE DEF IInv
<1>1. ASSUME NEW n \in Name, NEW b \in Body, NEW p \in Placement, AddInstance(n, b, p)
      PROVE  IInv'
  <2> USE <1>1 DEF AddInstance
  <2>1. Registered' = Registered \cup {n}
    BY DEF Registered
  <2>2. TypeOK'
    BY <2>1 DEF TypeOK, InstanceRecord, Registered, leaves
  <2>3. EdgesRegistered'
    BY <2>1 DEF EdgesRegistered
  <2>4. FamilyExclusive'
    BY <2>1 DEF FamilyExclusive, MixesFamily
  <2>5. EdgesAcyclic' /\ OneWiringPerDemand' /\ Owned'
    BY DEF EdgesAcyclic, OneWiringPerDemand, Owned, leaves
  <2> QED BY <2>2, <2>3, <2>4, <2>5
<1>2. ASSUME NEW n \in Name, NEW b \in Body, ReplaceInstance(n, b)
      PROVE  IInv'
  <2> USE <1>2 DEF ReplaceInstance
  <2>1. Registered' = Registered
    BY DEF Registered
  <2>2. TypeOK'
    BY <2>1 DEF TypeOK, InstanceRecord, Registered, leaves
  <2>3. EdgesRegistered' /\ FamilyExclusive'
    BY <2>1 DEF EdgesRegistered, FamilyExclusive
  <2>4. EdgesAcyclic' /\ OneWiringPerDemand' /\ Owned'
    BY DEF EdgesAcyclic, OneWiringPerDemand, Owned, leaves
  <2> QED BY <2>2, <2>3, <2>4
<1>3. ASSUME NEW t \in Name, NEW s \in Name, NEW h \in Hole, NEW o \in Order,
             AddAdditiveEdge(t, h, s, o)
      PROVE  IInv'
  <2> USE <1>3 DEF AddAdditiveEdge
  <2> DEFINE e == [target |-> t, hole |-> h, source |-> s, order |-> o]
  <2>1. e \in AdditiveEdge /\ edges \in Seq(AdditiveEdge) /\ edges' = Append(edges, e)
    BY DEF AdditiveEdge, TypeOK
  <2>2. TypeOK'
    BY <2>1 DEF TypeOK, Registered, leaves
  <2>3. EdgesRegistered'
    BY <2>1 DEF EdgesRegistered, Registered
  <2>4. ToSet(edges)' = ToSet(edges) \cup {e}
    BY <2>1, ElementsAppend
  <2>5. EdgesAcyclic'
    BY <2>4, AcyclicExtends DEF EdgesAcyclic
  <2>6. FamilyExclusive' /\ OneWiringPerDemand' /\ Owned'
    BY DEF FamilyExclusive, OneWiringPerDemand, Owned, Registered, leaves
  <2> QED BY <2>2, <2>3, <2>5, <2>6
<1>4. ASSUME NEW b \in Binding, NEW m \in Nat, CanAssign(b), RecordAssign(b, m),
             UNCHANGED <<instances, edges, identifierBindings>>
      PROVE  /\ assigns' \in Seq(Binding)
             /\ makers' \in Seq(Nat) /\ Len(makers') = Len(assigns')
             /\ EdgesRegistered' /\ EdgesAcyclic' /\ FamilyExclusive'
             /\ OneWiringPerDemand'
             /\ \A i \in DOMAIN assigns : /\ i \in DOMAIN assigns'
                                          /\ assigns'[i] = assigns[i]
                                          /\ makers'[i] = makers[i]
             /\ b \notin ToSet(assigns) =>
                   \E i \in DOMAIN assigns' : assigns'[i] = b /\ makers'[i] = m
  <2>1. EdgesRegistered' /\ EdgesAcyclic' /\ FamilyExclusive'
    BY <1>4 DEF EdgesRegistered, EdgesAcyclic, FamilyExclusive, Registered
  <2>2. CASE b \in ToSet(assigns)
    BY <1>4, <2>1, <2>2 DEF RecordAssign, TypeOK, OneWiringPerDemand
  <2>3. CASE b \notin ToSet(assigns)
    <3>1. /\ assigns \in Seq(Binding) /\ assigns' = Append(assigns, b)
          /\ makers \in Seq(Nat) /\ makers' = Append(makers, m)
          /\ Len(makers) = Len(assigns)
      BY <1>4, <2>3 DEF RecordAssign, TypeOK
    <3>2. /\ \A i \in DOMAIN assigns : assigns[i].demand # b.demand
          /\ \A i \in DOMAIN identifierBindings :
                identifierBindings[i].demand # b.demand
      BY <1>4, <2>3 DEF CanAssign, Wires, ToSet
    <3>3. OneWiringPerDemand'
      BY <1>4, <3>1, <3>2 DEF OneWiringPerDemand
    <3>4. /\ assigns' \in Seq(Binding)
          /\ makers' \in Seq(Nat) /\ Len(makers') = Len(assigns')
      BY <3>1
    <3>5. \A i \in DOMAIN assigns : /\ i \in DOMAIN assigns'
                                    /\ assigns'[i] = assigns[i]
                                    /\ makers'[i] = makers[i]
      BY <3>1
    <3>6. Len(assigns') \in DOMAIN assigns' /\ assigns'[Len(assigns')] = b
          /\ makers'[Len(assigns')] = m
      BY <3>1
    <3> QED BY <2>1, <3>3, <3>4, <3>5, <3>6
  <2> QED BY <2>2, <2>3
<1>5. ASSUME NEW b \in Binding, AddAssign(b) PROVE IInv'
  <2>0. CanAssign(b) /\ RecordAssign(b, 0)
        /\ UNCHANGED <<instances, edges, identifierBindings, committed, touched, again>>
    BY <1>5 DEF AddAssign
  <2>1. TypeOK'
    BY <1>4, <2>0 DEF TypeOK, Registered
  <2>2. Owned'
    BY <1>4, <2>0 DEF Owned
  <2> QED BY <1>4, <2>0, <2>1, <2>2
<1>6. ASSUME NEW b \in Binding, CommitAssign(b) PROVE IInv'
  <2> DEFINE fresh == b \notin ToSet(assigns)
             leaf  == [binding |-> b, added |-> fresh]
             new   == Len(committed) + 1
  <2>1. fresh \in BOOLEAN /\ committed \in Seq(CommittedLeaf) /\ new \in Nat
    BY DEF TypeOK
  <2>2. leaf \in CommittedLeaf
    <3> HIDE DEF fresh
    <3> QED BY <2>1 DEF CommittedLeaf
  <2>3. /\ CanAssign(b) /\ RecordAssign(b, new)
        /\ committed' = Append(committed, leaf)
        /\ UNCHANGED <<instances, edges, identifierBindings, touched, again>>
    BY <1>6 DEF CommitAssign
  <2>4. leaf.binding = b /\ leaf.added = fresh
    OBVIOUS
  <2> HIDE DEF leaf
  <2>5. /\ committed' \in Seq(CommittedLeaf)
        /\ DOMAIN committed' = DOMAIN committed \cup {new}
        /\ \A l \in DOMAIN committed : committed'[l] = committed[l]
        /\ committed'[new] = leaf
    BY <2>1, <2>2, <2>3
  <2> HIDE DEF fresh, new
  <2>6. TypeOK'
    BY <1>4, <2>1, <2>3, <2>5 DEF TypeOK, Registered
  <2>7. Owned'
    <3> SUFFICES ASSUME ~again, NEW l \in DOMAIN committed',
                        committed'[l].added, l \notin touched
                 PROVE  \E i \in DOMAIN assigns' :
                            assigns'[i] = committed'[l].binding /\ makers'[i] = l
      BY <2>3 DEF Owned
    <3>1. CASE l \in DOMAIN committed
      <4>1. PICK i \in DOMAIN assigns : assigns[i] = committed[l].binding /\ makers[i] = l
        BY <2>5, <3>1 DEF Owned
      <4>2. i \in DOMAIN assigns' /\ assigns'[i] = assigns[i] /\ makers'[i] = makers[i]
        BY <1>4, <2>1, <2>3
      <4> QED BY <2>5, <3>1, <4>1, <4>2
    <3>2. CASE l = new
      <4>1. b \notin ToSet(assigns)
        BY <2>4, <2>5, <3>2 DEF fresh
      <4>2. \E i \in DOMAIN assigns' : assigns'[i] = b /\ makers'[i] = new
        BY <1>4, <2>1, <2>3, <4>1
      <4> QED BY <2>4, <2>5, <3>2, <4>2
    <3> QED BY <2>5, <3>1, <3>2
  <2> QED BY <1>4, <2>1, <2>3, <2>6, <2>7
<1>7. ASSUME NEW leaf \in DOMAIN committed, ContinueChain(leaf) PROVE IInv'
  <2> DEFINE k == LastIndexOf(assigns, committed[leaf].binding)
             from(j) == IF j < k THEN j ELSE j + 1
  <2>1. /\ assigns \in Seq(Binding) /\ k \in DOMAIN assigns
        /\ assigns[k] = committed[leaf].binding
        /\ makers \in Seq(Nat) /\ Len(makers) = Len(assigns)
    BY <1>7, LastIndexIsThePosition DEF ContinueChain, TypeOK, OneWiringPerDemand
  <2>2. /\ assigns' = RemoveAt(assigns, k) /\ makers' = RemoveAt(makers, k)
        /\ touched' = touched \cup {leaf} /\ again' = (again \/ leaf \in touched)
        /\ UNCHANGED <<instances, edges, identifierBindings, committed>>
        /\ committed[leaf].added
    BY <1>7 DEF ContinueChain, TakeBack
  <2> HIDE DEF k
  <2>3. /\ assigns' \in Seq(Binding)
        /\ DOMAIN assigns' = 1 .. Len(assigns) - 1
        /\ \A j \in 1 .. Len(assigns) - 1 :
              assigns'[j] = IF j < k THEN assigns[j] ELSE assigns[j + 1]
    BY <2>1, <2>2, RemoveAtShifts
  <2>4. /\ makers' \in Seq(Nat)
        /\ DOMAIN makers' = 1 .. Len(assigns) - 1
        /\ \A j \in 1 .. Len(assigns) - 1 :
              makers'[j] = IF j < k THEN makers[j] ELSE makers[j + 1]
    <3>1. k \in DOMAIN makers
      BY <2>1
    <3> QED BY <2>1, <2>2, <3>1, RemoveAtShifts
  <2>5. TypeOK'
    <3>1. Len(makers') = Len(assigns')
      BY <2>3, <2>4
    <3> QED BY <2>2, <2>3, <2>4, <3>1 DEF TypeOK, Registered
  <2>6. \A j \in DOMAIN assigns' :
           from(j) \in DOMAIN assigns /\ assigns'[j] = assigns[from(j)]
    BY <2>1, <2>3
  <2>7. OneWiringPerDemand'
    <3>1. \A i, j \in DOMAIN assigns' : from(i) = from(j) => i = j
      BY <2>1, <2>3
    <3>2. \A i, j \in DOMAIN assigns' :
             assigns'[i].demand = assigns'[j].demand => from(i) = from(j)
      BY <2>6 DEF OneWiringPerDemand
    <3>3. UNCHANGED identifierBindings
      BY <2>2
    <3> HIDE DEF from
    <3> QED BY <2>6, <3>1, <3>2, <3>3 DEF OneWiringPerDemand
  <2>8. EdgesRegistered' /\ EdgesAcyclic' /\ FamilyExclusive'
    BY <2>2 DEF EdgesRegistered, EdgesAcyclic, FamilyExclusive, Registered
  <2>9. Owned'
    <3> SUFFICES ASSUME ~again', NEW l \in DOMAIN committed,
                        committed[l].added, l \notin touched'
                 PROVE  \E j \in DOMAIN assigns' :
                            assigns'[j] = committed[l].binding /\ makers'[j] = l
      BY <2>2 DEF Owned
    <3>1. PICK i \in DOMAIN assigns : assigns[i] = committed[l].binding /\ makers[i] = l
      BY <2>2 DEF Owned
    <3>2. PICK o \in DOMAIN assigns :
             assigns[o] = committed[leaf].binding /\ makers[o] = leaf
      BY <2>2 DEF Owned
    <3>3. i # k
      <4>1. o = k
        BY <2>1, <3>2 DEF OneWiringPerDemand
      <4> QED BY <2>2, <3>1, <3>2, <4>1
    <3>4. CASE i < k
      <4>1. i \in DOMAIN assigns' /\ assigns'[i] = assigns[i] /\ makers'[i] = makers[i]
        BY <2>1, <2>3, <2>4, <3>4
      <4> QED BY <3>1, <4>1
    <3>5. CASE i > k
      <4>1. /\ i - 1 \in DOMAIN assigns'
            /\ assigns'[i - 1] = assigns[i] /\ makers'[i - 1] = makers[i]
        <5>1. i - 1 \in 1 .. Len(assigns) - 1 /\ ~(i - 1 < k) /\ (i - 1) + 1 = i
          BY <2>1, <3>5
        <5>2. assigns'[i - 1] = assigns[(i - 1) + 1] /\ makers'[i - 1] = makers[(i - 1) + 1]
          BY <2>3, <2>4, <5>1
        <5> QED BY <2>3, <5>1, <5>2
      <4> QED BY <3>1, <4>1
    <3> QED BY <2>1, <3>3, <3>4, <3>5
  <2> QED BY <2>5, <2>7, <2>8, <2>9
<1>8. ASSUME NEW b \in Binding, AddIdentifierBinding(b) PROVE IInv'
  <2> USE <1>8 DEF AddIdentifierBinding
  <2>1. /\ identifierBindings \in Seq(Binding)
        /\ identifierBindings' = Append(identifierBindings, b)
    BY DEF TypeOK
  <2>2. TypeOK'
    BY <2>1 DEF TypeOK, Registered, leaves
  <2>3. /\ \A i \in DOMAIN assigns : assigns[i].demand # b.demand
        /\ \A i \in DOMAIN identifierBindings :
              identifierBindings[i].demand # b.demand
    BY DEF Wires, ToSet
  <2>4. OneWiringPerDemand'
    BY <2>1, <2>3 DEF OneWiringPerDemand
  <2>5. EdgesRegistered' /\ EdgesAcyclic' /\ FamilyExclusive' /\ Owned'
    BY DEF EdgesRegistered, EdgesAcyclic, FamilyExclusive, Owned, Registered, leaves
  <2> QED BY <2>2, <2>4, <2>5
<1>9. CASE UNCHANGED vars
  BY <1>9 DEF vars, graph, leaves, TypeOK, EdgesRegistered, EdgesAcyclic,
              FamilyExclusive, OneWiringPerDemand, Owned, Registered
<1> QED BY <1>1, <1>2, <1>3, <1>5, <1>6, <1>7, <1>8, <1>9 DEF Next

(* Every reachable graph satisfies the whole inductive invariant.           *)
LEMMA Invariance == Spec => []IInv
BY InitInvariant, StepInvariant, PTL DEF Spec

(* The graph's tables hold what the dataclasses declare.                    *)
THEOREM TypeCorrect == Spec => []TypeOK
<1>1. IInv => TypeOK
  BY DEF IInv
<1> QED BY <1>1, Invariance, PTL

(* An accepted edge joins registered instances for good: build_merge's      *)
(* lookups by edge end cannot miss.                                         *)
THEOREM EdgesStayRegistered == Spec => []EdgesRegistered
<1>1. IInv => EdgesRegistered
  BY DEF IInv
<1> QED BY <1>1, Invariance, PTL

(* The per-edge check of add_additive_edge keeps the graph free of cycles.  *)
THEOREM EdgesStayAcyclic == Spec => []EdgesAcyclic
<1>1. IInv => EdgesAcyclic
  BY DEF IInv
<1> QED BY <1>1, Invariance, PTL

(* A stem names a base instance or a family, never both.                    *)
THEOREM FamiliesStayExclusive == Spec => []FamilyExclusive
<1>1. IInv => FamilyExclusive
  BY DEF IInv
<1> QED BY <1>1, Invariance, PTL

(* A demand is wired at most once over builder.assign and                   *)
(* builder.bind_identifier, roll-backs included.                            *)
THEOREM DemandsWiredOnce == Spec => []OneWiringPerDemand
<1>1. IInv => OneWiringPerDemand
  BY DEF IInv
<1> QED BY <1>1, Invariance, PTL

(* Until some leaf is touched for the second time, an assign disappears     *)
(* only through the leaf of the very call that made it.  What the leaf      *)
(* finds is an equal binding; that it is the leaf's own rests on Owned.     *)
THEOREM UndoneOnlyByOwnLeaf == Spec => UndoneByOwnLeaf
<1> DEFINE Undo == ~again' => \A i \in DOMAIN assigns :
                      assigns[i] \notin ToSet(assigns') => makers[i] \in touched' \ touched
<1>1. ASSUME IInv, NEW leaf \in DOMAIN committed, ContinueChain(leaf) PROVE Undo
  <2> SUFFICES ASSUME ~again', NEW i \in DOMAIN assigns, assigns[i] \notin ToSet(assigns')
               PROVE  makers[i] \in touched' \ touched
    OBVIOUS
  <2> DEFINE k == LastIndexOf(assigns, committed[leaf].binding)
  <2>1. /\ assigns \in Seq(Binding) /\ k \in DOMAIN assigns
        /\ assigns[k] = committed[leaf].binding
    BY <1>1, LastIndexIsThePosition DEF IInv, TypeOK, OneWiringPerDemand, ContinueChain
  <2>2. /\ DOMAIN assigns' = 1 .. Len(assigns) - 1
        /\ \A j \in 1 .. Len(assigns) - 1 :
              assigns'[j] = IF j < k THEN assigns[j] ELSE assigns[j + 1]
    BY <1>1, <2>1, RemoveAtShifts DEF ContinueChain, TakeBack
  <2> HIDE DEF k
  <2>3. i = k
    <3>1. i \in 1 .. Len(assigns) /\ k \in 1 .. Len(assigns) /\ Len(assigns) \in Nat
      BY <2>1
    <3>2. CASE i < k
      <4>1. i \in 1 .. Len(assigns) - 1
        BY <3>1, <3>2
      <4>2. i \in DOMAIN assigns' /\ assigns'[i] = assigns[i]
        BY <2>2, <3>2, <4>1
      <4> QED BY <4>2 DEF ToSet
    <3>3. CASE i > k
      <4>1. i - 1 \in 1 .. Len(assigns) - 1 /\ ~(i - 1 < k) /\ i - 1 + 1 = i
        BY <3>1, <3>3
      <4>2. i - 1 \in DOMAIN assigns' /\ assigns'[i - 1] = assigns[i]
        BY <2>2, <4>1
      <4> QED BY <4>2 DEF ToSet
    <3> QED BY <3>1, <3>2, <3>3
  <2>4. /\ ~again /\ leaf \notin touched /\ leaf \in touched' /\ committed[leaf].added
    BY <1>1 DEF ContinueChain, TakeBack
  <2>5. PICK o \in DOMAIN assigns : assigns[o] = committed[leaf].binding /\ makers[o] = leaf
    BY <1>1, <2>4 DEF IInv, Owned
  <2>6. o = k
    BY <1>1, <2>1, <2>5 DEF IInv, OneWiringPerDemand
  <2> QED BY <2>3, <2>4, <2>5, <2>6
<1>2. ASSUME IInv, NEW b \in Binding, NEW m \in Nat, RecordAssign(b, m) PROVE Undo
  <2> SUFFICES ASSUME NEW i \in DOMAIN assigns PROVE assigns[i] \in ToSet(assigns')
    OBVIOUS
  <2>1. CASE b \in ToSet(assigns)
    BY <1>2, <2>1 DEF RecordAssign, ToSet
  <2>2. CASE b \notin ToSet(assigns)
    <3>1. assigns \in Seq(Binding) /\ assigns' = Append(assigns, b)
      BY <1>2, <2>2 DEF RecordAssign, IInv, TypeOK
    <3>2. ToSet(assigns') = ToSet(assigns) \cup {b}
      BY <3>1, ElementsAppend
    <3> QED BY <3>2 DEF ToSet
  <2> QED BY <2>1, <2>2
<1>3. IInv /\ [Next]_vars => [Undo]_vars
  <2> SUFFICES ASSUME IInv, Next PROVE Undo
    OBVIOUS
  <2>1. CASE assigns' = assigns
    BY <2>1 DEF ToSet
  <2>2. CASE \E b \in Binding, m \in Nat : RecordAssign(b, m)
    BY <1>2, <2>2
  <2>3. CASE \E leaf \in DOMAIN committed : ContinueChain(leaf)
    BY <1>1, <2>3
  <2>4. ASSUME NEW b \in Binding, CommitAssign(b) PROVE \E m \in Nat : RecordAssign(b, m)
    <3>1. Len(committed) + 1 \in Nat
      BY DEF IInv, TypeOK
    <3> QED BY <2>4, <3>1 DEF CommitAssign
  <2>5. ASSUME NEW b \in Binding, AddAssign(b) PROVE \E m \in Nat : RecordAssign(b, m)
    BY <2>5 DEF AddAssign
  <2> QED BY <2>1, <2>2, <2>3, <2>4, <2>5 DEF Next, AddInstance, ReplaceInstance,
        AddAdditiveEdge, AddIdentifierBinding
<1> QED BY <1>3, Invariance, PTL DEF Spec, UndoneByOwnLeaf
=============================================================================
