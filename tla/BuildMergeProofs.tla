-------------------------- MODULE BuildMergeProofs --------------------------
(***************************************************************************)
(* build_merge resolves every graph the builder accepts, whatever its size.*)
(* The argument needs the builder's own invariant (BuilderGraphProofs): an *)
(* accepted graph has no cycle, so some unresolved target always waits for *)
(* nothing, and a target resolved after all it depends on copies only      *)
(* trees that no longer change.  That the sort leaves every edge at the    *)
(* place it took when it was added is an argument by itself: the places    *)
(* are another sorted list of the same edges, and there is only one.       *)
(***************************************************************************)
EXTENDS BuildMerge, BuilderGraphProofs, FiniteSetTheorems

-----------------------------------------------------------------------------
(* What is known while a build runs. *)

(* Every live edge joins two live instances. *)
LiveEdgesInside ==
    /\ liveEdges \subseteq DOMAIN edges
    /\ \A i \in liveEdges :
          {edges[i].target, edges[i].source} \subseteq DOMAIN trees

(* Targets are resolved after the targets they depend on, those of the      *)
(* current round wait for nothing, and a round is empty only at the end.    *)
InOrder ==
    /\ resolved \subseteq Targets
    /\ \A n \in resolved : DependsOn(n) \subseteq resolved
    /\ level \subseteq Ready(resolved)
    /\ level = {} => Targets \subseteq resolved

(* A resolved tree agrees with the trees of its sources as they are now. *)
TreesAgree ==
    \A n \in DOMAIN trees :
        trees[n] = IF n \in resolved THEN [h \in Hole |-> Filled(n, h)]
                                     ELSE EmptyTree

(* Every edge into a live instance is live. *)
LiveEdgesWhole ==
    \A i \in DOMAIN edges : edges[i].target \in DOMAIN trees => i \in liveEdges

(* The edges of a hole, and what it is for a list to be those edges sorted. *)
InHole(n, h) == {i \in DOMAIN edges : edges[i].target = n /\ edges[i].hole = h}
Listed(list, I) ==
    /\ list \in Seq(Nat)
    /\ \A k \in DOMAIN list : list[k] \in I
    /\ \A i \in I : \E k \in DOMAIN list : list[k] = i
    /\ \A j, k \in DOMAIN list : j < k => Earlier(list[j], list[k])

(* The places are those of the edges added so far. *)
PlacesKept ==
    /\ DOMAIN places = Name \X Hole
    /\ \A n \in Name, h \in Hole : Listed(places[<<n, h>>], InHole(n, h))

MergeInv ==
    /\ IInv
    /\ PlacesKept
    /\ phase \in {"wiring", "merging", "built"}
    /\ phase = "wiring" => resolved = {}
    /\ phase # "wiring" => LiveEdgesInside /\ LiveEdgesWhole /\ InOrder /\ TreesAgree
    /\ phase = "built" => level = {}

-----------------------------------------------------------------------------
(* The sort of the contributions: a finite set of positions has a list      *)
(* sorted by Earlier.  The rank of a position is the number of positions    *)
(* before it; no two have the same rank, so every rank is somebody's.       *)
Orders(I) == \A i \in I : i \in Nat /\ edges[i].order \in Int

LEMMA SortExists ==
    ASSUME NEW I, IsFiniteSet(I), Orders(I)
    PROVE  /\ Cardinality(I) \in Nat
           /\ Sorted(I) \in [1 .. Cardinality(I) -> I]
           /\ \A j, k \in 1 .. Cardinality(I) :
                 j < k => Earlier(Sorted(I)[j], Sorted(I)[k])
<1> DEFINE N == Cardinality(I)
           pred(i) == {j \in I : Earlier(j, i)}
           rank == [i \in I |-> Cardinality(pred(i)) + 1]
<1>1. N \in Nat
  BY FS_CardinalityType
<1>2. \A i, j \in I : i # j => Earlier(i, j) \/ Earlier(j, i)
  BY DEF Orders, Earlier
<1>3. \A i \in I : ~Earlier(i, i)
  BY DEF Orders, Earlier
<1>4. \A i, j, k \in I : Earlier(i, j) /\ Earlier(j, k) => Earlier(i, k)
  BY DEF Orders, Earlier
<1>5. \A i \in I : /\ IsFiniteSet(pred(i))
                  /\ Cardinality(pred(i)) \in Nat
                  /\ Cardinality(pred(i)) < N
  <2> TAKE i \in I
  <2>1. pred(i) \in SUBSET I /\ pred(i) # I
    BY <1>3
  <2>2. IsFiniteSet(pred(i)) /\ Cardinality(pred(i)) <= N /\ Cardinality(pred(i)) # N
    BY <2>1, FS_Subset
  <2>3. Cardinality(pred(i)) \in Nat
    BY <2>2, FS_CardinalityType
  <2> QED BY <1>1, <2>2, <2>3
<1> HIDE DEF N
<1>6. \A i, j \in I : Earlier(i, j) => Cardinality(pred(i)) < Cardinality(pred(j))
  <2> TAKE i, j \in I
  <2> HAVE Earlier(i, j)
  <2>1. pred(i) \in SUBSET pred(j) /\ pred(i) # pred(j)
    BY <1>3, <1>4
  <2>2. /\ Cardinality(pred(i)) <= Cardinality(pred(j))
        /\ Cardinality(pred(i)) # Cardinality(pred(j))
    BY <1>5, <2>1, FS_Subset
  <2>3. Cardinality(pred(i)) \in Nat /\ Cardinality(pred(j)) \in Nat
    BY <1>5
  <2> HIDE DEF pred
  <2> QED BY <2>2, <2>3
<1> HIDE DEF pred
<1>7. rank \in [I -> 1 .. N]
  BY <1>1, <1>5
<1>8. \A i, j \in I : Earlier(i, j) => rank[i] < rank[j]
  BY <1>5, <1>6
<1> HIDE DEF rank
<1>9. rank \in Injection(I, 1 .. N)
  <2>1. \A i, j \in I : rank[i] = rank[j] => i = j
    BY <1>2, <1>8, <1>7
  <2> QED BY <1>7, <2>1 DEF Injection, IsInjective
<1>10. rank \in Surjection(I, 1 .. N)
  <2>1. IsFiniteSet(1 .. N) /\ Cardinality(1 .. N) = N
    BY <1>1, FS_Interval
  <2> QED BY <1>9, <2>1, FS_Injection DEF N
<1>11. \A k \in 1 .. N : \E i \in I : rank[i] = k
  BY <1>10 DEF Surjection
<1> DEFINE q == [k \in 1 .. N |-> CHOOSE i \in I : rank[i] = k]
<1>12. q \in [1 .. N -> I] /\ \A k \in 1 .. N : rank[q[k]] = k
  BY <1>11
<1> HIDE DEF q
<1>13. \A j, k \in 1 .. N : j < k => Earlier(q[j], q[k])
  <2> SUFFICES ASSUME NEW j \in 1 .. N, NEW k \in 1 .. N, j < k
               PROVE  Earlier(q[j], q[k])
    OBVIOUS
  <2>1. q[j] \in I /\ q[k] \in I /\ rank[q[j]] = j /\ rank[q[k]] = k
    BY <1>12
  <2>2. q[j] # q[k] /\ ~Earlier(q[k], q[j])
    BY <1>1, <1>8, <2>1
  <2> QED BY <1>2, <2>1, <2>2
<1>14. \E p \in [1 .. N -> I] : \A j, k \in 1 .. N : j < k => Earlier(p[j], p[k])
  BY <1>12, <1>13
<1> QED BY <1>1, <1>14 DEF Sorted, N

(* A position stands in any sorted list right after those before it.        *)
LEMMA RankedPlace ==
    ASSUME NEW I, IsFiniteSet(I), Orders(I), NEW N \in Nat, NEW q \in [1 .. N -> I],
           \A i \in I : \E k \in 1 .. N : q[k] = i,
           \A j, k \in 1 .. N : j < k => Earlier(q[j], q[k]),
           NEW i \in I
    PROVE  LET place == Cardinality({j \in I : Earlier(j, i)}) + 1
           IN  place \in 1 .. N /\ q[place] = i
<1> DEFINE pred == {j \in I : Earlier(j, i)}
<1>1. \A j, k \in I : Earlier(j, k) => ~Earlier(k, j) /\ j # k
  BY DEF Orders, Earlier
<1>2. \A j, k \in 1 .. N : q[j] = q[k] => j = k
  BY <1>1
<1>3. PICK k \in 1 .. N : q[k] = i
  OBVIOUS
<1>4. \A m \in 1 .. N : q[m] \in pred <=> m < k
  BY <1>1, <1>3
<1> DEFINE f == [m \in 1 .. k - 1 |-> q[m]]
<1>5. f \in Bijection(1 .. k - 1, pred)
  <2>1. k - 1 \in Nat /\ \A m \in 1 .. k - 1 : m \in 1 .. N /\ m < k
    OBVIOUS
  <2>2. f \in [1 .. k - 1 -> pred]
    BY <1>4, <2>1
  <2>3. \A a, b \in 1 .. k - 1 : f[a] = f[b] => a = b
    BY <1>2, <2>1
  <2>4. \A j \in pred : \E m \in 1 .. k - 1 : f[m] = j
    <3> TAKE j \in pred
    <3>1. PICK m \in 1 .. N : q[m] = j
      OBVIOUS
    <3>2. m \in 1 .. k - 1
      BY <1>4, <3>1
    <3> QED BY <3>1, <3>2
  <2> HIDE DEF f
  <2> QED BY <2>2, <2>3, <2>4 DEF Bijection, Injection, IsInjective, Surjection
<1>6. Cardinality(pred) = k - 1
  <2>1. k - 1 \in Nat
    OBVIOUS
  <2> HIDE DEF f, pred
  <2>2. ExistsBijection(1 .. k - 1, pred)
    BY <1>5 DEF ExistsBijection
  <2> QED BY <2>1, <2>2, FS_CountingElements
<1> QED BY <1>3, <1>6

(* The sort's own list is one of them.                                      *)
LEMMA SortedPlace ==
    ASSUME NEW I, IsFiniteSet(I), Orders(I), NEW i \in I
    PROVE  LET place == Cardinality({j \in I : Earlier(j, i)}) + 1
           IN  place \in 1 .. Cardinality(I) /\ Sorted(I)[place] = i
<1> DEFINE N == Cardinality(I)
           s == Sorted(I)
<1>1. \A j, k \in I : Earlier(j, k) => ~Earlier(k, j) /\ j # k
  BY DEF Orders, Earlier
<1>2. /\ N \in Nat /\ s \in [1 .. N -> I]
      /\ \A j, k \in 1 .. N : j < k => Earlier(s[j], s[k])
  BY SortExists
<1>3. IsFiniteSet(1 .. N) /\ Cardinality(1 .. N) = N
  BY <1>2, FS_Interval
<1> HIDE DEF s
<1>4. \A k \in I : \E j \in 1 .. N : s[j] = k
  <2>1. \A j, k \in 1 .. N : s[j] = s[k] => j = k
    BY <1>1, <1>2
  <2>2. s \in Injection(1 .. N, I)
    BY <1>2, <2>1 DEF Injection, IsInjective
  <2>3. s \in Surjection(1 .. N, I)
    BY <1>3, <2>2, FS_Injection
  <2> QED BY <2>3 DEF Surjection
<1> HIDE DEF N
<1>5. LET place == Cardinality({j \in I : Earlier(j, i)}) + 1
      IN  place \in 1 .. N /\ s[place] = i
  BY <1>2, <1>4, RankedPlace
<1> QED BY <1>5 DEF N, s

(* So there is one sorted list.                                             *)
LEMMA SortedIsTheList ==
    ASSUME NEW I, IsFiniteSet(I), Orders(I), NEW N \in Nat, NEW q \in [1 .. N -> I],
           \A i \in I : \E k \in 1 .. N : q[k] = i,
           \A j, k \in 1 .. N : j < k => Earlier(q[j], q[k])
    PROVE  N = Cardinality(I) /\ \A k \in 1 .. N : Sorted(I)[k] = q[k]
<1>1. \A j, k \in I : Earlier(j, k) => j # k
  BY DEF Orders, Earlier
<1>2. IsFiniteSet(1 .. N) /\ Cardinality(1 .. N) = N
  BY FS_Interval
<1>3. \A j, k \in 1 .. N : q[j] = q[k] => j = k
  BY <1>1
<1>4. N = Cardinality(I)
  <2>1. q \in Surjection(1 .. N, I)
    BY DEF Surjection
  <2>2. q \in Injection(1 .. N, I)
    BY <1>3 DEF Injection, IsInjective
  <2> QED BY <1>2, <2>1, <2>2, FS_Surjection
<1>5. ASSUME NEW k \in 1 .. N PROVE Sorted(I)[k] = q[k]
  <2> DEFINE place == Cardinality({j \in I : Earlier(j, q[k])}) + 1
  <2>1. q[k] \in I
    OBVIOUS
  <2>2. place \in 1 .. N /\ q[place] = q[k]
    BY <2>1, RankedPlace
  <2>3. Sorted(I)[place] = q[k]
    BY <2>1, SortedPlace, Zenon
  <2> HIDE DEF place
  <2>4. place = k
    BY <1>3, <2>2
  <2> QED BY <2>3, <2>4
<1> QED BY <1>4, <1>5

-----------------------------------------------------------------------------
(* Inserting into a list shifts what stands behind the place.               *)
LEMMA InsertAtShifts ==
    ASSUME NEW S, NEW s \in Seq(S), NEW p \in 1 .. Len(s) + 1, NEW e \in S
    PROVE  /\ InsertAt(s, p, e) \in Seq(S)
           /\ DOMAIN InsertAt(s, p, e) = 1 .. Len(s) + 1
           /\ \A j \in 1 .. Len(s) + 1 :
                 InsertAt(s, p, e)[j] = IF j < p THEN s[j]
                                        ELSE IF j = p THEN e ELSE s[j - 1]
<1> DEFINE front == SubSeq(s, 1, p - 1)
           back  == SubSeq(s, p, Len(s))
           mid   == front \o <<e>>
<1>1. Len(s) \in Nat /\ p \in Nat /\ \A j \in 1 .. Len(s) : s[j] \in S
  OBVIOUS
<1>2. /\ front \in Seq(S) /\ Len(front) = p - 1
      /\ \A j \in 1 .. p - 1 : front[j] = s[j]
  <2>1. p - 1 \in Int /\ \A j \in 1 .. p - 1 : s[j] \in S
    BY <1>1
  <2> QED BY <1>1, <2>1, SubSeqProperties, Z3
<1>3. /\ back \in Seq(S) /\ Len(back) = Len(s) - p + 1
      /\ \A j \in 1 .. Len(s) - p + 1 : back[j] = s[p + j - 1]
  <2>1. p \in Int /\ \A j \in p .. Len(s) : s[j] \in S
    BY <1>1
  <2> QED BY <1>1, <2>1, SubSeqProperties, Z3
<1> HIDE DEF front, back
<1>4. /\ mid \in Seq(S) /\ Len(mid) = p
      /\ \A j \in 1 .. p : mid[j] = IF j = p THEN e ELSE s[j]
  BY <1>1, <1>2
<1> HIDE DEF mid
<1>5. /\ mid \o back \in Seq(S)
      /\ Len(mid \o back) = Len(mid) + Len(back)
      /\ \A j \in 1 .. Len(mid) + Len(back) :
            (mid \o back)[j] = IF j <= Len(mid) THEN mid[j] ELSE back[j - Len(mid)]
  BY <1>3, <1>4, ConcatProperties
<1>6. Len(mid) + Len(back) = Len(s) + 1
  BY <1>1, <1>3, <1>4
<1>7. \A j \in 1 .. Len(s) + 1 :
         (mid \o back)[j] = IF j < p THEN s[j] ELSE IF j = p THEN e ELSE s[j - 1]
  <2> TAKE j \in 1 .. Len(s) + 1
  <2>1. CASE j <= p
    BY <1>1, <1>4, <1>5, <1>6, <2>1
  <2>2. CASE ~(j <= p)
    <3>1. j - p \in 1 .. Len(s) - p + 1 /\ p + (j - p) - 1 = j - 1
      BY <1>1, <2>2
    <3>2. (mid \o back)[j] = back[j - p]
      BY <1>1, <1>4, <1>5, <1>6, <2>2
    <3>3. back[j - p] = s[p + (j - p) - 1]
      BY <1>3, <3>1
    <3>4. s[p + (j - p) - 1] = s[j - 1]
      BY <3>1, Zenon
    <3>5. (mid \o back)[j] = s[j - 1]
      BY <3>2, <3>3, <3>4, Zenon
    <3> QED BY <1>1, <2>2, <3>5
  <2> QED BY <2>1, <2>2
<1>8. InsertAt(s, p, e) = mid \o back
  BY DEF InsertAt, mid, front, back
<1>9. DOMAIN (mid \o back) = 1 .. Len(s) + 1
  BY <1>5, <1>6
<1> QED BY <1>5, <1>7, <1>8, <1>9

(* The front of a list ends where its size says.                            *)
LEMMA FrontIsCounted ==
    ASSUME NEW N \in Nat, NEW D \in SUBSET (1 .. N),
           \A j, k \in 1 .. N : j < k /\ k \in D => j \in D
    PROVE  /\ Cardinality(D) \in 0 .. N
           /\ \A k \in 1 .. N : k \in D <=> k <= Cardinality(D)
<1>1. IsFiniteSet(1 .. N) /\ Cardinality(1 .. N) = N
  BY FS_Interval
<1>2. IsFiniteSet(D) /\ Cardinality(D) <= N
  BY <1>1, FS_Subset
<1>3. Cardinality(D) \in Nat
  BY <1>2, FS_CardinalityType
<1>4. ASSUME NEW k \in 1 .. N, k \in D PROVE k <= Cardinality(D)
  <2>1. 1 .. k \in SUBSET D
    BY <1>4
  <2>2. Cardinality(1 .. k) = k
    BY FS_Interval
  <2>3. Cardinality(1 .. k) <= Cardinality(D)
    BY <1>2, <2>1, FS_Subset
  <2> QED BY <2>2, <2>3
<1>5. ASSUME NEW k \in 1 .. N, k \notin D PROVE ~(k <= Cardinality(D))
  <2>1. D \in SUBSET (1 .. k - 1)
    BY <1>5
  <2>2. IsFiniteSet(1 .. k - 1) /\ Cardinality(1 .. k - 1) = k - 1
    BY FS_Interval
  <2>3. Cardinality(D) <= Cardinality(1 .. k - 1)
    BY <2>1, <2>2, FS_Subset
  <2> QED BY <1>3, <2>2, <2>3
<1> QED BY <1>2, <1>3, <1>4, <1>5

(* Nothing but an edge changes the places.                                  *)
LEMMA PlacesStay == PlacesKept /\ UNCHANGED <<edges, places>> => PlacesKept'
<1> SUFFICES ASSUME PlacesKept, UNCHANGED <<edges, places>>, NEW n \in Name, NEW h \in Hole
             PROVE  DOMAIN places' = Name \X Hole /\ Listed(places[<<n, h>>], InHole(n, h))'
  BY DEF PlacesKept
<1>1. InHole(n, h)' = InHole(n, h)
  BY DEF InHole
<1> DEFINE list == places[<<n, h>>]
<1>2. \A j, k \in DOMAIN list : Earlier(list[j], list[k])' <=> Earlier(list[j], list[k])
  BY DEF Earlier
<1>3. Listed(list, InHole(n, h)) /\ places' = places
  BY DEF PlacesKept
<1>4. Listed(list, InHole(n, h))'
  BY <1>1, <1>2, <1>3 DEF Listed
<1> QED BY <1>3, <1>4 DEF PlacesKept

(* A call that adds no edge leaves all edges their places; one that adds an *)
(* edge puts it where the sort will find it.                                *)
LEMMA WirePlaces == ASSUME MergeInv, Wire PROVE PlacesKept'
<1>1. CASE edges' = edges
  BY <1>1, PlacesStay DEF Wire, MergeInv
<1>2. CASE edges' # edges
  <2>1. PICK t \in Name, s \in Name, h \in Hole, o \in Order : AddAdditiveEdge(t, h, s, o)
    BY <1>2 DEF Wire, Next, AddInstance, ReplaceInstance, AddAssign, CommitAssign,
                ContinueChain, TakeBack, AddIdentifierBinding
  <2> DEFINE e == [target |-> t, hole |-> h, source |-> s, order |-> o]
             i == Len(edges) + 1
             list == places[<<t, h>>]
             D == {k \in DOMAIN list : edges[list[k]].order <= o}
             new == InsertAt(list, PlaceFor(list, o), i)
             after(a, b) == \/ edges'[a].order < edges'[b].order
                            \/ edges'[a].order = edges'[b].order /\ a < b
  <2>2. /\ edges \in Seq(AdditiveEdge) /\ e \in AdditiveEdge /\ edges' = Append(edges, e)
        /\ o \in Int
    BY <2>1, NamesAssumption DEF MergeInv, IInv, TypeOK, AddAdditiveEdge, AdditiveEdge
  <2>3. e.target = t /\ e.hole = h /\ e.order = o
    OBVIOUS
  <2> HIDE DEF e
  <2>4. /\ i \in Nat /\ DOMAIN edges' = DOMAIN edges \cup {i} /\ edges'[i] = e
        /\ Len(edges') = i /\ i \notin DOMAIN edges
        /\ \A j \in DOMAIN edges : edges'[j] = edges[j] /\ j \in Nat /\ j < i
                                   /\ edges[j].order \in Int
    <3>1. \A j \in DOMAIN edges : edges[j] \in AdditiveEdge
      BY <2>2
    <3>2. \A j \in DOMAIN edges : edges[j].order \in Int
      BY <3>1, NamesAssumption DEF AdditiveEdge
    <3> QED BY <2>2, <3>2
  <2>5. places' = [places EXCEPT ![<<t, h>>] = new]
    BY <1>2, <2>3, <2>4 DEF Wire, TakePlace
  <2>6. PlacesKept
    BY DEF MergeInv
  <2> HIDE DEF i, new
  <2>7. ASSUME NEW n \in Name, NEW g \in Hole, <<n, g>> # <<t, h>>
        PROVE  Listed(places[<<n, g>>], InHole(n, g))'
    <3>1. places'[<<n, g>>] = places[<<n, g>>]
      BY <2>5, <2>6, <2>7 DEF PlacesKept
    <3>2. InHole(n, g)' = InHole(n, g)
      BY <2>3, <2>4, <2>7 DEF InHole
    <3>3. Listed(places[<<n, g>>], InHole(n, g)) /\ InHole(n, g) \subseteq DOMAIN edges
      BY <2>6 DEF PlacesKept, InHole
    <3> DEFINE l == places[<<n, g>>]
    <3>4. \A j, k \in DOMAIN l : after(l[j], l[k]) <=> Earlier(l[j], l[k])
      BY <2>4, <3>3 DEF Earlier, Listed
    <3>5. \A j, k \in DOMAIN l : Earlier(l[j], l[k])' <=> after(l[j], l[k])
      BY <3>1 DEF Earlier
    <3> HIDE DEF after
    <3> QED BY <3>1, <3>2, <3>3, <3>4, <3>5 DEF Listed
  <2>a. DOMAIN places' = Name \X Hole /\ places'[<<t, h>>] = new
    BY <2>5, <2>6 DEF PlacesKept
  <2>8. Listed(places[<<t, h>>], InHole(t, h))'
    <3> DEFINE N == Len(list)
               p == PlaceFor(list, o)
    <3>1. Listed(list, InHole(t, h)) /\ InHole(t, h) \subseteq DOMAIN edges
      BY <2>6 DEF PlacesKept, InHole
    <3>2. InHole(t, h)' = InHole(t, h) \cup {i}
      BY <2>3, <2>4 DEF InHole
    <3> HIDE DEF list
    <3>3. /\ N \in Nat /\ DOMAIN list = 1 .. N /\ list \in Seq(Nat)
          /\ \A k \in 1 .. N : list[k] \in InHole(t, h) /\ list[k] \in DOMAIN edges
      BY <3>1 DEF Listed
    <3>4. /\ p \in 1 .. N + 1
          /\ \A k \in 1 .. N : k < p <=> edges[list[k]].order <= o
      <4>1. D \in SUBSET (1 .. N)
        BY <3>3
      <4>2. \A j, k \in 1 .. N : j < k /\ k \in D => j \in D
        <5> TAKE j, k \in 1 .. N
        <5> HAVE j < k /\ k \in D
        <5>1. Earlier(list[j], list[k])
          BY <3>1, <3>3 DEF Listed
        <5> QED BY <2>2, <2>4, <3>3, <5>1 DEF Earlier
      <4>3. /\ Cardinality(D) \in 0 .. N
            /\ \A k \in 1 .. N : k \in D <=> k <= Cardinality(D)
        <5> HIDE DEF D
        <5> QED BY <3>3, <4>1, <4>2, FrontIsCounted
      <4>4. p = Cardinality(D) + 1
        BY DEF PlaceFor
      <4>5. \A k \in 1 .. N : k \in D <=> edges[list[k]].order <= o
        BY <3>3
      <4> HIDE DEF p, D
      <4> QED BY <3>3, <4>3, <4>4, <4>5
    <3>5. /\ new \in Seq(Nat) /\ DOMAIN new = 1 .. N + 1
          /\ \A j \in 1 .. N + 1 : new[j] = IF j < p THEN list[j]
                                            ELSE IF j = p THEN i ELSE list[j - 1]
      <4> HIDE DEF p
      <4>1. p \in 1 .. Len(list) + 1
        BY <3>4
      <4>2. new = InsertAt(list, p, i)
        BY DEF new, p
      <4>3. i \in Nat /\ list \in Seq(Nat)
        BY <2>4, <3>3
      <4>4. /\ InsertAt(list, p, i) \in Seq(Nat)
            /\ DOMAIN InsertAt(list, p, i) = 1 .. Len(list) + 1
            /\ \A j \in 1 .. Len(list) + 1 :
                 InsertAt(list, p, i)[j] = IF j < p THEN list[j]
                                           ELSE IF j = p THEN i ELSE list[j - 1]
        BY <4>1, <4>3, InsertAtShifts, Z3
      <4> QED BY <4>2, <4>4, Zenon
    <3> HIDE DEF p, N
    <3>6. \A k \in DOMAIN new : new[k] \in InHole(t, h)'
      BY <3>2, <3>3, <3>4, <3>5
    <3>7. ASSUME NEW j \in InHole(t, h)' PROVE \E k \in DOMAIN new : new[k] = j
      <4>1. CASE j = i
        <5>1. p \in 1 .. N + 1 /\ new[p] = i
          BY <3>3, <3>4, <3>5
        <5> QED BY <3>5, <4>1, <5>1
      <4>2. CASE j # i
        <5>1. PICK k \in 1 .. N : list[k] = j
          BY <3>1, <3>2, <3>3, <4>2 DEF Listed
        <5>2. CASE k < p
          <6>1. k \in 1 .. N + 1 /\ new[k] = list[k]
            BY <3>3, <3>4, <3>5, <5>2
          <6> QED BY <3>5, <5>1, <6>1
        <5>3. CASE ~(k < p)
          <6>1. k + 1 \in 1 .. N + 1 /\ ~(k + 1 < p) /\ k + 1 # p /\ (k + 1) - 1 = k
            BY <3>3, <3>4, <5>3
          <6>2. new[k + 1] = list[(k + 1) - 1]
            BY <3>5, <6>1
          <6> QED BY <3>5, <5>1, <6>1, <6>2
        <5> QED BY <5>2, <5>3
      <4> QED BY <4>1, <4>2
    <3>8. ASSUME NEW j \in DOMAIN new, NEW k \in DOMAIN new, j < k
          PROVE  after(new[j], new[k])
      <4>1. \A a, b \in 1 .. N : a < b => after(list[a], list[b])
        <5>1. \A a, b \in 1 .. N : a < b => Earlier(list[a], list[b])
          BY <3>1, <3>3 DEF Listed
        <5> QED BY <2>4, <3>3, <5>1 DEF Earlier
      <4>2. \A a \in 1 .. N : a < p => after(list[a], i)
        <5> TAKE a \in 1 .. N
        <5> HAVE a < p
        <5>1. edges'[list[a]].order <= o /\ list[a] < i /\ edges'[list[a]].order \in Int
          BY <2>4, <3>3, <3>4
        <5>2. edges'[i].order = o /\ o \in Int
          BY <2>2, <2>3, <2>4
        <5> DEFINE x == edges'[list[a]].order
                   y == edges'[i].order
        <5>3. x \in Int /\ y \in Int
          BY <5>1, <5>2
        <5>4. x <= y
          BY <5>1, <5>2
        <5> HIDE DEF x, y
        <5>5. x < y \/ (x = y /\ list[a] < i)
          BY <5>1, <5>3, <5>4
        <5> QED BY <5>5 DEF x, y
      <4>3. \A a \in 1 .. N : ~(a < p) => after(i, list[a])
        <5> TAKE a \in 1 .. N
        <5> HAVE ~(a < p)
        <5>1. ~(edges'[list[a]].order <= o) /\ edges'[list[a]].order \in Int
          BY <2>4, <3>3, <3>4
        <5>2. edges'[i].order = o /\ o \in Int
          BY <2>2, <2>3, <2>4
        <5> DEFINE x == edges'[list[a]].order
                   y == edges'[i].order
        <5>3. x \in Int /\ y \in Int
          BY <5>1, <5>2
        <5>4. ~(x <= y)
          BY <5>1, <5>2
        <5> HIDE DEF x, y
        <5>5. y < x
          BY <5>1, <5>3, <5>4
        <5> QED BY <5>5 DEF x, y
      <4>4. j \in 1 .. N + 1 /\ k \in 1 .. N + 1 /\ p \in 1 .. N + 1
        BY <3>4, <3>5
      <4>5. CASE k < p
        <5>1. j \in 1 .. N /\ k \in 1 .. N /\ new[j] = list[j] /\ new[k] = list[k]
          BY <3>3, <3>5, <3>8, <4>4, <4>5
        <5> QED BY <3>8, <4>1, <5>1
      <4>6. CASE k = p
        <5>1. j \in 1 .. N /\ j < p /\ new[j] = list[j] /\ new[k] = i
          BY <3>3, <3>5, <3>8, <4>4, <4>6
        <5> QED BY <4>2, <5>1
      <4>7. CASE k > p /\ j < p
        <5>1. /\ j \in 1 .. N /\ k - 1 \in 1 .. N /\ j < k - 1
              /\ new[j] = list[j] /\ new[k] = list[k - 1]
          BY <3>3, <3>5, <4>4, <4>7
        <5> QED BY <4>1, <5>1
      <4>8. CASE k > p /\ j = p
        <5>1. k - 1 \in 1 .. N /\ ~(k - 1 < p) /\ new[j] = i /\ new[k] = list[k - 1]
          BY <3>3, <3>5, <4>4, <4>8
        <5> QED BY <4>3, <5>1
      <4>9. CASE k > p /\ j > p
        <5>a. j - 1 \in 1 .. N /\ k - 1 \in 1 .. N /\ j - 1 < k - 1
          BY <3>3, <3>8, <4>4, <4>9
        <5>1. new[j] = list[j - 1] /\ new[k] = list[k - 1]
          BY <3>5, <4>4, <4>9
        <5> QED BY <4>1, <5>a, <5>1
      <4> QED BY <4>4, <4>5, <4>6, <4>7, <4>8, <4>9
    <3>9. \A j, k \in DOMAIN new : after(new[j], new[k])
                <=> (\/ edges'[new[j]].order < edges'[new[k]].order
                     \/ edges'[new[j]].order = edges'[new[k]].order /\ new[j] < new[k])
      OBVIOUS
    <3> HIDE DEF after
    <3> QED BY <2>a, <3>5, <3>6, <3>7, <3>8, <3>9 DEF Listed, Earlier
  <2>9. ASSUME NEW n \in Name, NEW g \in Hole
         PROVE  Listed(places[<<n, g>>], InHole(n, g))'
    <3>1. CASE <<n, g>> # <<t, h>>
      BY <2>7, <3>1
    <3>2. CASE <<n, g>> = <<t, h>>
      <4>1. n = t /\ g = h
        BY <3>2
      <4> QED BY <2>8, <4>1
    <3> QED BY <3>1, <3>2
  <2> QED BY <2>9, <2>a DEF PlacesKept
<1> QED BY <1>1, <1>2

-----------------------------------------------------------------------------
(* Contributions are live edges into their hole, at known places.           *)
LEMMA ContributionsSorted ==
    ASSUME TypeOK, LiveEdgesInside, NEW n, NEW h
    PROVE  LET I == ContributionIndices(n, h)
           IN  /\ IsFiniteSet(I) /\ Orders(I)
               /\ Cardinality(I) \in Nat
               /\ Contributions(n, h) \in [1 .. Cardinality(I) -> I]
<1> DEFINE I == ContributionIndices(n, h)
<1>1. /\ edges \in Seq(AdditiveEdge) /\ Len(edges) \in Nat
      /\ I \in SUBSET (1 .. Len(edges))
  BY DEF TypeOK, LiveEdgesInside, ContributionIndices
<1>2. IsFiniteSet(I)
  <2>1. IsFiniteSet(1 .. Len(edges))
    BY <1>1, FS_Interval
  <2> QED BY <1>1, <2>1, FS_Subset
<1>3. Orders(I)
  <2> SUFFICES ASSUME NEW i \in I PROVE i \in Nat /\ edges[i].order \in Int
    BY DEF Orders
  <2>1. i \in Nat /\ edges[i] \in AdditiveEdge
    BY <1>1
  <2> QED BY <2>1, NamesAssumption DEF AdditiveEdge
<1> HIDE DEF I
<1>4. /\ Cardinality(I) \in Nat
      /\ Sorted(I) \in [1 .. Cardinality(I) -> I]
  BY <1>2, <1>3, SortExists
<1> QED BY <1>2, <1>3, <1>4 DEF Contributions, I

(* What fills a hole is settled by the trees of the sources of its edges.   *)
LEMMA FilledDependsOn ==
    ASSUME TypeOK, LiveEdgesInside, NEW n, NEW h, NEW other,
           \A i \in ContributionIndices(n, h) :
              other[edges[i].source] = trees[edges[i].source]
    PROVE  Filled(n, h) =
             LET order == Contributions(n, h)
             IN  [k \in DOMAIN order |->
                     [source |-> edges[order[k]].source,
                      tree   |-> other[edges[order[k]].source]]]
<1> DEFINE order == Contributions(n, h)
<1>1. \A k \in DOMAIN order : order[k] \in ContributionIndices(n, h)
  BY ContributionsSorted
<1> QED BY <1>1 DEF Filled

(* Among any targets of edges of an acyclic graph, one has no edge from     *)
(* another of them.                                                         *)
LEMMA SomeWaitsForNone ==
    ASSUME IInv, NEW L \in SUBSET DOMAIN edges,
           NEW S \in SUBSET {edges[i].target : i \in L}, S # {}
    PROVE  \E n \in S : \A i \in L : edges[i].target = n => edges[i].source \notin S
<1>1. \A i \in DOMAIN edges : edges[i] \in AdditiveEdge /\ edges[i] \in ToSet(edges)
  BY DEF IInv, TypeOK, ToSet
<1>2. \A i \in DOMAIN edges : edges[i].target \in Name
  BY <1>1 DEF AdditiveEdge
<1>3. S \in (SUBSET Name) \ {{}}
  BY <1>2
<1>4. PICK n \in S : \A e \in ToSet(edges) : e.target = n => e.source \notin S
  BY <1>3 DEF IInv, EdgesAcyclic, Acyclic
<1> QED BY <1>1, <1>4

(* So an unresolved target is ready as long as there is one.                *)
LEMMA SomeTargetReady ==
    ASSUME IInv, LiveEdgesInside, NEW done, Targets \ done # {}
    PROVE  Ready(done) # {}
<1> DEFINE S == Targets \ done
<1>1. PICK n \in S : \A i \in liveEdges :
                         edges[i].target = n => edges[i].source \notin S
  <2>1. /\ liveEdges \in SUBSET DOMAIN edges
        /\ S \in SUBSET {edges[i].target : i \in liveEdges}
    BY DEF LiveEdgesInside, Targets
  <2> QED BY <2>1, SomeWaitsForNone
<1>2. DependsOn(n) \subseteq done
  BY <1>1 DEF DependsOn
<1> QED BY <1>2 DEF Ready

-----------------------------------------------------------------------------
(* Before the build only the builder's invariant and the places say         *)
(* anything.                                                                *)
LEMMA MergeInitInv == MergeInit => MergeInv
<1> SUFFICES ASSUME MergeInit PROVE MergeInv
  OBVIOUS
<1>1. ASSUME NEW n \in Name, NEW h \in Hole
      PROVE  places[<<n, h>>] = <<>> /\ InHole(n, h) = {}
  BY DEF MergeInit, Init, InHole
<1>2. \A I : I = {} => Listed(<<>>, I)
  BY DEF Listed
<1>3. PlacesKept
  BY <1>1, <1>2 DEF PlacesKept, MergeInit
<1> QED BY <1>3, InitInvariant DEF MergeInit, MergeInv

(* The build starts with empty trees and a first round of ready targets.    *)
LEMMA StartBuildInv == MergeInv /\ StartBuild => MergeInv'
<1> SUFFICES ASSUME MergeInv, StartBuild PROVE MergeInv'
  OBVIOUS
<1>1. /\ UNCHANGED vars /\ phase' = "merging" /\ resolved' = {}
      /\ liveEdges' = LiveEdges /\ level' = NextLevel({})'
      /\ trees' = [n \in LiveNames |-> EmptyTree] /\ places' = places
  BY DEF StartBuild
<1>2. IInv'
  BY <1>1 DEF MergeInv, IInv, vars, graph, leaves, TypeOK, EdgesRegistered, EdgesAcyclic,
              FamilyExclusive, OneWiringPerDemand, Owned, Registered
<1>3. LiveEdgesInside'
  BY <1>1 DEF LiveEdgesInside, LiveEdges, Live, vars, graph
<1>4. InOrder'
  <2>1. LiveEdges \in SUBSET DOMAIN edges
    BY DEF LiveEdges
  <2>2. Targets' = {edges[i].target : i \in LiveEdges}
    BY <1>1 DEF Targets, vars, graph
  <2>3. ASSUME Targets' # {} PROVE Ready({})' # {}
    <3>1. PICK n \in Targets' : \A i \in LiveEdges :
                edges[i].target = n => edges[i].source \notin Targets'
      BY <2>1, <2>2, <2>3, SomeWaitsForNone DEF MergeInv
    <3>2. DependsOn(n)' = {}
      BY <1>1, <3>1 DEF DependsOn, vars, graph
    <3> QED BY <3>2 DEF Ready
  <2>4. level' = Ready({})' /\ (level' = {} => Targets' = {})
    BY <1>1, <2>3 DEF NextLevel, Ready
  <2> QED BY <1>1, <2>4 DEF InOrder
<1>5. TreesAgree'
  BY <1>1 DEF TreesAgree
<1>6. LiveEdgesWhole'
  <2> SUFFICES ASSUME NEW i \in DOMAIN edges, edges[i].target \in LiveNames
               PROVE  edges[i].source \in LiveNames
    BY <1>1 DEF LiveEdgesWhole, LiveEdges, Live, vars, graph
  <2>1. edges[i] \in AdditiveEdge /\ edges[i] \in Edges
    BY DEF MergeInv, IInv, TypeOK, Edges, ToSet
  <2>2. edges[i].source \in Name
    BY <2>1 DEF AdditiveEdge
  <2> QED BY <2>1, <2>2 DEF LiveNames, ReachableFrom, Closed
<1>7. PlacesKept'
  BY <1>1, PlacesStay DEF MergeInv, vars, graph
<1> QED BY <1>1, <1>2, <1>3, <1>4, <1>5, <1>6, <1>7 DEF MergeInv

(* Filling n's holes changes no tree already copied: n is resolved after    *)
(* every target it depends on, and nothing resolved so far depends on n.    *)
LEMMA ResolveTargetInv ==
    ASSUME MergeInv, NEW n \in Name, ResolveTarget(n)
    PROVE  MergeInv'
<1>1. /\ UNCHANGED <<vars, phase, liveEdges, places>> /\ n \in level
      /\ trees' = [trees EXCEPT ![n] = [h \in Hole |-> Filled(n, h)]]
      /\ resolved' = resolved \cup {n}
      /\ level' = IF level = {n} THEN NextLevel(resolved') ELSE level \ {n}
  BY DEF ResolveTarget, view
<1>2. /\ IInv /\ TypeOK /\ LiveEdgesInside /\ LiveEdgesWhole /\ InOrder /\ TreesAgree
      /\ PlacesKept /\ phase = "merging"
  BY DEF MergeInv, IInv, ResolveTarget
<1>3. /\ n \in Targets /\ n \notin resolved /\ DependsOn(n) \subseteq resolved
      /\ n \in DOMAIN trees
  BY <1>1, <1>2 DEF InOrder, Ready, LiveEdgesInside, Targets
<1>4. IInv'
  BY <1>1, <1>2 DEF IInv, vars, graph, leaves, TypeOK, EdgesRegistered, EdgesAcyclic,
              FamilyExclusive, OneWiringPerDemand, Owned, Registered
<1>5. LiveEdgesInside' /\ DOMAIN trees' = DOMAIN trees
  BY <1>1, <1>2 DEF LiveEdgesInside, vars, graph
<1>6. Targets' = Targets /\ \A m : DependsOn(m)' = DependsOn(m)
  BY <1>1 DEF Targets, DependsOn, vars, graph
<1>7. InOrder'
  <2>1. Targets \ resolved' # {} => Ready(resolved') # {}
    BY <1>2, SomeTargetReady
  <2>2. /\ level' \subseteq Ready(resolved')
        /\ level' = {} => Targets \subseteq resolved'
    <3>1. CASE level = {n}
      BY <1>1, <2>1, <3>1 DEF NextLevel, Ready
    <3>2. CASE level # {n}
      BY <1>1, <1>2, <3>2 DEF InOrder, Ready
    <3> QED BY <3>1, <3>2
  <2>3. Ready(resolved)' = Ready(resolved')
    BY <1>6 DEF Ready
  <2> QED BY <1>1, <1>2, <1>3, <1>6, <2>2, <2>3 DEF InOrder
<1>8. ASSUME NEW m \in resolved', NEW h
      PROVE  Filled(m, h)' = Filled(m, h)
  <2>1. DependsOn(m) \subseteq resolved /\ n \notin DependsOn(m)
    BY <1>1, <1>2, <1>3 DEF InOrder
  <2>2. \A i \in ContributionIndices(m, h) : edges[i].source # n
    BY <1>3, <2>1 DEF ContributionIndices, DependsOn
  <2>3. \A i \in ContributionIndices(m, h) :
           /\ edges[i].source \in DOMAIN trees
           /\ trees'[edges[i].source] = trees[edges[i].source]
    BY <1>1, <1>2, <2>2 DEF ContributionIndices, LiveEdgesInside
  <2>4. Contributions(m, h)' = Contributions(m, h)
    BY <1>1 DEF Contributions, Sorted, Earlier, ContributionIndices, vars, graph
  <2>5. Filled(m, h) = [k \in DOMAIN Contributions(m, h) |->
                          [source |-> edges[Contributions(m, h)[k]].source,
                           tree   |-> trees'[edges[Contributions(m, h)[k]].source]]]
    BY <1>2, <2>3, FilledDependsOn
  <2>6. edges' = edges
    BY <1>1 DEF vars, graph
  <2> QED BY <2>4, <2>5, <2>6 DEF Filled
<1>9. TreesAgree'
  BY <1>1, <1>2, <1>3, <1>5, <1>8 DEF TreesAgree
<1>10. LiveEdgesWhole' /\ PlacesKept'
  BY <1>1, <1>2, <1>5, PlacesStay DEF LiveEdgesWhole, vars, graph
<1> QED BY <1>1, <1>2, <1>4, <1>5, <1>7, <1>9, <1>10 DEF MergeInv

(* Every step keeps the merge invariant. *)
LEMMA MergeStepInv == MergeInv /\ [MergeNext]_mergeVars => MergeInv'
<1> SUFFICES ASSUME MergeInv, [MergeNext]_mergeVars PROVE MergeInv'
  OBVIOUS
<1>1. CASE Wire
  <2>1. IInv'
    BY <1>1, StepInvariant DEF Wire, MergeInv
  <2>2. PlacesKept'
    BY <1>1, WirePlaces
  <2> QED BY <1>1, <2>1, <2>2 DEF Wire, MergeInv
<1>2. CASE StartBuild
  BY <1>2, StartBuildInv
<1>3. ASSUME NEW n \in Name, ResolveTarget(n) PROVE MergeInv'
  BY <1>3, ResolveTargetInv
<1>4. ASSUME UNCHANGED <<vars, view, trees, resolved, level, places>>
      PROVE  /\ IInv' /\ PlacesKept'
             /\ LiveEdgesWhole => LiveEdgesWhole'
             /\ LiveEdgesInside => LiveEdgesInside'
             /\ InOrder => InOrder'
             /\ TreesAgree => TreesAgree'
  <2>1. IInv'
    BY <1>4 DEF MergeInv, IInv, vars, graph, leaves, TypeOK, EdgesRegistered, EdgesAcyclic,
              FamilyExclusive, OneWiringPerDemand, Owned, Registered
  <2>2. LiveEdgesInside => LiveEdgesInside'
    BY <1>4 DEF vars, graph, view, LiveEdgesInside
  <2>3. InOrder => InOrder'
    BY <1>4 DEF vars, graph, view, InOrder, Targets, DependsOn, Ready
  <2>4. TreesAgree => TreesAgree'
    <3>1. UNCHANGED <<edges, liveEdges, trees, resolved>>
      BY <1>4 DEF vars, graph, view
    <3>2. \A n, h : Filled(n, h)' = Filled(n, h)
      BY <3>1 DEF Filled, Contributions, Sorted, Earlier, ContributionIndices
    <3> QED BY <3>1, <3>2 DEF TreesAgree
  <2>5. PlacesKept' /\ (LiveEdgesWhole => LiveEdgesWhole')
    BY <1>4, PlacesStay DEF vars, graph, view, MergeInv, LiveEdgesWhole
  <2> QED BY <2>1, <2>2, <2>3, <2>4, <2>5
<1>5. CASE FinishBuild
  BY <1>4, <1>5 DEF FinishBuild, MergeInv
<1>6. CASE UNCHANGED mergeVars
  BY <1>4, <1>6 DEF mergeVars, MergeInv, view
<1> QED BY <1>1, <1>2, <1>3, <1>5, <1>6 DEF MergeNext

(* The merge invariant holds throughout. *)
LEMMA MergeInvariance == MergeSpec => []MergeInv
BY MergeInitInv, MergeStepInv, PTL DEF MergeSpec
(* The topological sort's fallback, which takes targets that wait on each   *)
(* other, is dead code on every graph the builder accepts.                  *)
THEOREM SortNeverStuck == MergeSpec => []NeverStuck
<1>1. MergeInv => NeverStuck
  BY SomeTargetReady DEF MergeInv, NeverStuck
<1> QED BY <1>1, MergeInvariance, PTL

(* In a resolved hole every edge has the place it took when it was added,   *)
(* and none is missing: the live edges of the hole are all its edges, and   *)
(* sorting them gives the one sorted list, which the places also are.       *)
THEOREM ContributionsInOrder == MergeSpec => []ContributionOrder
<1>1. ASSUME MergeInv PROVE ContributionOrder
  <2> SUFFICES ASSUME NEW n \in resolved, NEW h \in Hole
               PROVE  LET list == places[<<n, h>>]
                      IN  /\ DOMAIN trees[n][h] = DOMAIN list
                          /\ \A k \in DOMAIN list :
                                trees[n][h][k].source = edges[list[k]].source
    BY DEF ContributionOrder
  <2> DEFINE I == ContributionIndices(n, h)
             list == places[<<n, h>>]
             order == Contributions(n, h)
  <2>1. TypeOK /\ LiveEdgesInside /\ LiveEdgesWhole /\ InOrder /\ TreesAgree /\ PlacesKept
    BY <1>1 DEF MergeInv, IInv
  <2>2. n \in DOMAIN trees /\ n \in Name
    <3>1. PICK i \in liveEdges : edges[i].target = n
      BY <2>1 DEF InOrder, Targets
    <3>2. edges[i] \in AdditiveEdge
      BY <2>1 DEF TypeOK, LiveEdgesInside
    <3> QED BY <2>1, <3>1, <3>2 DEF LiveEdgesInside, AdditiveEdge
  <2>3. trees[n][h] = Filled(n, h)
    BY <2>1, <2>2 DEF TreesAgree
  <2>4. I = InHole(n, h)
    BY <2>1, <2>2 DEF ContributionIndices, InHole, LiveEdgesInside, LiveEdgesWhole
  <2>5. IsFiniteSet(I) /\ Orders(I) /\ DOMAIN order = 1 .. Cardinality(I)
    BY <2>1, ContributionsSorted
  <2>6. Listed(list, I)
    BY <2>1, <2>2, <2>4 DEF PlacesKept
  <2> HIDE DEF I, list
  <2>7. /\ Len(list) \in Nat /\ DOMAIN list = 1 .. Len(list)
        /\ list \in [1 .. Len(list) -> I]
        /\ \A i \in I : \E k \in 1 .. Len(list) : list[k] = i
        /\ \A j, k \in 1 .. Len(list) : j < k => Earlier(list[j], list[k])
    BY <2>6 DEF Listed
  <2>8. Len(list) = Cardinality(I) /\ \A k \in 1 .. Len(list) : Sorted(I)[k] = list[k]
    BY <2>5, <2>7, SortedIsTheList
  <2>9. order = Sorted(I)
    BY DEF Contributions, I
  <2>10. /\ DOMAIN trees[n][h] = DOMAIN order
         /\ \A k \in DOMAIN order : trees[n][h][k].source = edges[order[k]].source
    BY <2>3 DEF Filled
  <2> HIDE DEF order
  <2> QED BY <2>5, <2>7, <2>8, <2>9, <2>10 DEF list
<1> QED BY <1>1, MergeInvariance, PTL

(* When the build ends no tree holds a copy that was taken too early.       *)
THEOREM RootsEndExpanded == MergeSpec => []RootsFullyExpanded
<1>1. ASSUME MergeInv, phase = "built", NEW n \in DOMAIN trees
      PROVE  trees[n] = [h \in Hole |-> Filled(n, h)]
  <2>1. TypeOK /\ LiveEdgesInside /\ TreesAgree /\ Targets \subseteq resolved
    BY <1>1 DEF MergeInv, IInv, InOrder
  <2>2. CASE n \in resolved
    BY <2>1, <2>2 DEF TreesAgree
  <2>3. CASE n \notin resolved
    <3>1. \A h \in Hole : ContributionIndices(n, h) = {}
      BY <2>1, <2>3 DEF ContributionIndices, Targets
    <3>2. \A h \in Hole : DOMAIN Contributions(n, h) = {}
      <4> TAKE h \in Hole
      <4>1. DOMAIN Contributions(n, h) = 1 .. Cardinality(ContributionIndices(n, h))
        BY <2>1, ContributionsSorted
      <4>2. Cardinality(ContributionIndices(n, h)) = 0
        BY <3>1, FS_EmptySet
      <4> QED BY <4>1, <4>2
    <3>3. \A h \in Hole : Filled(n, h) = <<>>
      BY <3>2 DEF Filled
    <3> QED BY <2>1, <2>3, <3>3 DEF TreesAgree, EmptyTree
  <2> QED BY <2>2, <2>3
<1>2. MergeInv => RootsFullyExpanded
  BY <1>1 DEF RootsFullyExpanded
<1> QED BY <1>2, MergeInvariance, PTL

-----------------------------------------------------------------------------
(* T gives every live instance a tree whose holes hold copies of T's trees. *)
Expansion(T) ==
    \A n \in DOMAIN T : T[n] =
        [h \in Hole |->
            LET order == Contributions(n, h)
            IN  [k \in DOMAIN order |->
                    [source |-> edges[order[k]].source,
                     tree   |-> T[edges[order[k]].source]]]]

(* The equation RootsFullyExpanded states has one solution: what build()    *)
(* returns is THE expansion of its roots, so it depends on the graph only   *)
(* and not on the order in which a round's targets were taken.              *)
OneExpansion ==
    phase = "built" =>
        \A T : DOMAIN T = DOMAIN trees /\ Expansion(T) =>
                  \A n \in DOMAIN trees : T[n] = trees[n]

(* Were there another, one of the instances on which it differs from the    *)
(* result would have no source among them, and so would not differ.         *)
THEOREM ExpansionIsUnique == MergeSpec => []OneExpansion
<1>1. ASSUME MergeInv, RootsFullyExpanded, phase = "built",
             NEW T, DOMAIN T = DOMAIN trees, Expansion(T)
      PROVE  \A n \in DOMAIN trees : T[n] = trees[n]
  <2>1. IInv /\ TypeOK /\ LiveEdgesInside
    BY <1>1 DEF MergeInv, IInv
  <2> DEFINE S == {n \in DOMAIN trees : T[n] # trees[n]}
             agree(n) == \A i \in liveEdges : edges[i].target = n => edges[i].source \notin S
  <2>2. ASSUME NEW n \in S, agree(n) PROVE FALSE
    <3>1. ASSUME NEW h
          PROVE  Filled(n, h) = LET order == Contributions(n, h)
                                IN  [k \in DOMAIN order |->
                                        [source |-> edges[order[k]].source,
                                         tree   |-> T[edges[order[k]].source]]]
      <4>1. \A i \in ContributionIndices(n, h) :
               T[edges[i].source] = trees[edges[i].source]
        BY <2>1, <2>2 DEF ContributionIndices, LiveEdgesInside
      <4> QED BY <2>1, <4>1, FilledDependsOn
    <3>2. trees[n] = [h \in Hole |-> Filled(n, h)]
      BY <1>1 DEF RootsFullyExpanded
    <3>3. T[n] = trees[n]
      BY <1>1, <3>1, <3>2 DEF Expansion
    <3> QED BY <3>3
  <2>3. S \cap Targets = {}
    <3> SUFFICES ASSUME S \cap Targets # {} PROVE FALSE
      OBVIOUS
    <3>1. /\ liveEdges \in SUBSET DOMAIN edges
          /\ S \cap Targets \in SUBSET {edges[i].target : i \in liveEdges}
      BY <2>1 DEF LiveEdgesInside, Targets
    <3>2. PICK n \in S \cap Targets : \A i \in liveEdges :
                 edges[i].target = n => edges[i].source \notin S \cap Targets
      BY <2>1, <3>1, SomeWaitsForNone
    <3>3. S \subseteq Targets
      <4> SUFFICES ASSUME NEW m \in S, m \notin Targets PROVE FALSE
        OBVIOUS
      <4>1. agree(m)
        BY DEF Targets
      <4> QED BY <2>2, <4>1
    <3> QED BY <2>2, <3>2, <3>3
  <2>4. S = {}
    <3> SUFFICES ASSUME NEW m \in S PROVE FALSE
      OBVIOUS
    <3>1. agree(m)
      BY <2>3 DEF Targets
    <3> QED BY <2>2, <3>1
  <2> QED BY <2>4
<1>2. MergeInv /\ RootsFullyExpanded => OneExpansion
  BY <1>1 DEF OneExpansion
<1> QED BY <1>2, MergeInvariance, RootsEndExpanded, PTL
=============================================================================
