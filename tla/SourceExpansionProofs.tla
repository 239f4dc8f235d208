----------------------- MODULE SourceExpansionProofs -----------------------
(***************************************************************************)
(* The expansion of a piece, for any sources, values and meanings of       *)
(* expressions.  STRUCTURE holds of every source: a key of the tree names  *)
(* iterations of loops that were expanded, everything around it is in the  *)
(* tree, and the path of a hole counts its iterations.  FAITHFUL holds of  *)
(* careful sources: what is known of a read is its meaning as far as names *)
(* are bound and loops expanded, and no copy is missing.                   *)
(***************************************************************************)
EXTENDS SourceExpansion, SequenceTheorems, FiniteSetTheorems, WellFoundedInduction, TLAPS

IsKey(k) ==
    /\ k = Key(k.line, [m \in DOMAIN k.turn |-> k.turn[m]])
    /\ k.line \in Lines
    /\ DOMAIN k.turn \subseteq MarkerLoops(k.line)

IsEntry(e) == e = [known |-> e.known, path |-> e.path, refs |-> e.refs]

(* The iterations a key names were run. *)
Placed(k) ==
    \A m \in DOMAIN k.turn :
        /\ Within(k, m) \in DOMAIN domains
        /\ k.turn[m] \in DOMAIN domains[Within(k, m)]

TreeStands ==
    \A k \in DOMAIN tree :
        /\ IsKey(k) /\ IsEntry(tree[k]) /\ Placed(k)
        /\ k \notin DOMAIN domains
        /\ \A m \in At(k).around \ DOMAIN k.turn : Within(k, m) \in DOMAIN tree
        /\ At(k).kind = "hole" =>
              /\ \E S : tree[k].path \in Seq(S)
              /\ Numbers(tree[k].path, k.turn)

DomainsStand ==
    \A d \in DOMAIN domains :
        /\ IsKey(d) /\ Placed(d)
        /\ At(d).kind = "astichi_for"
        /\ DOMAIN d.turn = MarkerLoops(d.line)

Structure == source \in Sources /\ TreeStands /\ DomainsStand

-----------------------------------------------------------------------------
(* Lines and keys. *)

LEMMA LinesNest ==
    ASSUME source \in Sources, NEW l \in Lines
    PROVE  /\ l \in Nat
           /\ \A m \in source[l].around :
                 /\ m \in Lines /\ m \in Nat /\ m < l
                 /\ source[m].kind \in Blocks
                 /\ source[m].around = {n \in source[l].around : n < m}
                 /\ MarkerLoops(m) = {n \in MarkerLoops(l) : n < m}
           /\ source[l].around \subseteq 1 .. l
<1>1. source \in Seq(Range(source)) /\ WellFormed(source)
  BY SourcesAssumption
<1>2. Lines = 1 .. Len(source) /\ Len(source) \in Nat
  BY <1>1 DEF Lines
<1>3. source[l].around \subseteq 1 .. l - 1
  BY <1>1 DEF WellFormed, Lines
<1>4. \A m \in source[l].around : source[m].kind \in Blocks /\ source[m].around = {n \in source[l].around : n < m}
  BY <1>1 DEF WellFormed, Lines
<1>5. \A m \in source[l].around : MarkerLoops(m) = {n \in MarkerLoops(l) : n < m}
  BY <1>4 DEF MarkerLoops
<1> QED BY <1>2, <1>3, <1>4, <1>5

LEMMA SameKey ==
    ASSUME NEW k, NEW o, IsKey(k), IsKey(o), k.line = o.line, DOMAIN k.turn = DOMAIN o.turn,
           \A m \in DOMAIN k.turn : k.turn[m] = o.turn[m]
    PROVE  k = o
<1>1. [m \in DOMAIN k.turn |-> k.turn[m]] = [m \in DOMAIN o.turn |-> o.turn[m]]
  OBVIOUS
<1> QED BY <1>1 DEF IsKey

LEMMA WithinIs ==
    ASSUME source \in Sources, NEW k, IsKey(k), NEW m \in At(k).around
    PROVE  /\ IsKey(Within(k, m))
           /\ Within(k, m).line = m
           /\ DOMAIN Within(k, m).turn = DOMAIN k.turn \cap MarkerLoops(m)
           /\ \A n \in DOMAIN k.turn \cap MarkerLoops(m) : Within(k, m).turn[n] = k.turn[n]
<1>1. m \in Lines
  BY LinesNest DEF IsKey, At
<1>2. /\ Within(k, m).line = m
      /\ Within(k, m).turn = [n \in DOMAIN k.turn \cap MarkerLoops(m) |-> k.turn[n]]
  BY DEF Within, Key, Restrict
<1>3. Within(k, m) = Key(m, [n \in DOMAIN Within(k, m).turn |-> Within(k, m).turn[n]])
  BY <1>2 DEF Within, Key, Restrict
<1> QED BY <1>1, <1>2, <1>3 DEF IsKey

LEMMA WithinWithin ==
    ASSUME source \in Sources, NEW k, IsKey(k), NEW m \in At(k).around, NEW n \in source[m].around
    PROVE  n \in At(k).around /\ Within(Within(k, m), n) = Within(k, n)
<1>0. k.line \in Lines /\ At(k) = source[k.line] /\ m \in Lines
  BY LinesNest DEF IsKey, At
<1>1. n \in At(k).around
  BY <1>0, LinesNest
<1>2. MarkerLoops(n) \subseteq MarkerLoops(m)
  BY <1>0, LinesNest
<1>3. /\ Within(k, m).turn = [j \in DOMAIN k.turn \cap MarkerLoops(m) |-> k.turn[j]]
  BY DEF Within, Key, Restrict
<1>4. DOMAIN Within(k, m).turn \cap MarkerLoops(n) = DOMAIN k.turn \cap MarkerLoops(n)
  BY <1>2, <1>3
<1>5. Restrict(Within(k, m).turn, DOMAIN Within(k, m).turn \cap MarkerLoops(n))
        = Restrict(k.turn, DOMAIN k.turn \cap MarkerLoops(n))
  BY <1>2, <1>3, <1>4 DEF Restrict
<1> QED BY <1>1, <1>5 DEF Within

(* The iterations a key names are those of the outermost loops.             *)
LEMMA TurnsOutermost ==
    ASSUME Structure, NEW k, IsKey(k), Placed(k), NEW m \in DOMAIN k.turn
    PROVE  MarkerLoops(m) \subseteq DOMAIN k.turn
<1>1. source \in Sources /\ m \in At(k).around
  BY DEF Structure, IsKey, MarkerLoops, At
<1>2. DOMAIN Within(k, m).turn = DOMAIN k.turn \cap MarkerLoops(m) /\ Within(k, m).line = m
  BY <1>1, WithinIs
<1>3. DOMAIN Within(k, m).turn = MarkerLoops(m)
  BY <1>2 DEF Structure, DomainsStand, Placed
<1> QED BY <1>2, <1>3

LEMMA AroundIs ==
    ASSUME source \in Sources, NEW k, IsKey(k), NEW a
    PROVE  a \in Around(k) <=> a.line \in At(k).around \ DOMAIN k.turn /\ a = Within(k, a.line)
<1>1. \A m \in At(k).around : Within(k, m).line = m
  BY WithinIs
<1> QED BY <1>1 DEF Around

(* The source does not change, and what is defined by it alone does not.    *)
LEMMA SourceKept ==
    ASSUME source' = source
    PROVE  /\ Lines' = Lines
           /\ \A l : MarkerLoops(l)' = MarkerLoops(l)
           /\ \A k : At(k)' = At(k) /\ (IsKey(k)' <=> IsKey(k))
           /\ \A k, m : Within(k, m)' = Within(k, m)
<1>1. Lines' = Lines /\ \A l : MarkerLoops(l)' = MarkerLoops(l)
  BY DEF Lines, MarkerLoops
<1>2. \A k : At(k)' = At(k)
  BY DEF At
<1>3. \A k : IsKey(k)' <=> IsKey(k)
  BY <1>1 DEF IsKey, Key
<1>4. \A k, m : Within(k, m)' = Within(k, m)
  BY <1>1 DEF Within, Key, Restrict
<1> QED BY <1>1, <1>2, <1>3, <1>4

-----------------------------------------------------------------------------
(* What the two actions that rewrite the tree make of it. *)

LEMMA BindShape ==
    ASSUME Structure, NEW names,
           tree' = [k \in {o \in DOMAIN tree : ~Satisfied(o, names)} |-> BindStatement(k, names)]
    PROVE  /\ DOMAIN tree' \subseteq DOMAIN tree
           /\ \A k \in DOMAIN tree \ DOMAIN tree' : Satisfied(k, names)
           /\ \A k \in DOMAIN tree' :
                 /\ ~Satisfied(k, names)
                 /\ IsEntry(tree'[k])
                 /\ tree'[k].known = Substitute(k, Without(Restrict(Value, names), Shadow(k)))
                 /\ tree'[k].path = tree[k].path
                 /\ tree'[k].refs = tree[k].refs
<1>1. \A k \in DOMAIN tree' : k \in DOMAIN tree /\ ~Satisfied(k, names) /\ tree'[k] = BindStatement(k, names)
  OBVIOUS
<1>2. \A k \in DOMAIN tree : IsEntry(tree[k])
  BY DEF Structure, TreeStands
<1>3. ASSUME NEW k \in DOMAIN tree'
      PROVE  /\ IsEntry(tree'[k])
             /\ tree'[k].known = Substitute(k, Without(Restrict(Value, names), Shadow(k)))
             /\ tree'[k].path = tree[k].path
             /\ tree'[k].refs = tree[k].refs
  <2>1. tree'[k] = [tree[k] EXCEPT !.known = Substitute(k, Without(Restrict(Value, names), Shadow(k)))]
    BY <1>1, <1>3 DEF BindStatement
  <2>2. tree[k] = [known |-> tree[k].known, path |-> tree[k].path, refs |-> tree[k].refs]
    BY <1>1, <1>2, <1>3 DEF IsEntry
  <2> QED BY <2>1, <2>2 DEF IsEntry
<1> QED BY <1>1, <1>3

(* The next loop to expand has a key for each loop around it. *)
LEMMA OutermostIs ==
    ASSUME Structure, NEW a \in Outermost
    PROVE  /\ a \in DOMAIN tree /\ IsKey(a) /\ Placed(a) /\ a \notin DOMAIN domains
           /\ a.line \in Lines /\ a.line \in Nat
           /\ At(a) = source[a.line] /\ source[a.line].kind = "astichi_for"
           /\ DOMAIN a.turn = MarkerLoops(a.line)
<1>1. a \in DOMAIN tree /\ IsKey(a) /\ Placed(a) /\ a \notin DOMAIN domains
  BY DEF Outermost, ToExpand, Structure, TreeStands
<1> QED BY <1>1, LinesNest DEF Outermost, ToExpand, IsKey, Structure, At

(* What is in the body of a loop has been copied for the same iterations,   *)
(* of the loops around that loop.                                           *)
LEMMA BodyIs ==
    ASSUME Structure, NEW a \in Outermost, NEW o \in Body(a)
    PROVE  /\ o \in DOMAIN tree /\ IsKey(o) /\ Placed(o)
           /\ a.line \in MarkerLoops(o.line) \ DOMAIN o.turn
           /\ Within(o, a.line) = a
           /\ DOMAIN o.turn = MarkerLoops(a.line)
           /\ \A m \in DOMAIN o.turn : m \in Nat /\ m < a.line
<1>1. o \in DOMAIN tree /\ IsKey(o) /\ Placed(o) /\ a \in Around(o) /\ source \in Sources
  BY DEF Body, Structure, TreeStands
<1>2. a.line \in At(o).around \ DOMAIN o.turn /\ Within(o, a.line) = a
  BY <1>1, AroundIs
<1>3. At(o) = source[o.line] /\ o.line \in Lines
  BY <1>1 DEF At, IsKey
<1>4. a.line \in MarkerLoops(o.line)
  BY <1>2, <1>3, OutermostIs DEF MarkerLoops
<1>5. MarkerLoops(a.line) \subseteq DOMAIN o.turn
  BY <1>1, <1>2, WithinIs, OutermostIs
<1>6. ASSUME NEW m \in DOMAIN o.turn
      PROVE  m \in Nat /\ m < a.line /\ m \in MarkerLoops(a.line)
  <2>1. m \in MarkerLoops(o.line) /\ m \in source[o.line].around /\ m \in Nat
    BY <1>1, <1>3, LinesNest DEF IsKey, MarkerLoops
  <2>2. MarkerLoops(m) \subseteq DOMAIN o.turn
    BY <1>1, TurnsOutermost
  <2>3. ~(a.line < m)
    <3>1. SUFFICES ASSUME a.line < m PROVE FALSE
      OBVIOUS
    <3>2. a.line \in MarkerLoops(m)
      BY <1>1, <1>3, <1>4, <2>1, <3>1, LinesNest
    <3> QED BY <1>2, <2>2, <3>2
  <2>4. m # a.line
    BY <1>2
  <2>5. m < a.line
    BY <2>1, <2>3, <2>4, OutermostIs
  <2> QED BY <1>1, <1>2, <1>3, <2>1, <2>5, LinesNest
<1> QED BY <1>1, <1>2, <1>4, <1>5, <1>6

LEMMA CopyIs ==
    ASSUME Structure, NEW a \in Outermost, NEW o \in Body(a), NEW i, NEW k, k = CopyKey(o, a, i)
    PROVE  /\ IsKey(k) /\ k.line = o.line /\ DOMAIN k.turn = DOMAIN o.turn \cup {a.line}
           /\ k.turn[a.line] = i
           /\ \A m \in DOMAIN o.turn : k.turn[m] = o.turn[m]
           /\ \A m \in At(k).around :
                 /\ a.line \in source[m].around => Within(k, m) = CopyKey(Within(o, m), a, i)
                 /\ a.line \notin source[m].around => Within(k, m) = Within(o, m)
           /\ Within(k, a.line) = a
           /\ k \notin DOMAIN tree /\ k \notin DOMAIN domains
<1>o. /\ IsKey(o) /\ o.line \in Lines /\ source \in Sources
      /\ o = Key(o.line, [m \in DOMAIN o.turn |-> o.turn[m]])
  BY BodyIs DEF IsKey, Structure
<1>1. k.line = o.line /\ k.turn = [m \in DOMAIN o.turn \cup {a.line} |-> IF m = a.line THEN i ELSE o.turn[m]]
  BY DEF CopyKey, Key
<1>2. k = Key(k.line, [m \in DOMAIN k.turn |-> k.turn[m]])
  BY <1>1 DEF CopyKey, Key
<1>3. DOMAIN k.turn = DOMAIN o.turn \cup {a.line} /\ DOMAIN k.turn \subseteq MarkerLoops(k.line)
  <2>1. a.line \in MarkerLoops(o.line) /\ DOMAIN o.turn \subseteq MarkerLoops(o.line)
    BY <1>o, BodyIs DEF IsKey
  <2> QED BY <1>1, <2>1
<1>4. IsKey(k) /\ At(k) = At(o)
  BY <1>1, <1>2, <1>3, <1>o DEF IsKey, At
<1>5. k.turn[a.line] = i /\ \A m \in DOMAIN o.turn : k.turn[m] = o.turn[m]
  BY <1>1, BodyIs
<1>7. ASSUME NEW m \in At(k).around
      PROVE  /\ a.line \in source[m].around => Within(k, m) = CopyKey(Within(o, m), a, i)
             /\ a.line \notin source[m].around => Within(k, m) = Within(o, m)
  <2>1. a.line \in source[m].around <=> a.line \in MarkerLoops(m)
    BY OutermostIs DEF MarkerLoops
  <2>2. Within(o, m) = Key(m, [n \in DOMAIN o.turn \cap MarkerLoops(m) |-> o.turn[n]])
    BY DEF Within, Restrict
  <2>3. Within(k, m) = Key(m, [n \in DOMAIN k.turn \cap MarkerLoops(m) |-> k.turn[n]])
    BY DEF Within, Restrict
  <2>4. CASE a.line \notin MarkerLoops(m)
    <3>1. DOMAIN k.turn \cap MarkerLoops(m) = DOMAIN o.turn \cap MarkerLoops(m)
      BY <1>3, <2>4
    <3>2. [n \in DOMAIN k.turn \cap MarkerLoops(m) |-> k.turn[n]] = [n \in DOMAIN o.turn \cap MarkerLoops(m) |-> o.turn[n]]
      BY <1>5, <3>1
    <3> QED BY <2>1, <2>2, <2>3, <2>4, <3>2
  <2>5. CASE a.line \in MarkerLoops(m)
    <3> DEFINE w == Within(o, m)
    <3>1. w.line = m /\ w.turn = [n \in DOMAIN o.turn \cap MarkerLoops(m) |-> o.turn[n]]
      BY <2>2 DEF Key
    <3>2. DOMAIN k.turn \cap MarkerLoops(m) = DOMAIN w.turn \cup {a.line}
      BY <1>3, <2>5, <3>1
    <3>3. CopyKey(w, a, i) = Key(m, [n \in DOMAIN w.turn \cup {a.line} |-> IF n = a.line THEN i ELSE w.turn[n]])
      BY <3>1 DEF CopyKey
    <3>4. [n \in DOMAIN w.turn \cup {a.line} |-> IF n = a.line THEN i ELSE w.turn[n]]
            = [n \in DOMAIN k.turn \cap MarkerLoops(m) |-> k.turn[n]]
      <4> HIDE DEF w
      <4>1. \A n \in DOMAIN w.turn : w.turn[n] = k.turn[n] /\ n # a.line
        BY <3>1, <1>5, BodyIs DEF w
      <4> QED BY <3>2, <4>1, <1>5
    <3> QED BY <2>1, <2>3, <2>5, <3>3, <3>4
  <2> QED BY <2>4, <2>5
<1>8. Within(k, a.line) = a
  <2>1. a.line \in At(k).around /\ a.line \notin source[a.line].around
    BY <1>4, <1>o, BodyIs, OutermostIs, LinesNest DEF MarkerLoops, At
  <2> QED BY <1>7, <2>1, BodyIs
<1>9. k \notin DOMAIN tree /\ k \notin DOMAIN domains
  <2>1. Placed(k) => a \in DOMAIN domains
    BY <1>3, <1>8 DEF Placed
  <2> QED BY <2>1, OutermostIs DEF Structure, TreeStands, DomainsStand
<1> QED BY <1>1, <1>3, <1>4, <1>5, <1>7, <1>8, <1>9

(* The copy determines the statement it was made of. *)
LEMMA OriginalIs ==
    ASSUME Structure, NEW a \in Outermost, NEW o \in Body(a), NEW i
    PROVE  LET k == CopyKey(o, a, i) IN Key(k.line, Without(k.turn, {a.line})) = o
<1> DEFINE k == CopyKey(o, a, i)
<1>1. k.line = o.line /\ DOMAIN k.turn = DOMAIN o.turn \cup {a.line} /\ \A m \in DOMAIN o.turn : k.turn[m] = o.turn[m]
  BY CopyIs
<1>2. o = Key(o.line, [m \in DOMAIN o.turn |-> o.turn[m]])
  BY BodyIs DEF IsKey
<1> HIDE DEF k
<1>3. DOMAIN k.turn \ {a.line} = DOMAIN o.turn
  BY <1>1, BodyIs
<1>4. Without(k.turn, {a.line}) = [m \in DOMAIN o.turn |-> o.turn[m]]
  BY <1>1, <1>3 DEF Without, Restrict
<1>5. Key(k.line, Without(k.turn, {a.line})) = o
  BY <1>1, <1>2, <1>4
<1> QED BY <1>5 DEF k

(* What a loop being expanded does not concern. *)
Rest(a) == DOMAIN tree \ ({a} \cup Body(a))

LEMMA RestStands ==
    ASSUME Structure, NEW a \in Outermost, NEW k \in Rest(a)
    PROVE  /\ k \in DOMAIN tree /\ k # a /\ IsKey(k)
           /\ a.line \in MarkerLoops(k.line) \ DOMAIN k.turn => Within(k, a.line) # a
           /\ \A m \in At(k).around \ DOMAIN k.turn : Within(k, m) \in Rest(a)
<1>1. k \in DOMAIN tree /\ k # a /\ k \notin Body(a) /\ IsKey(k) /\ source \in Sources
  BY DEF Rest, Structure, TreeStands
<1>2. a \notin Around(k)
  BY <1>1 DEF Body
<1>3. ~(a.line \in At(k).around \ DOMAIN k.turn /\ Within(k, a.line) = a)
  BY <1>1, <1>2, AroundIs
<1>4. ASSUME NEW m \in At(k).around \ DOMAIN k.turn
      PROVE  Within(k, m) \in Rest(a)
  <2> DEFINE w == Within(k, m)
  <2>1. w \in DOMAIN tree
    BY <1>1 DEF Structure, TreeStands
  <2>2. IsKey(w) /\ w.line = m /\ DOMAIN w.turn = DOMAIN k.turn \cap MarkerLoops(m) /\ At(w) = source[m]
    BY <1>1, WithinIs DEF At
  <2>3. w # a
    BY <1>3, <2>2
  <2>4. w \notin Body(a)
    <3>1. SUFFICES ASSUME w \in Body(a) PROVE FALSE
      OBVIOUS
    <3>2. a.line \in MarkerLoops(w.line) \ DOMAIN w.turn /\ Within(w, a.line) = a
      BY <3>1, BodyIs
    <3>3. a.line \in source[m].around
      BY <2>2, <3>2 DEF MarkerLoops
    <3>4. a.line \in At(k).around /\ Within(k, a.line) = a
      BY <1>1, <3>2, <3>3, WithinWithin
    <3> QED BY <1>3, <2>2, <3>2, <3>4
  <2> QED BY <2>1, <2>3, <2>4 DEF Rest
<1> QED BY <1>1, <1>3, <1>4 DEF MarkerLoops, At

LEMMA ExpandShape ==
    ASSUME Structure, NEW a \in Outermost, tree' = Expanded(a)
    PROVE  /\ \A k \in DOMAIN tree' :
                 \/ k \in Rest(a)
                 \/ \E o \in Body(a), i \in DOMAIN Run(a) : k = CopyKey(o, a, i)
           /\ \A k \in Rest(a) : k \in DOMAIN tree' /\ tree'[k] = tree[k]
           /\ \A o \in Body(a), i \in DOMAIN Run(a) :
                 /\ CopyKey(o, a, i) \in DOMAIN tree'
                 /\ tree'[CopyKey(o, a, i)] = CopyStatement(o, a, i)
<1> DEFINE copies == {CopyKey(p[1], a, p[2]) : p \in Body(a) \X DOMAIN Run(a)}
           original(k) == Key(k.line, Without(k.turn, {a.line}))
<1>1. tree' = [k \in Rest(a) \cup copies |->
                  IF k \in Rest(a) THEN tree[k] ELSE CopyStatement(original(k), a, k.turn[a.line])]
  BY DEF Expanded, Rest
<1>2. \A k \in copies : \E o \in Body(a), i \in DOMAIN Run(a) : k = CopyKey(o, a, i)
  OBVIOUS
<1>3. ASSUME NEW o \in Body(a), NEW i \in DOMAIN Run(a)
      PROVE  /\ CopyKey(o, a, i) \in DOMAIN tree'
             /\ tree'[CopyKey(o, a, i)] = CopyStatement(o, a, i)
  <2> DEFINE k == CopyKey(o, a, i)
  <2>1. k \in copies
    <3>1. <<o, i>> \in Body(a) \X DOMAIN Run(a)
      OBVIOUS
    <3> QED BY <3>1
  <2>2. original(k) = o /\ k.turn[a.line] = i /\ k \notin Rest(a)
    <3>1. original(k) = o
      BY OriginalIs
    <3>2. k.turn[a.line] = i /\ k \notin DOMAIN tree
      BY CopyIs
    <3> QED BY <3>1, <3>2 DEF Rest
  <2> HIDE DEF copies, original, k
  <2>3. k \in DOMAIN tree' /\ tree'[k] = CopyStatement(original(k), a, k.turn[a.line])
    BY <1>1, <2>1, <2>2
  <2> QED BY <2>2, <2>3 DEF k
<1>4. \A k \in Rest(a) : k \in DOMAIN tree' /\ tree'[k] = tree[k]
  <2> HIDE DEF copies
  <2> QED BY <1>1
<1>5. DOMAIN tree' = Rest(a) \cup copies
  <2> HIDE DEF copies, original
  <2> QED BY <1>1
<1> QED BY <1>2, <1>3, <1>4, <1>5

-----------------------------------------------------------------------------
(* STRUCTURE is an invariant. *)

(* A name counts the iterations with one more inside. *)
LEMMA NumbersAppend ==
    ASSUME source \in Sources, NEW l \in Lines, NEW turn, DOMAIN turn \subseteq 1 .. l, NEW n \in 1 .. l,
           \A m \in DOMAIN turn : m < n, NEW more, DOMAIN more = DOMAIN turn \cup {n},
           \A m \in DOMAIN turn : more[m] = turn[m],
           NEW S, NEW path \in Seq(S), Numbers(path, turn)
    PROVE  Numbers(Append(path, more[n]), more)
<1> DEFINE upTo(t, m) == {j \in DOMAIN t : j <= m}
<1>1. l \in Nat /\ n \notin DOMAIN turn
  BY LinesNest
<1>2. IsFiniteSet(DOMAIN turn)
  <2>1. 1 \in Int /\ l \in Int /\ DOMAIN turn \in SUBSET (1 .. l)
    BY <1>1
  <2>2. IsFiniteSet(1 .. l)
    BY <2>1, FS_Interval
  <2> QED BY ONLY <2>1, <2>2, FS_Subset
<1>3. Len(path) = Cardinality(DOMAIN turn)
  BY DEF Numbers
<1>4. Cardinality(DOMAIN more) = Len(path) + 1
  <2>1. Cardinality(DOMAIN turn \cup {n}) = Cardinality(DOMAIN turn) + 1
    BY ONLY <1>1, <1>2, FS_AddElement
  <2> QED BY <1>3, <2>1
<1>5. Len(Append(path, more[n])) = Len(path) + 1 /\ Len(path) \in Nat
  OBVIOUS
<1>6. upTo(more, n) = DOMAIN more
  BY <1>1
<1>7. ASSUME NEW m \in DOMAIN turn
      PROVE  Append(path, more[n])[Cardinality(upTo(more, m))] = more[m]
  <2>1. upTo(more, m) = upTo(turn, m)
    BY <1>1
  <2>2. upTo(turn, m) \subseteq DOMAIN turn /\ m \in upTo(turn, m)
    OBVIOUS
  <2>3. IsFiniteSet(upTo(turn, m)) /\ Cardinality(upTo(turn, m)) <= Len(path)
    BY <1>2, <1>3, <2>2, FS_Subset
  <2>4. Cardinality(upTo(turn, m)) \in Nat /\ Cardinality(upTo(turn, m)) # 0
    BY <2>2, <2>3, FS_CardinalityType, FS_EmptySet
  <2>5. path[Cardinality(upTo(turn, m))] = turn[m]
    BY DEF Numbers
  <2> HIDE DEF upTo
  <2> QED BY <1>5, <2>1, <2>3, <2>4, <2>5
<1>8. Append(path, more[n])[Cardinality(upTo(more, n))] = more[n]
  <2> HIDE DEF upTo
  <2>1. Append(path, more[n])[Len(path) + 1] = more[n]
    OBVIOUS
  <2> QED BY <1>4, <1>6, <2>1
<1> QED BY <1>4, <1>5, <1>7, <1>8 DEF Numbers

LEMMA StructureInit == Init => Structure
<1> SUFFICES ASSUME Init PROVE Structure
  OBVIOUS
<1>1. source \in Sources /\ DOMAIN domains = {}
  BY DEF Init
<1>2. ASSUME NEW k \in DOMAIN tree
      PROVE  /\ k = Key(k.line, NoTurn) /\ k.line \in Lines /\ k.turn = NoTurn
             /\ IsKey(k) /\ Placed(k) /\ IsEntry(tree[k]) /\ tree[k].path = <<>>
  <2>1. PICK l \in Lines : k = Key(l, NoTurn)
    BY DEF Init
  <2>2. k.line = l /\ k.turn = NoTurn
    BY <2>1 DEF Key
  <2>3. DOMAIN k.turn = {} /\ [m \in DOMAIN k.turn |-> k.turn[m]] = NoTurn
    BY <2>2 DEF NoTurn
  <2>4. tree[k] = [known |-> <<>>, path |-> <<>>, refs |-> <<>>]
    BY DEF Init
  <2> QED BY <2>1, <2>2, <2>3, <2>4 DEF IsKey, Placed, IsEntry
<1>3. ASSUME NEW k \in DOMAIN tree, NEW m \in At(k).around
      PROVE  Within(k, m) \in DOMAIN tree
  <2>1. m \in Lines
    BY <1>1, <1>2, LinesNest DEF At
  <2>2. Within(k, m) = Key(m, NoTurn)
    BY <1>2 DEF Within, Restrict, NoTurn
  <2> QED BY <2>1, <2>2 DEF Init
<1>4. \A k \in DOMAIN tree : Numbers(tree[k].path, k.turn)
  <2>1. DOMAIN NoTurn = {}
    BY DEF NoTurn
  <2>2. Numbers(<<>>, NoTurn)
    BY <2>1, FS_EmptySet DEF Numbers
  <2> QED BY <1>2, <2>2
<1>5. \A S : <<>> \in Seq(S)
  OBVIOUS
<1> QED BY <1>1, <1>2, <1>3, <1>4, <1>5 DEF Structure, TreeStands, DomainsStand

LEMMA StructureKept ==
    ASSUME Structure, UNCHANGED <<source, domains>>, DOMAIN tree' = DOMAIN tree,
           \A k \in DOMAIN tree : IsEntry(tree'[k]) /\ tree'[k].path = tree[k].path
    PROVE  Structure'
<1>1. \A k : (Placed(k)' <=> Placed(k)) /\ (IsKey(k)' <=> IsKey(k)) /\ At(k)' = At(k)
  BY SourceKept DEF Placed
<1>2. DomainsStand'
  BY <1>1, SourceKept DEF Structure, DomainsStand
<1>3. \A k : IsEntry(tree[k])' <=> IsEntry(tree'[k])
  BY DEF IsEntry
<1>4. \A k : Numbers(tree[k].path, k.turn)' <=> Numbers(tree'[k].path, k.turn)
  BY DEF Numbers
<1>5. TreeStands'
  BY <1>1, <1>3, <1>4, SourceKept DEF Structure, TreeStands
<1> QED BY <1>2, <1>5 DEF Structure

LEMMA StructureBind ==
    ASSUME Structure, NEW names, Bind(names)
    PROVE  Structure'
<1>1. CASE UNCHANGED <<source, tree, domains>>
  BY <1>1, StructureKept DEF Structure, TreeStands
<1>2. CASE /\ tree' = [k \in {o \in DOMAIN tree : ~Satisfied(o, names)} |-> BindStatement(k, names)]
           /\ UNCHANGED <<source, domains>>
  <2>1. \A k : (Placed(k)' <=> Placed(k)) /\ (IsKey(k)' <=> IsKey(k)) /\ At(k)' = At(k)
    BY <1>2, SourceKept DEF Placed
  <2>2. DomainsStand'
    BY <1>2, <2>1, SourceKept DEF Structure, DomainsStand
  <2>3. ASSUME NEW k \in DOMAIN tree', NEW m \in At(k).around \ DOMAIN k.turn
        PROVE  Within(k, m) \in DOMAIN tree'
    <3>1. k \in DOMAIN tree /\ IsKey(k) /\ Within(k, m) \in DOMAIN tree
      BY <1>2, BindShape DEF Structure, TreeStands
    <3>2. At(Within(k, m)).kind \in Blocks
      <4>1. source \in Sources /\ k.line \in Lines /\ m \in source[k.line].around
        BY <3>1 DEF Structure, IsKey, At
      <4>2. Within(k, m).line = m
        BY <3>1, <4>1, WithinIs
      <4>3. source[m].kind \in Blocks
        BY <4>1, LinesNest
      <4> QED BY <4>2, <4>3 DEF At
    <3>3. ~Satisfied(Within(k, m), names)
      BY <3>2 DEF Satisfied, IsExternal, Blocks, Scopes, Loops
    <3> QED BY <1>2, <3>1, <3>3, BindShape
  <2>4. TreeStands'
    <3> SUFFICES ASSUME NEW k \in DOMAIN tree'
                 PROVE  /\ IsKey(k)' /\ IsEntry(tree[k])' /\ Placed(k)'
                        /\ k \notin DOMAIN domains'
                        /\ \A m \in At(k)'.around \ DOMAIN k.turn : Within(k, m)' \in DOMAIN tree'
                        /\ At(k)'.kind = "hole" =>
                              /\ \E S : tree'[k].path \in Seq(S)
                              /\ Numbers(tree'[k].path, k.turn)
      BY DEF TreeStands, Numbers
    <3>1. k \in DOMAIN tree /\ IsEntry(tree'[k]) /\ tree'[k].path = tree[k].path
      BY <1>2, BindShape
    <3>2. IsEntry(tree[k])'
      BY <3>1 DEF IsEntry
    <3> QED BY <1>2, <2>1, <2>3, <3>1, <3>2, SourceKept DEF Structure, TreeStands
  <2> QED BY <1>2, <2>2, <2>4 DEF Structure
<1> QED BY <1>1, <1>2 DEF Bind, Refuse

(* The rest of the tree keeps its place when a loop is expanded. *)
LEMMA PlacedGrows ==
    ASSUME UNCHANGED source, DOMAIN domains \subseteq DOMAIN domains',
           \A d \in DOMAIN domains : domains'[d] = domains[d],
           NEW k, Placed(k)
    PROVE  Placed(k)'
BY SourceKept DEF Placed

LEMMA CopyPlaced ==
    ASSUME Structure, NEW a \in Outermost, NEW o \in Body(a), NEW i, UNCHANGED source,
           DOMAIN domains' = DOMAIN domains \cup {a}, i \in DOMAIN domains'[a],
           \A d \in DOMAIN domains : domains'[d] = domains[d]
    PROVE  Placed(CopyKey(o, a, i))'
<1> DEFINE k == CopyKey(o, a, i)
<1>0. k = CopyKey(o, a, i)
  OBVIOUS
<1> HIDE DEF k
<1>1. /\ IsKey(k) /\ DOMAIN k.turn = DOMAIN o.turn \cup {a.line} /\ k.turn[a.line] = i
      /\ \A m \in DOMAIN o.turn : k.turn[m] = o.turn[m]
      /\ \A m \in At(k).around : a.line \notin source[m].around => Within(k, m) = Within(o, m)
      /\ Within(k, a.line) = a
  BY <1>0, CopyIs
<1>2. Placed(o) /\ \A m \in DOMAIN o.turn : m \in Nat /\ m < a.line
  BY BodyIs
<1>3. ASSUME NEW m \in DOMAIN o.turn
      PROVE  Within(k, m) = Within(o, m)
  <2>1. m \in source[k.line].around /\ k.line \in Lines /\ source \in Sources
    BY <1>1 DEF IsKey, MarkerLoops, Structure
  <2>2. m \in Lines /\ a.line \notin source[m].around
    <3>1. m \in Lines
      BY <2>1, LinesNest
    <3>2. \A n \in source[m].around : n < m /\ n \in Nat
      BY <2>1, <3>1, LinesNest
    <3>3. m \in Nat /\ m < a.line /\ a.line \in Nat
      BY <1>2, OutermostIs
    <3> QED BY <3>1, <3>2, <3>3
  <2> QED BY <1>1, <2>1, <2>2 DEF At
<1>4. ASSUME NEW m \in DOMAIN k.turn
      PROVE  Within(k, m) \in DOMAIN domains' /\ k.turn[m] \in DOMAIN domains'[Within(k, m)]
  <2>1. CASE m = a.line
    BY <1>1, <2>1
  <2>2. CASE m \in DOMAIN o.turn
    BY <1>1, <1>2, <1>3, <2>2 DEF Placed
  <2> QED BY <1>1, <1>4, <2>1, <2>2
<1>5. Placed(k)'
  BY <1>4, SourceKept DEF Placed
<1> QED BY <1>5 DEF k

LEMMA CopyAround ==
    ASSUME Structure, NEW a \in Outermost, NEW o \in Body(a), NEW i \in DOMAIN Run(a), tree' = Expanded(a),
           NEW m \in At(CopyKey(o, a, i)).around \ DOMAIN CopyKey(o, a, i).turn
    PROVE  /\ a.line \in source[m].around =>
                 Within(o, m) \in Body(a) /\ Within(CopyKey(o, a, i), m) = CopyKey(Within(o, m), a, i)
           /\ a.line \notin source[m].around =>
                 Within(o, m) \in Rest(a) /\ Within(CopyKey(o, a, i), m) = Within(o, m)
           /\ Within(CopyKey(o, a, i), m) \in DOMAIN tree'
<1> DEFINE k == CopyKey(o, a, i)
           w == Within(o, m)
<1>0. k = CopyKey(o, a, i)
  OBVIOUS
<1> HIDE DEF k
<1>1. /\ At(k) = At(o) /\ m \in At(o).around \ DOMAIN o.turn /\ m # a.line
      /\ a.line \in source[m].around => Within(k, m) = CopyKey(w, a, i)
      /\ a.line \notin source[m].around => Within(k, m) = w
  <2>1. k.line = o.line /\ DOMAIN k.turn = DOMAIN o.turn \cup {a.line}
    BY <1>0, CopyIs
  <2>2. At(k) = At(o)
    BY <2>1 DEF At
  <2>3. \A n \in At(k).around :
            /\ a.line \in source[n].around => Within(k, n) = CopyKey(Within(o, n), a, i)
            /\ a.line \notin source[n].around => Within(k, n) = Within(o, n)
    BY <1>0, CopyIs
  <2> QED BY <1>0, <2>1, <2>2, <2>3
<1>2. /\ source \in Sources /\ o \in DOMAIN tree /\ IsKey(o) /\ Within(o, a.line) = a
      /\ a.line \in MarkerLoops(o.line) \ DOMAIN o.turn
      /\ w \in DOMAIN tree
  <2>1. o \in DOMAIN tree /\ IsKey(o) /\ Within(o, a.line) = a /\ a.line \in MarkerLoops(o.line) \ DOMAIN o.turn
    BY BodyIs
  <2> QED BY <1>1, <2>1 DEF Structure, TreeStands
<1>3. IsKey(w) /\ w.line = m /\ DOMAIN w.turn = DOMAIN o.turn \cap MarkerLoops(m) /\ At(w) = source[m]
  BY <1>1, <1>2, WithinIs DEF At
<1>4. CASE a.line \in source[m].around
  <2>1. Within(w, a.line) = a
    BY <1>1, <1>2, <1>4, WithinWithin
  <2>2. w \in Body(a)
    BY <1>2, <1>3, <1>4, <2>1, AroundIs DEF Body
  <2>3. CopyKey(w, a, i) \in DOMAIN tree'
    BY <2>2, ExpandShape
  <2> QED BY <1>1, <1>4, <2>2, <2>3 DEF k
<1>5. CASE a.line \notin source[m].around
  <2>1. w # a
    BY <1>1, <1>3
  <2>2. w \notin Body(a)
    BY <1>3, <1>5, BodyIs DEF MarkerLoops
  <2>3. w \in Rest(a)
    BY <1>2, <2>1, <2>2 DEF Rest
  <2>4. w \in DOMAIN tree'
    BY <2>3, ExpandShape
  <2> QED BY <1>1, <1>5, <2>3, <2>4 DEF k
<1> QED BY <1>4, <1>5

LEMMA CopyPath ==
    ASSUME Structure, NEW a \in Outermost, NEW o \in Body(a), NEW i
    PROVE  /\ IsEntry(CopyStatement(o, a, i))
           /\ At(o).kind = "hole" => CopyStatement(o, a, i).path = Append(tree[o].path, i)
           /\ CopyStatement(o, a, i).refs = tree[o].refs
           /\ LET values == BindTargets(At(a).vars, Run(a)[i])
              IN CopyStatement(o, a, i).known = Substitute(o, Without(values, CopyShadow(o, a, DOMAIN values)))
<1> DEFINE values == BindTargets(At(a).vars, Run(a)[i])
           new == Substitute(o, Without(values, CopyShadow(o, a, DOMAIN values)))
           path == IF At(o).kind = "hole" THEN Append(tree[o].path, i) ELSE tree[o].path
<1>1. tree[o] = [known |-> tree[o].known, path |-> tree[o].path, refs |-> tree[o].refs]
  BY BodyIs DEF Structure, TreeStands, IsEntry
<1>2. CopyStatement(o, a, i) = [tree[o] EXCEPT !.known = new, !.path = path]
  BY DEF CopyStatement
<1> HIDE DEF new, path
<1>3. CopyStatement(o, a, i) = [known |-> new, path |-> path, refs |-> tree[o].refs]
  BY <1>1, <1>2
<1> QED BY <1>3 DEF IsEntry, path, new

LEMMA StructureExpand ==
    ASSUME Structure, NEW a \in Outermost, Expand(a)
    PROVE  Structure'
<1>1. CASE UNCHANGED <<source, tree, domains>>
  BY <1>1, StructureKept DEF Structure, TreeStands
<1>2. CASE /\ tree' = Expanded(a)
           /\ domains' = [d \in DOMAIN domains \cup {a} |-> IF d = a THEN Run(a) ELSE domains[d]]
           /\ UNCHANGED source
  <2>1. /\ DOMAIN domains' = DOMAIN domains \cup {a} /\ domains'[a] = Run(a)
        /\ \A d \in DOMAIN domains : domains'[d] = domains[d]
    BY <1>2, OutermostIs
  <2>2. \A k : (IsKey(k)' <=> IsKey(k)) /\ At(k)' = At(k)
    BY <1>2, SourceKept
  <2>3. \A k : Placed(k) => Placed(k)'
    BY <1>2, <2>1, PlacedGrows
  <2>4. DomainsStand'
    <3>1. \A d \in DOMAIN domains' :
              IsKey(d) /\ Placed(d) /\ At(d).kind = "astichi_for" /\ DOMAIN d.turn = MarkerLoops(d.line)
      BY <2>1, OutermostIs DEF Structure, DomainsStand
    <3> QED BY <1>2, <2>2, <2>3, <3>1, SourceKept DEF DomainsStand
  <2>5. TreeStands'
    <3> SUFFICES ASSUME NEW k \in DOMAIN tree'
                 PROVE  /\ IsKey(k) /\ IsEntry(tree[k])' /\ Placed(k)'
                        /\ k \notin DOMAIN domains'
                        /\ \A m \in At(k).around \ DOMAIN k.turn : Within(k, m) \in DOMAIN tree'
                        /\ At(k).kind = "hole" =>
                              /\ \E S : tree'[k].path \in Seq(S)
                              /\ Numbers(tree'[k].path, k.turn)
      BY <1>2, <2>2, SourceKept DEF TreeStands, Numbers
    <3>1. CASE k \in Rest(a)
      <4>1. k \in DOMAIN tree /\ k # a /\ tree'[k] = tree[k]
        BY <1>2, <3>1, RestStands, ExpandShape
      <4>2. \A m \in At(k).around \ DOMAIN k.turn : Within(k, m) \in DOMAIN tree'
        BY <1>2, <3>1, RestStands, ExpandShape
      <4>3. IsEntry(tree[k])'
        BY <4>1 DEF Structure, TreeStands, IsEntry
      <4> QED BY <2>1, <2>3, <4>1, <4>2, <4>3 DEF Structure, TreeStands
    <3>2. ASSUME NEW o \in Body(a), NEW i \in DOMAIN Run(a), k = CopyKey(o, a, i)
          PROVE  /\ IsKey(k) /\ IsEntry(tree[k])' /\ Placed(k)'
                 /\ k \notin DOMAIN domains'
                 /\ \A m \in At(k).around \ DOMAIN k.turn : Within(k, m) \in DOMAIN tree'
                 /\ At(k).kind = "hole" =>
                       /\ \E S : tree'[k].path \in Seq(S)
                       /\ Numbers(tree'[k].path, k.turn)
      <4>1. IsKey(k) /\ k.line = o.line /\ k \notin DOMAIN domains
        BY <3>2, CopyIs
      <4>2. DOMAIN k.turn = DOMAIN o.turn \cup {a.line} /\ k.turn[a.line] = i /\ \A m \in DOMAIN o.turn : k.turn[m] = o.turn[m]
        BY <3>2, CopyIs
      <4>3. Placed(CopyKey(o, a, i))'
        BY <1>2, <2>1, CopyPlaced
      <4>4. k # a
        <5>1. a.line \notin DOMAIN a.turn
          BY BodyIs, OutermostIs
        <5> QED BY <4>2, <5>1
      <4>5. \A m \in At(k).around \ DOMAIN k.turn : Within(k, m) \in DOMAIN tree'
        BY <1>2, <3>2, CopyAround
      <4>6. tree'[k] = CopyStatement(o, a, i)
        BY <1>2, <3>2, ExpandShape
      <4>7. IsEntry(tree[k])'
        BY <4>6, CopyPath DEF IsEntry
      <4>8. ASSUME At(k).kind = "hole"
            PROVE  (\E S : tree'[k].path \in Seq(S)) /\ Numbers(tree'[k].path, k.turn)
        <5>1. At(o).kind = "hole" /\ o \in DOMAIN tree /\ o.line \in Lines
          BY <4>1, <4>8, BodyIs DEF At, IsKey
        <5>2. PICK S : tree[o].path \in Seq(S)
          BY <5>1 DEF Structure, TreeStands
        <5>3. Numbers(tree[o].path, o.turn)
          BY <5>1 DEF Structure, TreeStands
        <5>4. tree'[k].path = Append(tree[o].path, i)
          BY <4>6, <5>1, CopyPath
        <5>5. source \in Sources /\ o.line \in Nat /\ source[o.line].around \subseteq 1 .. o.line
          BY <5>1, LinesNest DEF Structure
        <5>6. DOMAIN o.turn \subseteq 1 .. o.line /\ a.line \in 1 .. o.line /\ \A m \in DOMAIN o.turn : m < a.line
          BY <5>5, BodyIs DEF IsKey, MarkerLoops
        <5>7. Numbers(Append(tree[o].path, k.turn[a.line]), k.turn)
          BY <4>2, <5>1, <5>2, <5>3, <5>5, <5>6, NumbersAppend
        <5>8. Append(tree[o].path, i) \in Seq(S \cup {i})
          BY <5>2
        <5> QED BY <4>2, <5>4, <5>7, <5>8
      <4> QED BY <2>1, <3>2, <4>1, <4>3, <4>4, <4>5, <4>7, <4>8
    <3> QED BY <1>2, <3>1, <3>2, ExpandShape
  <2> QED BY <1>2, <2>4, <2>5 DEF Structure
<1> QED BY <1>1, <1>2 DEF Expand, Refuse

LEMMA StructureNext == Structure /\ [Next]_vars => Structure'
<1> SUFFICES ASSUME Structure, [Next]_vars PROVE Structure'
  OBVIOUS
<1>0. \A k \in DOMAIN tree : IsEntry(tree[k])
  BY DEF Structure, TreeStands
<1>1. CASE UNCHANGED vars
  BY <1>0, <1>1, StructureKept DEF vars
<1>2. ASSUME NEW names, Bind(names) PROVE Structure'
  BY <1>2, StructureBind
<1>3. CASE Unroll \/ Unrolled
  BY <1>0, <1>3, StructureKept DEF Unroll, Unrolled
<1>4. ASSUME NEW a \in Outermost, Expand(a) PROVE Structure'
  BY <1>4, StructureExpand
<1>5. CASE Lower
  <2>1. CASE Refuse
    BY <1>0, <2>1, StructureKept DEF Refuse
  <2>2. CASE tree' = Lowered /\ UNCHANGED <<source, domains>>
    <3>1. DOMAIN tree' = DOMAIN tree
      BY <2>2 DEF Lowered
    <3>2. ASSUME NEW k \in DOMAIN tree
          PROVE  IsEntry(tree'[k]) /\ tree'[k].path = tree[k].path
      <4>1. tree'[k] = [tree[k] EXCEPT !.refs = PathValues(At(k).e, tree[k].known)]
        BY <2>2, <3>2 DEF Lowered
      <4>2. tree[k] = [known |-> tree[k].known, path |-> tree[k].path, refs |-> tree[k].refs]
        BY <1>0, <3>2 DEF IsEntry
      <4> QED BY <4>1, <4>2 DEF IsEntry
    <3> QED BY <2>2, <3>1, <3>2, StructureKept
  <2> QED BY <1>5, <2>1, <2>2 DEF Lower
<1> QED BY <1>1, <1>2, <1>3, <1>4, <1>5 DEF Next

(* A key of the tree names an iteration that was run of each loop it was   *)
(* copied for, and everything around it is in the tree with it; the path   *)
(* of a hole numbers its iterations, outermost loop first.                 *)
THEOREM TreesStand == Spec => []Structure
BY StructureInit, StructureNext, PTL DEF Spec

(* With nothing left to expand, what is in the tree has a turn of every     *)
(* loop around it.                                                          *)
LEMMA TreeTurned ==
    ASSUME Structure, ToExpand = {}, NEW k \in DOMAIN tree
    PROVE  DOMAIN k.turn = MarkerLoops(k.line) /\ source[k.line].kind # "astichi_for"
<1>1. IsKey(k) /\ k.line \in Lines /\ At(k) = source[k.line] /\ source \in Sources
  BY DEF Structure, TreeStands, IsKey, At
<1>2. ASSUME NEW m \in MarkerLoops(k.line), m \notin DOMAIN k.turn
      PROVE  FALSE
  <2>1. m \in At(k).around \ DOMAIN k.turn /\ source[m].kind = "astichi_for"
    BY <1>1, <1>2 DEF MarkerLoops
  <2>2. Within(k, m) \in DOMAIN tree /\ Within(k, m).line = m
    BY <1>1, <2>1, WithinIs DEF Structure, TreeStands
  <2> QED BY <2>1, <2>2 DEF ToExpand, At
<1>3. source[k.line].kind # "astichi_for"
  BY <1>1 DEF ToExpand
<1> QED BY <1>1, <1>2, <1>3 DEF IsKey

(* HOLESADDRESSABLE: two holes of one name are copies of one line; with    *)
(* nothing left to expand each numbers an iteration of every loop around   *)
(* that line, so equal paths are equal iterations.                         *)
THEOREM HolesAreAddressable == Spec => []HolesAddressable
<1>1. Structure => HolesAddressable
  <2> SUFFICES ASSUME Structure, ToExpand = {},
                      \A l, m \in OfKind("hole") : source[l].x = source[m].x => l = m,
                      NEW k \in Holes, NEW o \in Holes, HoleName(k) = HoleName(o)
               PROVE  k = o
    BY DEF HolesAddressable
  <2>1. ASSUME NEW h \in Holes
        PROVE  /\ h.line \in OfKind("hole") /\ IsKey(h) /\ source[h.line].x = At(h).x
               /\ DOMAIN h.turn = MarkerLoops(h.line)
               /\ Numbers(tree[h].path, h.turn)
    <3>1. h \in DOMAIN tree /\ At(h).kind = "hole"
      BY DEF Holes
    <3>2. IsKey(h) /\ Numbers(tree[h].path, h.turn) /\ h.line \in Lines /\ At(h) = source[h.line] /\ source \in Sources
      BY <3>1 DEF Structure, TreeStands, IsKey, At
    <3>3. DOMAIN h.turn = MarkerLoops(h.line)
      BY <3>1, TreeTurned
    <3> QED BY <3>1, <3>2, <3>3 DEF OfKind
  <2>2. At(k).x = At(o).x /\ tree[k].path = tree[o].path
    BY DEF HoleName
  <2>3. k.line = o.line /\ DOMAIN k.turn = DOMAIN o.turn
    BY <2>1, <2>2
  <2>4. ASSUME NEW m \in DOMAIN k.turn
        PROVE  k.turn[m] = o.turn[m]
    <3>1. {n \in DOMAIN k.turn : n <= m} = {n \in DOMAIN o.turn : n <= m}
      BY <2>3
    <3>2. tree[k].path[Cardinality({n \in DOMAIN k.turn : n <= m})] = k.turn[m]
      BY <2>1 DEF Numbers
    <3>3. tree[o].path[Cardinality({n \in DOMAIN o.turn : n <= m})] = o.turn[m]
      BY <2>1, <2>3 DEF Numbers
    <3> QED BY <2>2, <3>1, <3>2, <3>3
  <2> QED BY <2>1, <2>3, <2>4, SameKey
<1> QED BY <1>1, TreesStand, PTL

-----------------------------------------------------------------------------
(* What is meant, as far as names are bound and loops expanded. *)

(* The statement a key names is not to be copied any more, or not yet. *)
Current(k) ==
    /\ Placed(k)
    /\ k \notin DOMAIN domains
    /\ \A m \in MarkerLoops(k.line) \ DOMAIN k.turn : Within(k, m) \notin DOMAIN domains

(* Declarations that a bind has removed. *)
Gone(l) == source[l].kind = "external" /\ source[l].x \in bound /\ InBlockOf(l) # {l}

KnownMeant == \A k \in DOMAIN tree : tree[k].known = Meant(k, bound)

DomainsMeant ==
    \A d \in DOMAIN domains :
        /\ domains[d] = DomainValues(At(d).e, Meant(d, bound))
        /\ DOMAIN Meant(d, bound) = DOMAIN At(d).reads

TreeComplete == \A k : IsKey(k) /\ Current(k) => (k \in DOMAIN tree <=> ~Gone(k.line))

(* A statement with an open external name has not been copied. *)
OpenOnce ==
    \A p \in ExternalReads : source[p[1]].reads[p[2]].x \notin bound =>
        /\ Key(p[1], NoTurn) \in DOMAIN tree
        /\ \A k \in DOMAIN tree : k.line = p[1] => k.turn = NoTurn

LoweredLast ==
    stage = "lowered" =>
        /\ ToExpand = {} /\ Demands = {}
        /\ \A k \in DOMAIN tree : tree[k].refs = PathValues(At(k).e, tree[k].known)

Faithful ==
    bound \subseteq Externals /\ KnownMeant /\ DomainsMeant /\ TreeComplete /\ OpenOnce /\ LoweredLast

(* What the source alone defines. *)
LEMMA MeaningKept ==
    ASSUME source' = source
    PROVE  /\ Externals' = Externals /\ ExternalReads' = ExternalReads /\ ModuleStores' = ModuleStores
           /\ \A l, read : Binders(l, read)' = Binders(l, read)
           /\ \A k, j, names : HasMeaning(k, j, names)' <=> HasMeaning(k, j, names)
           /\ \A l : InBlockOf(l)' = InBlockOf(l)
           /\ Careful' <=> Careful
<1>1. Lines' = Lines /\ (\A l : MarkerLoops(l)' = MarkerLoops(l)) /\ (\A l : Targets(l)' = Targets(l))
  BY SourceKept DEF Targets
<1>2. /\ \A l, m : InScopeOf(l, m)' <=> InScopeOf(l, m)
      /\ \A l : AtModule(l)' <=> AtModule(l)
      /\ \A l : Stores(l)' = Stores(l)
      /\ \A l : InBlockOf(l)' = InBlockOf(l)
  BY <1>1 DEF InScopeOf, AtModule, Stores, InBlockOf
<1>3. \A l : StoredBy(l)' = StoredBy(l)
  BY <1>1, <1>2 DEF StoredBy
<1>4. \A m : AllStores(m)' = AllStores(m)
  BY <1>1, <1>2, <1>3 DEF AllStores
<1>5. ModuleStores' = ModuleStores
  BY <1>1, <1>2, <1>3 DEF ModuleStores
<1>6. \A m, l, read : Binds(m, l, read)' <=> Binds(m, l, read)
  BY <1>1, <1>2, <1>4 DEF Binds
<1>7. \A l, read : Binders(l, read)' = Binders(l, read)
  BY <1>6 DEF Binders
<1>8. \A k, j, names : HasMeaning(k, j, names)' <=> HasMeaning(k, j, names)
  BY <1>5, <1>7, SourceKept DEF HasMeaning
<1>9. ExternalReads' = ExternalReads
  BY <1>1 DEF ExternalReads
<1>10. Externals' = Externals
  BY <1>9 DEF Externals
<1>11. (\A kind : OfKind(kind)' = OfKind(kind)) /\ (\A l : Inside(l)' = Inside(l))
  BY <1>1 DEF OfKind, Inside
<1>12. (VariablesKept' <=> VariablesKept) /\ (ClassesApart' <=> ClassesApart)
  BY <1>1, <1>4, <1>11 DEF VariablesKept, ClassesApart
<1>13. ExternalsKept' <=> ExternalsKept
  BY <1>1, <1>2, <1>4, <1>5, <1>10, <1>11 DEF ExternalsKept
<1>14. (ExternalsSeen' <=> ExternalsSeen) /\ (SomethingLeft' <=> SomethingLeft)
  BY <1>2, <1>7, <1>9, <1>11 DEF ExternalsSeen, SomethingLeft
<1> QED BY <1>2, <1>5, <1>7, <1>8, <1>9, <1>10, <1>12, <1>13, <1>14 DEF Careful

(* What is meant of a placed statement is not changed by expanding another  *)
(* loop.                                                                    *)
LEMMA MeantKept ==
    ASSUME source' = source, source \in Sources, \A d \in DOMAIN domains : domains'[d] = domains[d],
           NEW k, IsKey(k), Placed(k), NEW names
    PROVE  (\A j \in DOMAIN At(k).reads : HasMeaning(k, j, names) => Meaning(k, j)' = Meaning(k, j))
           /\ Meant(k, names)' = Meant(k, names)
<1>1. ASSUME NEW j \in DOMAIN At(k).reads, HasMeaning(k, j, names)
      PROVE  Meaning(k, j)' = Meaning(k, j)
  <2>0. PICK read, binders : read = At(k).reads[j] /\ binders = Binders(k.line, read)
    OBVIOUS
  <2> DEFINE m == Innermost(binders)
  <2>1. read = (At(k).reads[j])' /\ binders = Binders(k.line, read)'
    BY <2>0, SourceKept, MeaningKept
  <2>2. CASE binders = {}
    BY <2>0, <2>1, <2>2 DEF Meaning
  <2>3. CASE binders # {}
    <3>1. m \in DOMAIN k.turn
      BY <1>1, <2>0, <2>3 DEF HasMeaning
    <3>2. Within(k, m) \in DOMAIN domains /\ Within(k, m)' = Within(k, m)
      BY <3>1, SourceKept DEF Placed
    <3> HIDE DEF m
    <3>3. Meaning(k, j) = BindTargets(source[m].vars, domains[Within(k, m)][k.turn[m]])[read.x]
      BY <2>0, <2>3 DEF Meaning, m
    <3>4. Meaning(k, j)' = BindTargets(source'[m].vars, domains'[Within(k, m)'][k.turn[m]])[read.x]
      BY <2>1, <2>3 DEF Meaning, m
    <3> QED BY <3>2, <3>3, <3>4
  <2> QED BY <2>2, <2>3
<1>2. Meant(k, names)' = Meant(k, names)
  BY <1>1, SourceKept, MeaningKept DEF Meant
<1> QED BY <1>1, <1>2

(* The extremes of a set of lines. *)
LEMMA LeastIs ==
    ASSUME NEW S, S \subseteq Nat, S # {}
    PROVE  \E x \in S : \A y \in S : x <= y
<1>1. PICK x \in S : \A y \in S : ~(<<y, x>> \in OpToRel(<, Nat))
  BY WFMin, NatLessThanWellFounded
<1>2. \A y \in S : x \in Nat /\ y \in Nat /\ ~(y < x)
  BY <1>1 DEF OpToRel
<1> QED BY <1>2

LEMMA InnermostIs ==
    ASSUME NEW l \in Nat, NEW S, S \subseteq 1 .. l
    PROVE  /\ S # {} => Innermost(S) \in S /\ \A y \in S : y <= Innermost(S)
           /\ \A x \in S : (\A y \in S : y <= x) => Innermost(S) = x
<1>1. ASSUME S # {} PROVE \E x \in S : \A y \in S : y <= x
  <2> DEFINE R == {l - y : y \in S}
  <2>1. R \subseteq Nat /\ R # {}
    <3>1. PICK y \in S : TRUE
      BY <1>1
    <3>2. l - y \in R
      BY <3>1
    <3> QED BY <3>2
  <2>2. PICK z \in R : \A r \in R : z <= r
    <3> HIDE DEF R
    <3> QED BY <2>1, LeastIs
  <2>3. PICK x \in S : z = l - x
    BY <2>2
  <2>4. \A y \in S : l - x <= l - y
    BY <2>2, <2>3
  <2>5. \A y \in S : y <= x
    BY <2>4
  <2> QED BY <2>5
<1>2. S # {} => Innermost(S) \in S /\ \A y \in S : y <= Innermost(S)
  BY <1>1 DEF Innermost
<1>3. ASSUME NEW x \in S, \A y \in S : y <= x PROVE Innermost(S) = x
  <2>1. Innermost(S) \in S /\ Innermost(S) <= x /\ x <= Innermost(S)
    BY <1>2, <1>3
  <2>2. S \subseteq Int
    OBVIOUS
  <2>3. Innermost(S) \in Int /\ x \in Int
    BY <2>1, <2>2
  <2> QED BY ONLY <2>1, <2>3
<1> QED BY <1>2, <1>3

LEMMA BindersAre ==
    ASSUME source \in Sources, NEW l \in Lines, NEW read
    PROVE  /\ l \in Nat /\ Binders(l, read) \subseteq source[l].around /\ Binders(l, read) \subseteq 1 .. l
           /\ \A m \in source[l].around : m \in Binders(l, read) <=> Binds(m, l, read)
BY LinesNest DEF Binders

(* A marker has the meaning of its name wherever it stands. *)
LEMMA MarkerMeaning ==
    ASSUME Structure, Careful, NEW k, IsKey(k),
           NEW j \in DOMAIN At(k).reads, At(k).reads[j].external, NEW names
    PROVE  /\ <<k.line, j>> \in ExternalReads /\ At(k).reads[j].x \in Externals
           /\ HasMeaning(k, j, names) <=> At(k).reads[j].x \in names
<1>1. <<k.line, j>> \in ExternalReads
  BY DEF ExternalReads, IsKey, At
<1>2. At(k).reads[j].x \in Externals
  BY <1>1 DEF Externals, At
<1>3. At(k).reads[j].x \notin At(k).reads[j].hidden /\ Binders(k.line, At(k).reads[j]) = {}
  BY <1>1 DEF Careful, ExternalsSeen, At
<1>4. At(k).reads[j].x \notin ModuleStores
  BY <1>2 DEF Careful, ExternalsKept
<1> QED BY <1>1, <1>2, <1>3, <1>4 DEF HasMeaning

(* The open names are those not bound yet. *)
LEMMA DemandsAre ==
    ASSUME Structure, Careful, Faithful
    PROVE  Demands = Externals \ bound
<1>0. \A k \in DOMAIN tree : IsKey(k)
  BY DEF Structure, TreeStands
<1>1. \A k \in DOMAIN tree : DOMAIN tree[k].known = {j \in DOMAIN At(k).reads : HasMeaning(k, j, bound)}
  BY DEF Faithful, KnownMeant, Meant
<1>2. ASSUME NEW x \in Demands
      PROVE  x \in Externals \ bound
  <2>1. PICK k \in DOMAIN tree : x \in OpenExternals(k)
    BY DEF Demands, DemandsIn
  <2>2. PICK j \in Open(k) : At(k).reads[j].external /\ x = At(k).reads[j].x
    BY <2>1 DEF OpenExternals
  <2>3. j \in DOMAIN At(k).reads /\ ~HasMeaning(k, j, bound)
    BY <1>1, <2>2 DEF Open
  <2> QED BY <1>0, <2>2, <2>3, MarkerMeaning
<1>3. ASSUME NEW x \in Externals \ bound
      PROVE  x \in Demands
  <2>1. PICK p \in ExternalReads : x = source[p[1]].reads[p[2]].x
    BY DEF Externals
  <2>2. Key(p[1], NoTurn) \in DOMAIN tree
    BY <2>1 DEF Faithful, OpenOnce
  <2> DEFINE k == Key(p[1], NoTurn)
  <2>3. At(k) = source[p[1]] /\ p[2] \in DOMAIN At(k).reads /\ At(k).reads[p[2]].external
    BY DEF ExternalReads, At, Key
  <2>4. ~HasMeaning(k, p[2], bound)
    BY <1>0, <2>1, <2>2, <2>3, MarkerMeaning
  <2>5. p[2] \in Open(k)
    BY <1>1, <2>2, <2>3, <2>4 DEF Open
  <2>6. x \in OpenExternals(k)
    BY <2>1, <2>3, <2>5 DEF OpenExternals
  <2> QED BY <2>2, <2>6 DEF Demands, DemandsIn
<1> QED BY <1>2, <1>3

(* What is in the tree is current. *)
LEMMA TreeCurrent ==
    ASSUME Structure, NEW k \in DOMAIN tree
    PROVE  Current(k)
<1>1. IsKey(k) /\ Placed(k) /\ k \notin DOMAIN domains
  BY DEF Structure, TreeStands
<1>2. ASSUME NEW m \in MarkerLoops(k.line) \ DOMAIN k.turn
      PROVE  Within(k, m) \notin DOMAIN domains
  <2>1. Within(k, m) \in DOMAIN tree
    BY DEF Structure, TreeStands, MarkerLoops, At
  <2> QED BY <2>1 DEF Structure, TreeStands
<1> QED BY <1>1, <1>2 DEF Current

-----------------------------------------------------------------------------
(* A bind keeps FAITHFUL. *)

(* A bind sees a function store an external name: what it sees is in the    *)
(* tree, for it stands in no loop that the function does not.               *)
LEMMA StoreSeen ==
    ASSUME Structure, Careful, Faithful, NEW a \in DOMAIN tree, At(a).kind = "define",
           NEW x \in AllStores(a.line) \cap Externals
    PROVE  x \in SameScopeBindings(Scope(a))
<1>1. IsKey(a) /\ a.line \in Lines /\ At(a) = source[a.line] /\ source \in Sources
  BY DEF Structure, TreeStands, IsKey, At
<1>2. PICK l \in Inside(a.line) \ OfKind("astichi_for") :
          x \in Stores(l) /\ InScopeOf(l, a.line) /\ MarkerLoops(l) = MarkerLoops(a.line)
  BY <1>1 DEF Careful, ExternalsKept, OfKind
<1> DEFINE o == Key(l, a.turn)
<1>3. l \in Lines /\ a.line \in source[l].around /\ source[l].kind # "astichi_for"
  BY <1>2 DEF Inside, OfKind
<1>4. o.line = l /\ o.turn = a.turn /\ At(o) = source[l]
  BY DEF Key, At
<1>5. IsKey(o)
  BY <1>1, <1>2, <1>3, <1>4 DEF IsKey, Key
<1>6. \A m : Within(o, m) = Within(a, m)
  BY <1>4 DEF Within
<1>7. Current(a)
  BY TreeCurrent
<1>8. Current(o)
  <2>1. Placed(o)
    BY <1>4, <1>6, <1>7 DEF Current, Placed
  <2>2. o \notin DOMAIN domains
    BY <1>3, <1>4 DEF Structure, DomainsStand
  <2> QED BY <1>2, <1>4, <1>6, <1>7, <2>1, <2>2 DEF Current
<1>9. source[l].kind # "external"
  <2>1. SUFFICES ASSUME source[l].kind = "external" PROVE FALSE
    OBVIOUS
  <2>2. source[l].walruses = {}
    BY <1>1, <1>3, <2>1, SourcesAssumption DEF WellFormed, Lines
  <2>3. Stores(l) = {}
    BY <2>1, <2>2 DEF Stores, Storing, Scopes
  <2> QED BY <1>2, <2>3
<1>10. o \in DOMAIN tree
  BY <1>4, <1>5, <1>8, <1>9 DEF Faithful, TreeComplete, Gone
<1>11. Within(o, a.line) = a
  <2>1. DOMAIN a.turn \cap MarkerLoops(a.line) = DOMAIN a.turn
    BY <1>1 DEF IsKey
  <2>2. Restrict(a.turn, DOMAIN a.turn) = [m \in DOMAIN a.turn |-> a.turn[m]]
    BY DEF Restrict
  <2> QED BY <1>1, <1>4, <2>1, <2>2 DEF Within, IsKey
<1>12. a.line \notin DOMAIN o.turn
  <2>1. a.line \notin MarkerLoops(a.line)
    BY <1>1, LinesNest DEF MarkerLoops
  <2> QED BY <1>1, <1>4, <2>1 DEF IsKey
<1>13. o \in Scope(a)
  BY <1>2, <1>3, <1>4, <1>5, <1>10, <1>11, <1>12, <1>1, AroundIs DEF Scope, Body
<1> QED BY <1>2, <1>4, <1>13 DEF SameScopeBindings

(* A bind puts a value where a name means it and nowhere else. *)
LEMMA BindReaches ==
    ASSUME Structure, Careful, Faithful, NEW k \in DOMAIN tree, NEW j \in DOMAIN At(k).reads,
           At(k).reads[j].x \in Externals, ~HasMeaning(k, j, bound), At(k).reads[j].x \notin At(k).reads[j].hidden
    PROVE  At(k).reads[j].x \notin Shadow(k) <=> Binders(k.line, At(k).reads[j]) = {}
<1> DEFINE read == At(k).reads[j]
           binders == Binders(k.line, read)
<1>1. IsKey(k) /\ k.line \in Lines /\ At(k) = source[k.line] /\ source \in Sources
  BY DEF Structure, TreeStands, IsKey, At
<1>2. /\ k.line \in Nat /\ binders \subseteq source[k.line].around /\ binders \subseteq 1 .. k.line
      /\ \A m \in source[k.line].around : m \in binders <=> Binds(m, k.line, read)
  BY <1>1, BindersAre
<1>3. ASSUME binders # {} PROVE read.x \in Shadow(k)
  <2> DEFINE m == Innermost(binders)
             a == Within(k, m)
  <2>1. m \in binders
    BY <1>2, <1>3, InnermostIs
  <2>2. m \notin DOMAIN k.turn
    BY <1>3 DEF HasMeaning
  <2> HIDE DEF m
  <2>3. m \in At(k).around \ DOMAIN k.turn /\ Binds(m, k.line, read)
    BY <1>1, <1>2, <2>1, <2>2
  <2>4. a \in Around(k) /\ a \in DOMAIN tree /\ a.line = m /\ At(a) = source[m]
    BY <1>1, <2>3, WithinIs DEF Around, Structure, TreeStands, At
  <2>5. read.x \in Hides(a)
    <3>1. CASE read.x \in Targets(m)
      BY <2>4, <3>1 DEF Hides
    <3>2. CASE source[m].kind = "define" /\ read.x \in AllStores(m)
      BY <2>4, <3>2, StoreSeen DEF Hides, Scopes
    <3>3. ~(source[m].kind = "class" /\ read.x \in AllStores(m))
      BY <1>1, <2>3, LinesNest DEF Careful, ExternalsKept, OfKind
    <3> QED BY <2>3, <3>1, <3>2, <3>3 DEF Binds
  <2> QED BY <2>4, <2>5 DEF Shadow
<1>4. ASSUME read.x \in Shadow(k) PROVE binders # {}
  <2>1. PICK a \in Around(k) : read.x \in Hides(a)
    BY <1>4 DEF Shadow
  <2>2. a.line \in At(k).around \ DOMAIN k.turn /\ At(a) = source[a.line]
    BY <1>1, AroundIs DEF At
  <2>3. CASE read.x \in Targets(a.line)
    BY <1>1, <1>2, <2>2, <2>3 DEF Binds
  <2>4. CASE At(a).kind \in Scopes /\ read.x \in SameScopeBindings(Scope(a))
    <3>1. PICK o \in Scope(a) : read.x \in Stores(o.line)
      BY <2>4 DEF SameScopeBindings
    <3>2. o.line \in Lines /\ InScopeOf(o.line, a.line)
      BY DEF Scope, Body, Structure, TreeStands, IsKey
    <3>3. read.x \in AllStores(a.line)
      BY <3>1, <3>2 DEF AllStores, StoredBy
    <3>4. source[a.line].kind # "class"
      BY <1>1, <2>2, <3>3, LinesNest DEF Careful, ExternalsKept, OfKind
    <3>5. Binds(a.line, k.line, read)
      BY <2>2, <2>4, <3>3, <3>4 DEF Binds, Scopes
    <3> QED BY <1>1, <1>2, <2>2, <3>5
  <2> QED BY <2>1, <2>3, <2>4 DEF Hides
<1> QED BY <1>3, <1>4

LEMMA BindMeant ==
    ASSUME Structure, Careful, Faithful, NEW names \in SUBSET Externals, NEW k \in DOMAIN tree
    PROVE  Substitute(k, Without(Restrict(Value, names), Shadow(k))) = Meant(k, bound \cup names)
<1> DEFINE reads == At(k).reads
           known == tree[k].known
           values == Without(Restrict(Value, names), Shadow(k))
           reached == {j \in DOMAIN reads : reads[j].x \in DOMAIN values \ reads[j].hidden}
<1>1. IsKey(k) /\ k.line \in Lines /\ source \in Sources
  BY DEF Structure, TreeStands, IsKey
<1>2. DOMAIN values = names \ Shadow(k) /\ \A x \in DOMAIN values : values[x] = Value[x]
  BY DEF Without, Restrict
<1>3. known = [j \in {i \in DOMAIN reads : HasMeaning(k, i, bound)} |-> Meaning(k, j)]
  BY DEF Faithful, KnownMeant, Meant
<1>4. bound \cup names \subseteq Externals /\ ModuleStores \cap Externals = {}
  BY DEF Faithful, Careful, ExternalsKept
<1> HIDE DEF values
<1>5. ASSUME NEW j \in DOMAIN reads
      PROVE  /\ HasMeaning(k, j, bound \cup names) <=> HasMeaning(k, j, bound) \/ j \in reached
             /\ j \in reached /\ ~HasMeaning(k, j, bound) => values[reads[j].x] = Meaning(k, j)
  <2> DEFINE read == reads[j]
             binders == Binders(k.line, read)
  <2>1. HasMeaning(k, j, bound) => HasMeaning(k, j, bound \cup names)
    BY DEF HasMeaning
  <2>2. ASSUME j \in reached, ~HasMeaning(k, j, bound)
        PROVE  binders = {} /\ HasMeaning(k, j, bound \cup names) /\ values[read.x] = Meaning(k, j)
    <3>1. read.x \in names \ Shadow(k) /\ read.x \notin read.hidden /\ read.x \in Externals /\ values[read.x] = Value[read.x]
      BY <1>2, <2>2
    <3>2. binders = {}
      BY <2>2, <3>1, BindReaches
    <3>3. HasMeaning(k, j, bound \cup names)
      BY <1>4, <3>1, <3>2 DEF HasMeaning
    <3>4. Meaning(k, j) = Value[read.x]
      BY <3>2 DEF Meaning
    <3> QED BY <3>1, <3>2, <3>3, <3>4
  <2>3. ASSUME HasMeaning(k, j, bound \cup names), ~HasMeaning(k, j, bound)
        PROVE  j \in reached
    <3>1. read.x \notin read.hidden /\ binders = {} /\ read.x \in names
      BY <2>3 DEF HasMeaning
    <3>2. read.x \notin Shadow(k)
      BY <2>3, <3>1, BindReaches
    <3> QED BY <1>2, <3>1, <3>2
  <2> QED BY <2>1, <2>2, <2>3
<1>6. Substitute(k, values) = [j \in DOMAIN known \cup reached |-> IF j \in DOMAIN known THEN known[j] ELSE values[reads[j].x]]
  BY DEF Substitute
<1>7. DOMAIN known \cup reached = {i \in DOMAIN reads : HasMeaning(k, i, bound \cup names)}
  BY <1>3, <1>5
<1>8. \A j \in DOMAIN known \cup reached :
          (IF j \in DOMAIN known THEN known[j] ELSE values[reads[j].x]) = Meaning(k, j)
  BY <1>3, <1>5
<1> HIDE DEF known, reached, reads
<1>9. Substitute(k, values) = [j \in {i \in DOMAIN reads : HasMeaning(k, i, bound \cup names)} |-> Meaning(k, j)]
  BY <1>6, <1>7, <1>8
<1> QED BY <1>9 DEF Meant, values, reads

(* What already means something for all its reads means no more with more   *)
(* names.                                                                   *)
LEMMA MeantMore ==
    ASSUME NEW k, NEW names, NEW more, names \subseteq more, DOMAIN Meant(k, names) = DOMAIN At(k).reads
    PROVE  Meant(k, more) = Meant(k, names)
<1>1. \A j \in DOMAIN At(k).reads : HasMeaning(k, j, names) => HasMeaning(k, j, more)
  BY DEF HasMeaning
<1>2. \A j \in DOMAIN At(k).reads : HasMeaning(k, j, names)
  BY DEF Meant
<1> QED BY <1>1, <1>2 DEF Meant

(* A declaration is alone in its block in the tree if it is in the source.  *)
LEMMA AloneIs ==
    ASSUME Structure, Careful, Faithful, NEW k \in DOMAIN tree, At(k).kind = "external", At(k).x \notin bound
    PROVE  (\E o \in DOMAIN tree : o # k /\ Around(o) = Around(k)) <=> InBlockOf(k.line) # {k.line}
<1> DEFINE l == k.line
<1>1. IsKey(k) /\ l \in Lines /\ At(k) = source[l] /\ source \in Sources
  BY DEF Structure, TreeStands, IsKey, At
<1>2. source[l].reads = <<[x |-> source[l].x, external |-> TRUE, hidden |-> {}, deferred |-> FALSE]>>
  BY <1>1, SourcesAssumption DEF WellFormed, Lines
<1>3. <<l, 1>> \in ExternalReads /\ source[l].reads[1].x = source[l].x
  BY <1>1, <1>2 DEF ExternalReads
<1>4. \A o \in DOMAIN tree : o.line = l => o.turn = NoTurn
  BY <1>1, <1>3 DEF Faithful, OpenOnce
<1>5. k.turn = NoTurn /\ k = Key(l, NoTurn) /\ DOMAIN k.turn = {}
  <2>1. k.turn = NoTurn
    BY <1>4
  <2>2. DOMAIN k.turn = {} /\ [m \in DOMAIN k.turn |-> k.turn[m]] = NoTurn
    BY <2>1 DEF NoTurn
  <2> QED BY <1>1, <2>1, <2>2 DEF IsKey
<1>6. \A m \in source[l].around : Within(k, m) \in DOMAIN tree
  BY <1>1, <1>5 DEF Structure, TreeStands
<1>7. ASSUME NEW o \in DOMAIN tree, o # k, Around(o) = Around(k)
      PROVE  InBlockOf(l) # {l}
  <2>1. IsKey(o) /\ o.line \in Lines /\ At(o) = source[o.line] /\ o.line \in Nat
    BY LinesNest, <1>1 DEF Structure, TreeStands, IsKey, At
  <2>2. o.line # l
    <3>1. SUFFICES ASSUME o.line = l PROVE FALSE
      OBVIOUS
    <3>2. o.turn = NoTurn
      BY <1>4, <3>1
    <3> QED BY <1>1, <1>7, <2>1, <3>1, <3>2, <1>5, SameKey
  <2>3. source[o.line].around \ DOMAIN o.turn = source[l].around
    <3>1. \A m : m \in source[o.line].around \ DOMAIN o.turn <=> \E b \in Around(o) : b.line = m
      BY <1>1, <2>1, AroundIs, WithinIs DEF Around
    <3>2. \A m : m \in source[l].around \ DOMAIN k.turn <=> \E b \in Around(k) : b.line = m
      BY <1>1, AroundIs, WithinIs DEF Around
    <3> QED BY <1>5, <1>7, <3>1, <3>2
  <2>4. CASE DOMAIN o.turn = {}
    BY <2>1, <2>2, <2>3, <2>4 DEF InBlockOf
  <2>5. CASE DOMAIN o.turn # {}
    <3>1. DOMAIN o.turn \subseteq source[o.line].around /\ DOMAIN o.turn \subseteq Nat
      BY <1>1, <2>1, LinesNest DEF IsKey, MarkerLoops
    <3>2. PICK m \in DOMAIN o.turn : \A n \in DOMAIN o.turn : m <= n
      BY <2>5, <3>1, LeastIs
    <3>3. m \in Lines /\ source[m].around = {n \in source[o.line].around : n < m} /\ source[m].kind \in Blocks
      BY <1>1, <2>1, <3>1, LinesNest
    <3>4. ASSUME NEW n \in source[m].around PROVE n \in source[l].around
      <4>1. n \in source[o.line].around /\ n < m /\ n \in Nat /\ m \in Nat
        BY <1>1, <2>1, <3>1, <3>3, LinesNest
      <4>2. n \notin DOMAIN o.turn
        BY <3>2, <4>1
      <4> QED BY <2>3, <4>1, <4>2
    <3>5. ASSUME NEW n \in source[l].around PROVE n \in source[m].around
      <4>1. n \in source[o.line].around /\ n \notin DOMAIN o.turn /\ n \in Nat /\ m \in Nat /\ n # m
        BY <1>1, <2>1, <2>3, <3>1, LinesNest
      <4>2. ~(m < n)
        <5>1. SUFFICES ASSUME m < n PROVE FALSE
          OBVIOUS
        <5>2. m \in source[n].around
          BY <1>1, <2>1, <3>1, <4>1, <5>1, LinesNest
        <5>3. m \in source[l].around
          BY <1>1, <5>2, LinesNest
        <5> QED BY <2>3, <5>3
      <4>3. n < m
        BY <4>1, <4>2
      <4> QED BY <3>3, <4>1, <4>3
    <3>6. m \in InBlockOf(l)
      BY <3>3, <3>4, <3>5 DEF InBlockOf
    <3>7. m # l
      BY <1>1, <3>3 DEF Blocks, Scopes, Loops
    <3> QED BY <3>6, <3>7
  <2> QED BY <2>4, <2>5
<1>8. ASSUME InBlockOf(l) # {l}
      PROVE  \E o \in DOMAIN tree : o # k /\ Around(o) = Around(k)
  <2>1. PICK p \in InBlockOf(l) : source[p].kind \notin {"external", "astichi_for"}
    BY <1>1, <1>8 DEF Careful, SomethingLeft, OfKind
  <2> DEFINE o == Key(p, NoTurn)
  <2>2. p \in Lines /\ source[p].around = source[l].around /\ p # l
    BY <1>1, <2>1 DEF InBlockOf
  <2>3. o.line = p /\ o.turn = NoTurn /\ DOMAIN o.turn = {} /\ At(o) = source[p] /\ o # k
    BY <1>5, <2>2 DEF Key, At, NoTurn
  <2>4. IsKey(o)
    BY <2>2, <2>3 DEF IsKey, NoTurn
  <2>5. (\A m : Within(o, m) = Within(k, m)) /\ Around(o) = Around(k)
    <3>1. \A m : Within(o, m) = Within(k, m)
      BY <1>5, <2>3 DEF Within
    <3>2. At(o).around \ DOMAIN o.turn = At(k).around \ DOMAIN k.turn
      BY <1>1, <1>5, <2>2, <2>3
    <3> QED BY <3>1, <3>2 DEF Around
  <2>6. Current(o)
    <3>1. Placed(o)
      BY <2>3 DEF Placed
    <3>2. o \notin DOMAIN domains
      BY <2>1, <2>3 DEF Structure, DomainsStand
    <3>3. \A m \in MarkerLoops(o.line) : Within(o, m) \notin DOMAIN domains
      BY <1>6, <2>2, <2>3, <2>5 DEF Structure, TreeStands, MarkerLoops
    <3> QED BY <3>1, <3>2, <3>3 DEF Current
  <2>7. o \in DOMAIN tree
    BY <2>1, <2>3, <2>4, <2>6 DEF Faithful, TreeComplete, Gone
  <2> QED BY <2>3, <2>5, <2>7
<1> QED BY <1>7, <1>8

(* A bind removes the declarations of its names that are not alone. *)
LEMMA SatisfiedIs ==
    ASSUME Structure, Careful, Faithful, NEW names, names \subseteq Demands, NEW k \in DOMAIN tree
    PROVE  Satisfied(k, names) <=>
              At(k).kind = "external" /\ At(k).x \in names /\ InBlockOf(k.line) # {k.line}
<1>1. IsKey(k) /\ k.line \in Lines /\ At(k) = source[k.line] /\ source \in Sources
  BY DEF Structure, TreeStands, IsKey, At
<1>2. names \cap bound = {}
  BY DemandsAre
<1>3. ASSUME At(k).kind = "external", At(k).x \in names
      PROVE  Open(k) # {}
  <2>1. At(k).reads = <<[x |-> At(k).x, external |-> TRUE, hidden |-> {}, deferred |-> FALSE]>>
    BY <1>1, <1>3, SourcesAssumption DEF WellFormed, Lines
  <2>2. 1 \in DOMAIN At(k).reads /\ At(k).reads[1].external /\ At(k).reads[1].x = At(k).x
    BY <2>1
  <2>3. ~HasMeaning(k, 1, bound)
    BY <1>1, <1>2, <1>3, <2>2, MarkerMeaning
  <2>4. 1 \notin DOMAIN tree[k].known
    BY <2>3 DEF Faithful, KnownMeant, Meant
  <2> QED BY <2>2, <2>4 DEF Open
<1>4. ASSUME At(k).kind = "external", At(k).x \in names
      PROVE  (\E o \in DOMAIN tree : o # k /\ Around(o) = Around(k)) <=> InBlockOf(k.line) # {k.line}
  BY <1>2, <1>4, AloneIs
<1> QED BY <1>3, <1>4 DEF Satisfied, IsExternal

LEMMA FaithfulKept ==
    ASSUME Structure, Faithful, UNCHANGED <<source, tree, domains, bound>>,
           stage' = "lowered" => stage = "lowered"
    PROVE  Faithful'
<1>1. \A k : At(k)' = At(k) /\ (IsKey(k)' <=> IsKey(k)) /\ (\A m : Within(k, m)' = Within(k, m)) /\ MarkerLoops(k.line)' = MarkerLoops(k.line)
  BY SourceKept
<1>2. \A k, names : Meant(k, names)' = Meant(k, names)
  <2>1. \A k, j : Meaning(k, j)' = Meaning(k, j)
    BY <1>1, MeaningKept DEF Meaning
  <2> QED BY <1>1, <2>1, MeaningKept DEF Meant
<1>3. (bound \subseteq Externals)'
  BY MeaningKept DEF Faithful
<1>4. KnownMeant' /\ DomainsMeant'
  <2>1. \A k : Meant(k, bound)' = Meant(k, bound)
    BY <1>2
  <2> QED BY <1>1, <2>1 DEF Faithful, KnownMeant, DomainsMeant
<1>5. TreeComplete'
  <2>1. \A k : Current(k)' <=> Current(k)
    BY <1>1 DEF Current, Placed
  <2>2. \A l : Gone(l)' <=> Gone(l)
    BY MeaningKept DEF Gone
  <2> QED BY <1>1, <2>1, <2>2 DEF Faithful, TreeComplete
<1>6. OpenOnce'
  BY MeaningKept DEF Faithful, OpenOnce, Key, NoTurn
<1>7. LoweredLast'
  <2>1. ToExpand' = ToExpand
    BY <1>1 DEF ToExpand
  <2>2. \A k : OpenExternals(k)' = OpenExternals(k)
    BY <1>1 DEF OpenExternals, Open
  <2>3. Demands' = Demands
    BY <2>2 DEF Demands, DemandsIn
  <2> QED BY <1>1, <2>1, <2>3 DEF Faithful, LoweredLast
<1> QED BY <1>3, <1>4, <1>5, <1>6, <1>7 DEF Faithful

LEMMA FaithfulBind ==
    ASSUME Structure, Careful, Faithful, NEW names, Bind(names)
    PROVE  Faithful'
<1>0. names \subseteq Demands /\ Demands = Externals \ bound /\ stage = "open" /\ source \in Sources
  BY DemandsAre DEF Bind, Structure
<1>1. CASE Refuse
  BY <1>1, FaithfulKept DEF Refuse
<1>2. CASE /\ tree' = [k \in {o \in DOMAIN tree : ~Satisfied(o, names)} |-> BindStatement(k, names)]
           /\ bound' = bound \cup names
           /\ UNCHANGED <<source, domains, stage>>
  <2>0. names \in SUBSET Externals /\ bound' \subseteq Externals
    BY <1>0, <1>2 DEF Faithful
  <2>1. \A k : At(k)' = At(k) /\ (IsKey(k)' <=> IsKey(k)) /\ \A m : Within(k, m)' = Within(k, m)
    BY <1>2, SourceKept
  <2>2. \A k, more : Meant(k, more)' = Meant(k, more)
    <3>1. \A k, j : Meaning(k, j)' = Meaning(k, j)
      BY <1>2, <2>1, MeaningKept DEF Meaning
    <3> QED BY <1>2, <2>1, <3>1, MeaningKept DEF Meant
  <2>3. (bound \subseteq Externals)'
    BY <1>2, <2>0, MeaningKept
  <2>4. KnownMeant'
    <3>1. ASSUME NEW k \in DOMAIN tree'
          PROVE  tree'[k].known = Meant(k, bound \cup names)
      BY <1>2, <2>0, BindShape, BindMeant
    <3>2. \A k : Meant(k, bound)' = Meant(k, bound \cup names)
      BY <1>2, <2>2
    <3> QED BY <3>1, <3>2 DEF KnownMeant
  <2>5. DomainsMeant'
    <3>1. ASSUME NEW d \in DOMAIN domains
          PROVE  /\ domains[d] = DomainValues(At(d).e, Meant(d, bound \cup names))
                 /\ DOMAIN Meant(d, bound \cup names) = DOMAIN At(d).reads
      <4>1. Meant(d, bound \cup names) = Meant(d, bound)
        BY MeantMore DEF Faithful, DomainsMeant
      <4> QED BY <4>1 DEF Faithful, DomainsMeant
    <3> QED BY <1>2, <2>1, <2>2, <3>1 DEF DomainsMeant
  <2>6. ASSUME NEW k, IsKey(k), Current(k)
        PROVE  k \in DOMAIN tree' <=> ~Gone(k.line)'
    <3>1. k \in DOMAIN tree <=> ~Gone(k.line)
      BY <2>6 DEF Faithful, TreeComplete
    <3>2. Gone(k.line)' <=> At(k).kind = "external" /\ At(k).x \in bound \cup names /\ InBlockOf(k.line) # {k.line}
      BY <1>2, MeaningKept DEF Gone, At
    <3>3. k \in DOMAIN tree' <=> k \in DOMAIN tree /\ ~Satisfied(k, names)
      BY <1>2
    <3> QED BY <1>0, <3>1, <3>2, <3>3, SatisfiedIs DEF Gone, At
  <2>7. TreeComplete'
    <3>1. \A k : (Current(k)' <=> Current(k)) /\ (IsKey(k)' <=> IsKey(k))
      BY <1>2, <2>1, SourceKept DEF Current, Placed
    <3> QED BY <2>6, <3>1 DEF TreeComplete
  <2>8. OpenOnce'
    <3>1. ASSUME NEW p \in ExternalReads, source[p[1]].reads[p[2]].x \notin bound \cup names
          PROVE  /\ Key(p[1], NoTurn) \in DOMAIN tree'
                 /\ \A k \in DOMAIN tree' : k.line = p[1] => k.turn = NoTurn
      <4> DEFINE o == Key(p[1], NoTurn)
      <4>1. o \in DOMAIN tree /\ \A k \in DOMAIN tree : k.line = p[1] => k.turn = NoTurn
        BY <3>1 DEF Faithful, OpenOnce
      <4>2. o.line = p[1] /\ At(o) = source[p[1]] /\ p[1] \in Lines /\ p[2] \in DOMAIN source[p[1]].reads
        BY DEF Key, At, ExternalReads
      <4>3. ~Satisfied(o, names)
        <5>1. SUFFICES ASSUME Satisfied(o, names) PROVE FALSE
          OBVIOUS
        <5>2. At(o).kind = "external" /\ At(o).x \in names
          BY <5>1 DEF Satisfied, IsExternal
        <5>3. At(o).reads = <<[x |-> At(o).x, external |-> TRUE, hidden |-> {}, deferred |-> FALSE]>>
          BY <1>0, <4>2, <5>2, SourcesAssumption DEF WellFormed, Lines
        <5>4. At(o).reads[p[2]].x = At(o).x
          BY <4>2, <5>3
        <5> QED BY <3>1, <4>2, <5>2, <5>4
      <4>4. o \in DOMAIN tree'
        BY <1>2, <4>1, <4>3
      <4> QED BY <1>2, <4>1, <4>4, BindShape
    <3>2. ExternalReads' = ExternalReads
      BY <1>2, MeaningKept
    <3> QED BY <1>2, <3>1, <3>2 DEF OpenOnce, Key, NoTurn
  <2>9. LoweredLast'
    BY <1>0, <1>2 DEF LoweredLast
  <2> QED BY <2>3, <2>4, <2>5, <2>7, <2>8, <2>9 DEF Faithful
<1> QED BY <1>1, <1>2 DEF Bind

-----------------------------------------------------------------------------
(* Expanding a loop keeps FAITHFUL. *)

(* A copy gets a loop variable where a read means it and nowhere else. *)
LEMMA CopyReaches ==
    ASSUME Structure, Careful, NEW a \in Outermost, NEW o \in Body(a), NEW j \in DOMAIN At(o).reads,
           At(o).reads[j].x \notin At(o).reads[j].hidden
    PROVE  At(o).reads[j].x \in Targets(a.line) \ CopyShadow(o, a, Targets(a.line)) <=>
              /\ Binders(o.line, At(o).reads[j]) # {}
              /\ Innermost(Binders(o.line, At(o).reads[j])) = a.line
<1> DEFINE l == o.line
           n == a.line
           read == At(o).reads[j]
           binders == Binders(l, read)
<1>1. /\ IsKey(o) /\ l \in Lines /\ At(o) = source[l] /\ source \in Sources
      /\ n \in source[l].around /\ n \notin DOMAIN o.turn /\ (\A m \in DOMAIN o.turn : m \in Nat /\ m < n)
  BY BodyIs DEF Structure, IsKey, At, MarkerLoops
<1>2. n \in Lines /\ n \in Nat /\ source[n].kind = "astichi_for" /\ n \in OfKind("astichi_for")
  BY OutermostIs DEF OfKind
<1>3. /\ l \in Nat /\ binders \subseteq source[l].around /\ binders \subseteq 1 .. l
      /\ \A m \in source[l].around : m \in binders <=> Binds(m, l, read)
  BY <1>1, BindersAre
<1>4. \A m \in source[l].around : n < m => m \in Inside(n) /\ l \in Inside(m)
  BY <1>1, LinesNest DEF Inside
<1>5. \A m \in source[l].around : n < m => Within(o, m) \in Around(o) /\ Within(o, m).line = m /\ At(Within(o, m)) = source[m]
  <2> SUFFICES ASSUME NEW m \in source[l].around, n < m
               PROVE  Within(o, m) \in Around(o) /\ Within(o, m).line = m /\ At(Within(o, m)) = source[m]
    OBVIOUS
  <2>1. m \notin DOMAIN o.turn
    BY <1>1, <1>2
  <2>2. Within(o, m).line = m
    BY <1>1, WithinIs
  <2> QED BY <1>1, <2>1, <2>2 DEF Around, At
<1>6. \A b \in Around(o) : b.line \in source[l].around /\ At(b) = source[b.line]
  BY <1>1, AroundIs DEF At
<1> HIDE DEF n
<1>7. ASSUME binders # {}, Innermost(binders) = n
      PROVE  read.x \in Targets(n) \ CopyShadow(o, a, Targets(n))
  <2>1. n \in binders /\ \A m \in binders : m <= n
    BY <1>3, <1>7, InnermostIs
  <2>2. read.x \in Targets(n)
    BY <1>1, <1>2, <1>3, <2>1 DEF Binds
  <2>3. ASSUME NEW b \in Around(o), b.line > n
        PROVE  read.x \notin IF At(b).kind = "class" THEN Targets(n) ELSE Targets(b.line)
    <3>1. At(b).kind # "class"
      <4>1. SUFFICES ASSUME At(b).kind = "class" PROVE FALSE
        OBVIOUS
      <4>2. b.line \in Inside(n) \cap OfKind("class") /\ l \in Inside(b.line)
        BY <1>1, <1>4, <1>6, <2>3, <4>1, LinesNest DEF OfKind
      <4> QED BY <1>1, <1>2, <2>2, <4>2 DEF Careful, ClassesApart
    <3>2. read.x \notin Targets(b.line)
      <4>1. SUFFICES ASSUME read.x \in Targets(b.line) PROVE FALSE
        OBVIOUS
      <4>2. b.line \in binders
        BY <1>3, <1>6, <4>1 DEF Binds
      <4>3. b.line <= n /\ b.line \in Nat
        BY <1>1, <1>6, <2>1, <4>2, LinesNest
      <4> QED BY <1>2, <2>3, <4>3
    <3> QED BY <3>1, <3>2
  <2> QED BY <2>2, <2>3 DEF CopyShadow, n
<1>8. ASSUME read.x \in Targets(n) \ CopyShadow(o, a, Targets(n))
      PROVE  binders # {} /\ Innermost(binders) = n
  <2>1. n \in binders
    BY <1>1, <1>3, <1>8 DEF Binds
  <2>2. ASSUME NEW m \in binders PROVE m <= n
    <3>1. m \in source[l].around /\ Binds(m, l, read) /\ m \in Nat /\ m \in Lines
      BY <1>1, <1>3, LinesNest
    <3>2. SUFFICES ASSUME n < m PROVE FALSE
      BY <1>2, <3>1
    <3> DEFINE b == Within(o, m)
    <3>3. b \in Around(o) /\ b.line = m /\ At(b) = source[m]
      BY <1>5, <3>1, <3>2
    <3>4. m > n
      BY <1>2, <3>1, <3>2
    <3> HIDE DEF b
    <3>5. read.x \notin IF source[m].kind = "class" THEN Targets(n) ELSE Targets(m)
      BY <1>8, <3>3, <3>4 DEF CopyShadow, n
    <3>6. source[m].kind = "define" /\ read.x \in AllStores(m)
      BY <1>8, <3>1, <3>5 DEF Binds
    <3>7. m \in Inside(n) \cap OfKind("define")
      BY <1>4, <3>1, <3>2, <3>6 DEF OfKind
    <3> QED BY <1>2, <1>8, <3>6, <3>7 DEF Careful, VariablesKept
  <2> QED BY <1>3, <2>1, <2>2, InnermostIs
<1> QED BY <1>7, <1>8 DEF n

LEMMA CopyMeant ==
    ASSUME Structure, Careful, Faithful, NEW a \in Outermost, NEW o \in Body(a), NEW i \in DOMAIN Run(a),
           NEW k, k = CopyKey(o, a, i), UNCHANGED <<source, bound>>,
           domains'[a] = Run(a), \A d \in DOMAIN domains : domains'[d] = domains[d]
    PROVE  CopyStatement(o, a, i).known = Meant(k, bound)'
<1> DEFINE reads == At(o).reads
           known == tree[o].known
           vals == BindTargets(At(a).vars, Run(a)[i])
           values == Without(vals, CopyShadow(o, a, DOMAIN vals))
           reached == {j \in DOMAIN reads : reads[j].x \in DOMAIN values \ reads[j].hidden}
<1>1. /\ IsKey(o) /\ Placed(o) /\ o.line \in Lines /\ source \in Sources /\ o \in DOMAIN tree
      /\ At(o) = source[o.line] /\ \A m \in DOMAIN o.turn : m \in Nat /\ m < a.line
  BY BodyIs DEF Structure, IsKey, At
<1>2. /\ IsKey(k) /\ k.line = o.line /\ DOMAIN k.turn = DOMAIN o.turn \cup {a.line}
      /\ k.turn[a.line] = i /\ Within(k, a.line) = a
      /\ \A m \in DOMAIN o.turn : k.turn[m] = o.turn[m]
  BY CopyIs
<1>3. At(k) = At(o) /\ At(k)' = At(o)
  BY <1>2, SourceKept DEF At
<1>4. DOMAIN vals = Targets(a.line) /\ At(a) = source[a.line]
  BY OutermostIs DEF BindTargets, Targets
<1>5. /\ DOMAIN values = Targets(a.line) \ CopyShadow(o, a, Targets(a.line))
      /\ \A x \in DOMAIN values : values[x] = vals[x]
  BY <1>4 DEF Without, Restrict
<1>6. known = [j \in {n \in DOMAIN reads : HasMeaning(o, n, bound)} |-> Meaning(o, j)]
  BY <1>1 DEF Faithful, KnownMeant, Meant
<1>7. CopyStatement(o, a, i).known = [j \in DOMAIN known \cup reached |-> IF j \in DOMAIN known THEN known[j] ELSE values[reads[j].x]]
  <2>1. CopyStatement(o, a, i).known = Substitute(o, values)
    BY CopyPath
  <2> HIDE DEF values
  <2> QED BY <2>1 DEF Substitute
<1>8. \A m \in DOMAIN o.turn : Within(k, m) = Within(o, m)
  <2> SUFFICES ASSUME NEW m \in DOMAIN o.turn PROVE Within(k, m) = Within(o, m)
    OBVIOUS
  <2>1. m \in At(k).around /\ m \in Lines
    BY <1>1, <1>3, LinesNest DEF IsKey, MarkerLoops
  <2>2. a.line \notin source[m].around
    BY <1>1, <2>1, LinesNest, OutermostIs
  <2> QED BY <2>1, <2>2, CopyIs
<1> HIDE DEF vals, values
<1>9. ASSUME NEW j \in DOMAIN reads
      PROVE  /\ HasMeaning(k, j, bound)' <=> HasMeaning(o, j, bound) \/ j \in reached
             /\ HasMeaning(o, j, bound) => Meaning(k, j)' = Meaning(o, j)
             /\ j \in reached /\ ~HasMeaning(o, j, bound) => Meaning(k, j)' = values[reads[j].x]
  <2>0. PICK read, binders : read = reads[j] /\ binders = Binders(o.line, read)
    OBVIOUS
  <2> DEFINE m == Innermost(binders)
  <2>1. read = (At(k).reads[j])' /\ binders = Binders(k.line, read)'
    <3>1. read = (At(k).reads[j])'
      BY <1>3, <2>0
    <3>2. Binders(k.line, read)' = Binders(k.line, read)
      BY MeaningKept
    <3> QED BY <1>2, <2>0, <3>1, <3>2
  <2>2. ModuleStores' = ModuleStores /\ bound' = bound
    BY MeaningKept
  <2>3. HasMeaning(o, j, bound) <=> /\ read.x \notin read.hidden
                                    /\ IF binders = {} THEN read.x \in bound \ ModuleStores ELSE m \in DOMAIN o.turn
    BY <2>0 DEF HasMeaning
  <2>4. HasMeaning(k, j, bound)' <=> /\ read.x \notin read.hidden
                                     /\ IF binders = {} THEN read.x \in bound \ ModuleStores ELSE m \in DOMAIN k.turn
    BY <2>1, <2>2 DEF HasMeaning
  <2>5. j \in reached <=> /\ read.x \notin read.hidden /\ binders # {} /\ m = a.line
    <3>1. j \in reached <=> read.x \notin read.hidden /\ read.x \in Targets(a.line) \ CopyShadow(o, a, Targets(a.line))
      BY <1>5, <2>0
    <3>2. read.x \notin read.hidden => (read.x \in Targets(a.line) \ CopyShadow(o, a, Targets(a.line)) <=> binders # {} /\ m = a.line)
      BY <2>0, CopyReaches
    <3> QED BY <3>1, <3>2
  <2> HIDE DEF m, reached
  <2>6. HasMeaning(k, j, bound)' <=> HasMeaning(o, j, bound) \/ j \in reached
    BY <1>2, <2>3, <2>4, <2>5
  <2>7. Meaning(o, j) = IF binders = {} THEN Value[read.x]
                        ELSE BindTargets(source[m].vars, domains[Within(o, m)][o.turn[m]])[read.x]
    BY <2>0 DEF Meaning, m
  <2>8. Meaning(k, j)' = IF binders = {} THEN Value[read.x]
                         ELSE BindTargets(source'[m].vars, domains'[Within(k, m)'][k.turn[m]])[read.x]
    BY <2>1 DEF Meaning, m
  <2>9. Within(k, m)' = Within(k, m)
    BY SourceKept
  <2>10. HasMeaning(o, j, bound) => Meaning(k, j)' = Meaning(o, j)
    <3> SUFFICES ASSUME HasMeaning(o, j, bound), binders # {}
                 PROVE  Meaning(k, j)' = Meaning(o, j)
      BY <2>7, <2>8
    <3>1. m \in DOMAIN o.turn
      BY <2>3
    <3>2. Within(k, m) = Within(o, m) /\ Within(o, m) \in DOMAIN domains /\ k.turn[m] = o.turn[m]
      BY <1>1, <1>2, <1>8, <3>1 DEF Placed
    <3> QED BY <2>7, <2>8, <2>9, <3>2
  <2>11. j \in reached => Meaning(k, j)' = values[reads[j].x]
    <3> SUFFICES ASSUME j \in reached PROVE Meaning(k, j)' = values[read.x]
      BY <2>0
    <3>1. m = a.line /\ binders # {}
      BY <2>5
    <3>2. Meaning(k, j)' = BindTargets(At(a).vars, Run(a)[i])[read.x]
      BY <1>2, <1>4, <2>8, <2>9, <3>1
    <3>3. read.x \in DOMAIN values
      BY <2>0 DEF reached
    <3> QED BY <1>5, <3>2, <3>3 DEF vals
  <2> QED BY <2>6, <2>10, <2>11
<1>10. DOMAIN known \cup reached = {n \in DOMAIN reads : HasMeaning(k, n, bound)'}
  BY <1>6, <1>9
<1>11. \A j \in DOMAIN known \cup reached :
          (IF j \in DOMAIN known THEN known[j] ELSE values[reads[j].x]) = Meaning(k, j)'
  BY <1>6, <1>9
<1> HIDE DEF known, reached
<1>12. CopyStatement(o, a, i).known = [j \in {n \in DOMAIN reads : HasMeaning(k, n, bound)'} |-> Meaning(k, j)']
  BY <1>7, <1>10, <1>11
<1>13. Meant(k, bound)' = [j \in {n \in DOMAIN reads : HasMeaning(k, n, bound)'} |-> Meaning(k, j)']
  BY <1>3 DEF Meant
<1> QED BY <1>12, <1>13

(* The copies of a current statement are current, and so is what the loop   *)
(* does not concern; nothing else becomes current.                          *)
LEMMA CurrentCopy ==
    ASSUME Structure, NEW a \in Outermost, UNCHANGED source,
           DOMAIN domains' = DOMAIN domains \cup {a}, domains'[a] = Run(a),
           \A d \in DOMAIN domains : domains'[d] = domains[d],
           NEW k, IsKey(k), Current(k)', a.line \in DOMAIN k.turn, Within(k, a.line) = a
    PROVE  \E o, i : /\ IsKey(o) /\ Current(o) /\ o.line = k.line
                     /\ i \in DOMAIN Run(a) /\ k = CopyKey(o, a, i)
                     /\ a.line \in At(o).around \ DOMAIN o.turn /\ Within(o, a.line) = a
<1> DEFINE n == a.line
           i == k.turn[n]
           o == Key(k.line, [m \in DOMAIN k.turn \ {n} |-> k.turn[m]])
<1>1. source \in Sources /\ k.line \in Lines /\ At(k) = source[k.line] /\ DOMAIN k.turn \subseteq MarkerLoops(k.line)
  BY DEF Structure, IsKey, At
<1>2. /\ a \notin DOMAIN domains /\ n \in Lines /\ n \in Nat /\ DOMAIN a.turn = MarkerLoops(n)
      /\ source[n].kind = "astichi_for" /\ n \notin MarkerLoops(n)
  BY OutermostIs, LinesNest, <1>1 DEF MarkerLoops
<1>3. \A m \in DOMAIN k.turn : Within(k, m) \in DOMAIN domains' /\ k.turn[m] \in DOMAIN domains'[Within(k, m)]
  BY SourceKept DEF Current, Placed
<1>4. /\ k \notin DOMAIN domains'
      /\ \A m \in MarkerLoops(k.line) \ DOMAIN k.turn : Within(k, m) \notin DOMAIN domains'
  BY SourceKept DEF Current
<1>5. i \in DOMAIN Run(a)
  BY <1>3
<1>6. \A m \in DOMAIN k.turn : m \in source[k.line].around /\ m \in Lines /\ m \in Nat
  BY <1>1, LinesNest DEF MarkerLoops
<1>7. ASSUME NEW m \in DOMAIN k.turn
      PROVE  m <= n
  <2>1. SUFFICES ASSUME n < m PROVE FALSE
    BY <1>2, <1>6
  <2>2. n \in source[m].around /\ n \in MarkerLoops(m)
    BY <1>1, <1>6, <2>1, LinesNest
  <2> DEFINE w == Within(k, m)
  <2>3. IsKey(w) /\ DOMAIN w.turn = DOMAIN k.turn \cap MarkerLoops(m) /\ At(w) = source[m] /\ Within(w, n) = a
    BY <1>1, <1>6, <2>2, WithinIs, WithinWithin DEF At
  <2>4. w # a
    BY <1>2, <2>2, <2>3
  <2>5. w \in DOMAIN domains
    BY <1>3, <2>4
  <2>6. Placed(w) /\ n \in DOMAIN w.turn
    BY <2>2, <2>3, <2>5 DEF Structure, DomainsStand
  <2> QED BY <1>2, <2>3, <2>6 DEF Placed
<1>8. /\ o.line = k.line /\ DOMAIN o.turn = DOMAIN k.turn \ {n} /\ At(o) = At(k)
      /\ \A m \in DOMAIN o.turn : o.turn[m] = k.turn[m]
      /\ o.turn = [m \in DOMAIN o.turn |-> o.turn[m]]
  BY DEF Key, At
<1>9. IsKey(o)
  BY <1>1, <1>8 DEF IsKey
<1>10. k = CopyKey(o, a, i)
  <2>1. k = Key(k.line, [m \in DOMAIN k.turn |-> k.turn[m]])
    BY DEF IsKey
  <2>2. DOMAIN o.turn \cup {n} = DOMAIN k.turn
    BY <1>8
  <2>3. CopyKey(o, a, i) = Key(o.line, [m \in DOMAIN o.turn \cup {n} |-> IF m = n THEN i ELSE o.turn[m]])
    BY DEF CopyKey
  <2> HIDE DEF o
  <2>4. [m \in DOMAIN o.turn \cup {n} |-> IF m = n THEN i ELSE o.turn[m]] = [m \in DOMAIN k.turn |-> k.turn[m]]
    BY <1>8, <2>2
  <2> QED BY <1>8, <2>1, <2>3, <2>4
<1> HIDE DEF o
<1>11. \A m \in source[k.line].around : n \notin MarkerLoops(m) => Within(o, m) = Within(k, m)
  <2> SUFFICES ASSUME NEW m, n \notin MarkerLoops(m) PROVE Within(o, m) = Within(k, m)
    OBVIOUS
  <2>1. DOMAIN o.turn \cap MarkerLoops(m) = DOMAIN k.turn \cap MarkerLoops(m)
    BY <1>8
  <2>2. Restrict(o.turn, DOMAIN o.turn \cap MarkerLoops(m)) = Restrict(k.turn, DOMAIN k.turn \cap MarkerLoops(m))
    BY <1>8, <2>1 DEF Restrict
  <2> QED BY <2>2 DEF Within
<1>12. n \in At(o).around \ DOMAIN o.turn /\ Within(o, n) = a
  BY <1>1, <1>2, <1>6, <1>8, <1>11
<1>13. Placed(o)
  <2> SUFFICES ASSUME NEW m \in DOMAIN o.turn
               PROVE  Within(o, m) \in DOMAIN domains /\ o.turn[m] \in DOMAIN domains[Within(o, m)]
    BY DEF Placed
  <2>1. m \in DOMAIN k.turn /\ m # n /\ m <= n /\ m \in Nat
    BY <1>6, <1>7, <1>8
  <2>2. n \notin MarkerLoops(m)
    BY <1>2, <1>6, <2>1, LinesNest, <1>1 DEF MarkerLoops
  <2>3. Within(o, m) = Within(k, m) /\ Within(k, m).line = m
    BY <1>1, <1>6, <1>11, <2>1, <2>2, WithinIs
  <2>4. Within(o, m) # a
    BY <2>1, <2>3
  <2> QED BY <1>3, <1>8, <2>1, <2>3, <2>4
<1>14. o \notin DOMAIN domains
  <2>1. n \in MarkerLoops(o.line) \ DOMAIN o.turn
    BY <1>1, <1>8
  <2> QED BY <2>1 DEF Structure, DomainsStand
<1>15. ASSUME NEW m \in MarkerLoops(o.line) \ DOMAIN o.turn
       PROVE  Within(o, m) \notin DOMAIN domains
  <2>1. CASE m = n
    BY <1>2, <1>12, <2>1
  <2>2. CASE m # n
    <3>1. m \in MarkerLoops(k.line) \ DOMAIN k.turn /\ m \in At(o).around
      BY <1>1, <1>8, <1>15, <2>2 DEF MarkerLoops
    <3>2. CASE n \in MarkerLoops(m)
      <4>1. DOMAIN Within(o, m).turn = DOMAIN o.turn \cap MarkerLoops(m) /\ Within(o, m).line = m
        BY <1>1, <1>9, <3>1, WithinIs
      <4>2. DOMAIN Within(o, m).turn # MarkerLoops(Within(o, m).line)
        BY <1>8, <3>2, <4>1
      <4> QED BY <4>2 DEF Structure, DomainsStand
    <3>3. CASE n \notin MarkerLoops(m)
      BY <1>1, <1>4, <1>8, <1>11, <3>1, <3>3
    <3> QED BY <3>2, <3>3
  <2> QED BY <2>1, <2>2
<1>16. Current(o)
  BY <1>13, <1>14, <1>15 DEF Current
<1> QED BY <1>5, <1>8, <1>9, <1>10, <1>12, <1>16

LEMMA CurrentRest ==
    ASSUME Structure, NEW a \in Outermost, UNCHANGED source,
           DOMAIN domains' = DOMAIN domains \cup {a}, domains'[a] = Run(a),
           \A d \in DOMAIN domains : domains'[d] = domains[d],
           NEW k, IsKey(k), Current(k)', ~(a.line \in DOMAIN k.turn /\ Within(k, a.line) = a)
    PROVE  Current(k) /\ k # a /\ k \notin Body(a)
<1>1. source \in Sources /\ \A m \in DOMAIN k.turn : m \in At(k).around
  BY DEF Structure, IsKey, At, MarkerLoops
<1>2. \A m \in DOMAIN k.turn : Within(k, m) \in DOMAIN domains' /\ k.turn[m] \in DOMAIN domains'[Within(k, m)]
  BY SourceKept DEF Current, Placed
<1>3. /\ k \notin DOMAIN domains'
      /\ \A m \in MarkerLoops(k.line) \ DOMAIN k.turn : Within(k, m) \notin DOMAIN domains'
  BY SourceKept DEF Current
<1>4. \A m \in DOMAIN k.turn : Within(k, m) # a
  BY <1>1, WithinIs
<1>5. Current(k)
  BY <1>2, <1>3, <1>4 DEF Current, Placed
<1>6. k \notin Body(a)
  <2>1. k \in Body(a) => a.line \in MarkerLoops(k.line) \ DOMAIN k.turn /\ Within(k, a.line) = a
    BY BodyIs
  <2> QED BY <1>3, <2>1
<1> QED BY <1>3, <1>5, <1>6

LEMMA FaithfulExpand ==
    ASSUME Structure, Careful, Faithful, NEW a \in Outermost, Expand(a)
    PROVE  Faithful'
<1>0. stage = "unrolling" /\ source \in Sources
  BY DEF Expand, Structure
<1>1. CASE Refuse
  BY <1>1, FaithfulKept DEF Refuse
<1>2. CASE /\ ~CannotExpand(a)
           /\ tree' = Expanded(a)
           /\ domains' = [d \in DOMAIN domains \cup {a} |-> IF d = a THEN Run(a) ELSE domains[d]]
           /\ UNCHANGED <<source, bound, stage>>
  <2>1. /\ DOMAIN domains' = DOMAIN domains \cup {a} /\ domains'[a] = Run(a)
        /\ \A d \in DOMAIN domains : domains'[d] = domains[d]
    BY <1>2, OutermostIs
  <2>2. Open(a) = {} /\ DemandsIn(Body(a)) = {}
    BY <1>2 DEF CannotExpand, CanRun, BadBody
  <2>3. \A k : At(k)' = At(k) /\ (IsKey(k)' <=> IsKey(k)) /\ \A m : Within(k, m)' = Within(k, m)
    BY <1>2, SourceKept
  <2>4. \A k : IsKey(k) /\ Placed(k) => Meant(k, bound)' = Meant(k, bound)
    <3>1. \A k, names : IsKey(k) /\ Placed(k) => Meant(k, names)' = Meant(k, names)
      BY <1>0, <1>2, <2>1, MeantKept
    <3> QED BY <1>2, <3>1
  <2>5. \A k \in DOMAIN tree : IsKey(k) /\ Placed(k) /\ tree[k].known = Meant(k, bound)
    BY DEF Faithful, KnownMeant, Structure, TreeStands
  <2>6. (bound \subseteq Externals)'
    BY <1>2, MeaningKept DEF Faithful
  <2>7. KnownMeant'
    <3>1. ASSUME NEW k \in DOMAIN tree' PROVE tree'[k].known = Meant(k, bound)'
      <4>1. CASE k \in Rest(a)
        <5>1. tree'[k] = tree[k] /\ k \in DOMAIN tree
          BY <1>2, <4>1, ExpandShape DEF Rest
        <5> QED BY <2>4, <2>5, <5>1
      <4>2. ASSUME NEW o \in Body(a), NEW i \in DOMAIN Run(a), k = CopyKey(o, a, i)
            PROVE  tree'[k].known = Meant(k, bound)'
        <5>1. tree'[k] = CopyStatement(o, a, i)
          BY <1>2, <4>2, ExpandShape
        <5>2. CopyStatement(o, a, i).known = Meant(k, bound)'
          BY <1>2, <2>1, <4>2, CopyMeant
        <5> QED BY <5>1, <5>2
      <4> QED BY <1>2, <4>1, <4>2, ExpandShape
    <3> QED BY <3>1 DEF KnownMeant
  <2>8. DomainsMeant'
    <3>1. ASSUME NEW d \in DOMAIN domains
          PROVE  domains[d] = DomainValues(At(d).e, Meant(d, bound)') /\ DOMAIN Meant(d, bound)' = DOMAIN At(d).reads
      <4>1. Meant(d, bound)' = Meant(d, bound)
        BY <2>4 DEF Structure, DomainsStand
      <4> QED BY <4>1 DEF Faithful, DomainsMeant
    <3>2. Run(a) = DomainValues(At(a).e, Meant(a, bound)') /\ DOMAIN Meant(a, bound)' = DOMAIN At(a).reads
      <4>1. a \in DOMAIN tree /\ Meant(a, bound)' = Meant(a, bound) /\ tree[a].known = Meant(a, bound)
        BY <2>4, <2>5, OutermostIs
      <4>2. DOMAIN Meant(a, bound) \subseteq DOMAIN At(a).reads
        BY DEF Meant
      <4>3. DOMAIN At(a).reads \subseteq DOMAIN tree[a].known
        BY <2>2 DEF Open
      <4> QED BY <4>1, <4>2, <4>3 DEF Run
    <3> QED BY <2>1, <2>3, <3>1, <3>2 DEF DomainsMeant
  <2>9. ASSUME NEW k, IsKey(k), Current(k)'
        PROVE  k \in DOMAIN tree' <=> ~Gone(k.line)
    <3>1. CASE a.line \in DOMAIN k.turn /\ Within(k, a.line) = a
      <4>1. PICK o, i : /\ IsKey(o) /\ Current(o) /\ o.line = k.line
                        /\ i \in DOMAIN Run(a) /\ k = CopyKey(o, a, i)
                        /\ a.line \in At(o).around \ DOMAIN o.turn /\ Within(o, a.line) = a
        BY <1>2, <2>1, <2>9, <3>1, CurrentCopy
      <4>2. o \in DOMAIN tree <=> ~Gone(k.line)
        BY <4>1 DEF Faithful, TreeComplete
      <4>3. o \in DOMAIN tree => o \in Body(a)
        BY <1>0, <4>1, AroundIs DEF Body
      <4>4. o \in Body(a) => k \in DOMAIN tree'
        BY <1>2, <4>1, ExpandShape
      <4>5. k \in DOMAIN tree' => o \in DOMAIN tree
        <5> SUFFICES ASSUME k \in DOMAIN tree' PROVE o \in DOMAIN tree
          OBVIOUS
        <5>1. k \notin Rest(a)
          <6>1. SUFFICES ASSUME k \in DOMAIN tree PROVE FALSE
            BY DEF Rest
          <6>2. a \in DOMAIN domains
            BY <3>1, <6>1 DEF Structure, TreeStands, Placed
          <6> QED BY <6>2, OutermostIs
        <5>2. PICK b \in Body(a), c \in DOMAIN Run(a) : k = CopyKey(b, a, c)
          BY <1>2, <5>1, ExpandShape
        <5>3. b.line = o.line /\ DOMAIN b.turn = DOMAIN o.turn /\ \A m \in DOMAIN b.turn : b.turn[m] = o.turn[m]
          <6>1. /\ k.line = b.line /\ DOMAIN k.turn = DOMAIN b.turn \cup {a.line}
                /\ \A m \in DOMAIN b.turn : k.turn[m] = b.turn[m]
            BY <5>2, CopyIs
          <6>2. a.line \notin DOMAIN b.turn
            BY BodyIs
          <6>3. /\ k.line = o.line /\ DOMAIN k.turn = DOMAIN o.turn \cup {a.line}
                /\ \A m \in DOMAIN o.turn : k.turn[m] = IF m = a.line THEN i ELSE o.turn[m]
            BY <4>1 DEF CopyKey, Key
          <6> QED BY <4>1, <6>1, <6>2, <6>3
        <5>4. IsKey(b) /\ b \in DOMAIN tree
          BY BodyIs
        <5>5. b = o
          BY <4>1, <5>3, <5>4, SameKey
        <5> QED BY <5>4, <5>5
      <4> QED BY <4>2, <4>3, <4>4, <4>5
    <3>2. CASE ~(a.line \in DOMAIN k.turn /\ Within(k, a.line) = a)
      <4>1. Current(k) /\ k # a /\ k \notin Body(a)
        BY <1>2, <2>1, <2>9, <3>2, CurrentRest
      <4>2. k \in DOMAIN tree <=> ~Gone(k.line)
        BY <2>9, <4>1 DEF Faithful, TreeComplete
      <4>3. k \in Rest(a) <=> k \in DOMAIN tree
        BY <4>1 DEF Rest
      <4>4. \A o \in Body(a), i \in DOMAIN Run(a) : k # CopyKey(o, a, i)
        <5> SUFFICES ASSUME NEW o \in Body(a), NEW i \in DOMAIN Run(a), k = CopyKey(o, a, i) PROVE FALSE
          OBVIOUS
        <5>1. DOMAIN k.turn = DOMAIN o.turn \cup {a.line} /\ Within(k, a.line) = a
          BY CopyIs
        <5> QED BY <3>2, <5>1
      <4> QED BY <1>2, <4>2, <4>3, <4>4, ExpandShape
    <3> QED BY <3>1, <3>2
  <2>10. TreeComplete'
    <3>1. \A l : Gone(l)' <=> Gone(l)
      BY <1>2, MeaningKept DEF Gone
    <3> QED BY <2>3, <2>9, <3>1 DEF TreeComplete
  <2>11. OpenOnce'
    <3>1. ASSUME NEW p \in ExternalReads, source[p[1]].reads[p[2]].x \notin bound
          PROVE  /\ Key(p[1], NoTurn) \in DOMAIN tree'
                 /\ \A k \in DOMAIN tree' : k.line = p[1] => k.turn = NoTurn
      <4>1. /\ Key(p[1], NoTurn) \in DOMAIN tree
            /\ \A k \in DOMAIN tree : k.line = p[1] => k.turn = NoTurn
        BY <3>1 DEF Faithful, OpenOnce
      <4>2. ASSUME NEW k \in DOMAIN tree, k.line = p[1]
            PROVE  k \in Rest(a)
        <5>1. At(k) = source[p[1]] /\ p[2] \in DOMAIN At(k).reads /\ At(k).reads[p[2]].external
          BY <4>2 DEF ExternalReads, At
        <5>2. ~HasMeaning(k, p[2], bound)
          BY <2>5, <3>1, <5>1, MarkerMeaning
        <5>3. p[2] \in Open(k)
          BY <2>5, <5>1, <5>2 DEF Open, Meant
        <5>4. OpenExternals(k) # {}
          BY <5>1, <5>3 DEF OpenExternals
        <5>5. k # a /\ k \notin Body(a)
          BY <2>2, <5>3, <5>4 DEF DemandsIn
        <5> QED BY <5>5 DEF Rest
      <4>3. Key(p[1], NoTurn).line = p[1]
        BY DEF Key
      <4>4. Key(p[1], NoTurn) \in DOMAIN tree'
        BY <1>2, <4>1, <4>2, <4>3, ExpandShape
      <4>5. ASSUME NEW k \in DOMAIN tree', k.line = p[1]
            PROVE  k.turn = NoTurn
        <5>1. CASE k \in Rest(a)
          BY <4>1, <4>5, <5>1 DEF Rest
        <5>2. ASSUME NEW o \in Body(a), NEW i \in DOMAIN Run(a), k = CopyKey(o, a, i)
              PROVE  FALSE
          <6>1. k.line = o.line /\ o \in DOMAIN tree
            BY <5>2, CopyIs, BodyIs
          <6>2. o \in Rest(a)
            BY <4>2, <4>5, <6>1
          <6> QED BY <6>2 DEF Rest
        <5> QED BY <1>2, <5>1, <5>2, ExpandShape
      <4> QED BY <4>4, <4>5
    <3>2. ExternalReads' = ExternalReads
      BY <1>2, MeaningKept
    <3> QED BY <1>2, <3>1, <3>2 DEF OpenOnce, Key, NoTurn
  <2>12. LoweredLast'
    BY <1>0, <1>2 DEF LoweredLast
  <2> QED BY <2>6, <2>7, <2>8, <2>10, <2>11, <2>12 DEF Faithful
<1> QED BY <1>1, <1>2 DEF Expand

-----------------------------------------------------------------------------
(* FAITHFUL is an invariant of careful sources. *)

LEMMA FaithfulInit == Init => Faithful
<1> SUFFICES ASSUME Init PROVE Faithful
  OBVIOUS
<1>0. Structure /\ bound = {} /\ DOMAIN domains = {} /\ stage = "open"
  BY StructureInit DEF Init
<1>1. ASSUME NEW k \in DOMAIN tree
      PROVE  k.line \in Lines /\ k.turn = NoTurn /\ k = Key(k.line, NoTurn) /\ tree[k].known = <<>>
  <2>1. PICK l \in Lines : k = Key(l, NoTurn)
    BY DEF Init
  <2>2. tree[k] = [known |-> <<>>, path |-> <<>>, refs |-> <<>>]
    BY DEF Init
  <2> QED BY <2>1, <2>2 DEF Key
<1>2. KnownMeant
  <2> SUFFICES ASSUME NEW k \in DOMAIN tree PROVE Meant(k, {}) = <<>>
    BY <1>0, <1>1 DEF KnownMeant
  <2>1. DOMAIN k.turn = {}
    BY <1>1 DEF NoTurn
  <2>2. \A j : ~HasMeaning(k, j, {})
    BY <2>1 DEF HasMeaning
  <2> QED BY <2>2 DEF Meant
<1>3. TreeComplete
  <2> SUFFICES ASSUME NEW k, IsKey(k), Placed(k) PROVE k \in DOMAIN tree
    BY <1>0 DEF TreeComplete, Gone, Current
  <2>1. DOMAIN k.turn = {} /\ k.line \in Lines
    BY <1>0 DEF Placed, IsKey
  <2>2. [m \in DOMAIN k.turn |-> k.turn[m]] = NoTurn
    BY <2>1 DEF NoTurn
  <2>3. k = Key(k.line, NoTurn)
    BY <2>2 DEF IsKey
  <2> QED BY <2>1, <2>3 DEF Init
<1>4. OpenOnce
  <2>1. \A p \in ExternalReads : p[1] \in Lines
    BY DEF ExternalReads
  <2>2. \A l \in Lines : Key(l, NoTurn) \in DOMAIN tree
    BY DEF Init
  <2> QED BY <1>1, <2>1, <2>2 DEF OpenOnce
<1> QED BY <1>0, <1>2, <1>3, <1>4 DEF Faithful, DomainsMeant, LoweredLast

LEMMA FaithfulLower ==
    ASSUME Structure, Faithful, Lower
    PROVE  Faithful'
<1>1. CASE Refuse
  BY <1>1, FaithfulKept DEF Refuse
<1>2. CASE /\ Demands = {} /\ ToExpand = {}
           /\ tree' = Lowered /\ UNCHANGED <<source, domains, bound>>
  <2>1. DOMAIN tree' = DOMAIN tree
    BY <1>2 DEF Lowered
  <2>2. ASSUME NEW k \in DOMAIN tree
        PROVE  tree'[k].known = tree[k].known /\ tree'[k].refs = PathValues(At(k).e, tree[k].known)
    <3>1. tree'[k] = [tree[k] EXCEPT !.refs = PathValues(At(k).e, tree[k].known)]
      BY <1>2 DEF Lowered
    <3>2. tree[k] = [known |-> tree[k].known, path |-> tree[k].path, refs |-> tree[k].refs]
      BY DEF Structure, TreeStands, IsEntry
    <3> QED BY <3>1, <3>2
  <2>3. \A k : At(k)' = At(k) /\ (IsKey(k)' <=> IsKey(k)) /\ \A m : Within(k, m)' = Within(k, m)
    BY <1>2, SourceKept
  <2>4. \A k : Meant(k, bound)' = Meant(k, bound)
    <3>1. \A k, j : Meaning(k, j)' = Meaning(k, j)
      BY <1>2, <2>3, MeaningKept DEF Meaning
    <3>2. \A k, names : Meant(k, names)' = Meant(k, names)
      BY <1>2, <2>3, <3>1, MeaningKept DEF Meant
    <3> QED BY <1>2, <3>2
  <2>5. (bound \subseteq Externals)'
    BY <1>2, MeaningKept DEF Faithful
  <2>6. KnownMeant'
    BY <2>1, <2>2, <2>4 DEF Faithful, KnownMeant
  <2>7. DomainsMeant'
    BY <1>2, <2>3, <2>4 DEF Faithful, DomainsMeant
  <2>8. TreeComplete'
    <3>1. \A k : (Current(k)' <=> Current(k)) /\ (Gone(k.line)' <=> Gone(k.line))
      BY <1>2, <2>3, SourceKept, MeaningKept DEF Current, Placed, Gone
    <3> QED BY <2>1, <2>3, <3>1 DEF Faithful, TreeComplete
  <2>9. OpenOnce'
    BY <1>2, <2>1, MeaningKept DEF Faithful, OpenOnce, Key, NoTurn
  <2>10. LoweredLast'
    <3>1. ToExpand' = {}
      BY <1>2, <2>1, <2>3 DEF ToExpand
    <3>2. \A k \in DOMAIN tree : OpenExternals(k)' = OpenExternals(k)
      BY <2>2, <2>3 DEF OpenExternals, Open
    <3>3. Demands' = {}
      BY <1>2, <2>1, <3>2 DEF Demands, DemandsIn
    <3> QED BY <2>1, <2>2, <2>3, <3>1, <3>3 DEF LoweredLast
  <2> QED BY <2>5, <2>6, <2>7, <2>8, <2>9, <2>10 DEF Faithful
<1> QED BY <1>1, <1>2 DEF Lower

(* STRUCTURE always, and FAITHFUL of a careful source. *)
IInv == Structure /\ (Careful => Faithful)

LEMMA FaithfulNext == IInv /\ [Next]_vars => IInv'
<1> SUFFICES ASSUME IInv, [Next]_vars PROVE IInv'
  OBVIOUS
<1>1. Structure /\ Structure'
  BY StructureNext DEF IInv
<1>2. source' = source
  BY DEF Next, Bind, Unroll, Expand, Unrolled, Lower, Refuse, vars
<1>3. SUFFICES ASSUME Careful PROVE Faithful'
  BY <1>1, <1>2, MeaningKept DEF IInv
<1>4. Faithful
  BY <1>3 DEF IInv
<1>5. CASE UNCHANGED vars
  BY <1>1, <1>4, <1>5, FaithfulKept DEF vars
<1>6. ASSUME NEW names, Bind(names) PROVE Faithful'
  BY <1>1, <1>3, <1>4, <1>6, FaithfulBind
<1>7. CASE Unroll \/ Unrolled
  BY <1>1, <1>4, <1>7, FaithfulKept DEF Unroll, Unrolled
<1>8. ASSUME NEW a \in Outermost, Expand(a) PROVE Faithful'
  BY <1>1, <1>3, <1>4, <1>8, FaithfulExpand
<1>9. CASE Lower
  BY <1>1, <1>4, <1>9, FaithfulLower
<1> QED BY <1>5, <1>6, <1>7, <1>8, <1>9 DEF Next

THEOREM ExpansionFaithful == Spec => []IInv
<1>1. Init => IInv
  BY StructureInit, FaithfulInit DEF IInv
<1> QED BY <1>1, FaithfulNext, PTL DEF Spec

-----------------------------------------------------------------------------
(* The properties. *)

(* BINDSETTLES: the open names are those not bound yet, before the step and *)
(* after it.                                                                *)
Settled == Careful => Demands = Externals \ bound

THEOREM BindsSettle == Spec => BindSettles
<1>1. IInv => Settled
  BY DemandsAre DEF IInv, Settled
<1>2. Settled' /\ [Next]_vars => [Careful => Demands' = Externals \ bound']_vars
  <2> SUFFICES ASSUME Settled', [Next]_vars, ~UNCHANGED vars, Careful
               PROVE  Demands' = Externals \ bound'
    OBVIOUS
  <2>1. source' = source
    BY DEF Next, Bind, Unroll, Expand, Unrolled, Lower, Refuse, vars
  <2>2. Externals' = Externals /\ (Careful' <=> Careful)
    BY <2>1, MeaningKept
  <2> QED BY <2>2 DEF Settled
<1> QED BY <1>1, <1>2, ExpansionFaithful, PTL DEF Spec, BindSettles

LEMMA CopiesAre ==
    ASSUME Structure, NEW k, NEW l \in Lines
    PROVE  k \in Copies(l) <=> IsKey(k) /\ Placed(k) /\ k.line = l /\ DOMAIN k.turn = MarkerLoops(l)
<1>1. ASSUME k \in Copies(l)
      PROVE  IsKey(k) /\ Placed(k) /\ k.line = l /\ DOMAIN k.turn = MarkerLoops(l)
  <2>1. PICK turn \in [MarkerLoops(l) -> Iterations] : k = Key(l, turn)
    BY <1>1 DEF Copies
  <2>2. k.line = l /\ k.turn = turn /\ DOMAIN k.turn = MarkerLoops(l) /\ k.turn = [m \in DOMAIN k.turn |-> k.turn[m]]
    BY <2>1 DEF Key
  <2>3. IsKey(k)
    BY <2>1, <2>2 DEF IsKey
  <2>4. Placed(k)
    BY <1>1, <2>2 DEF Copies, Placed
  <2> QED BY <2>2, <2>3, <2>4
<1>2. ASSUME IsKey(k), Placed(k), k.line = l, DOMAIN k.turn = MarkerLoops(l)
      PROVE  k \in Copies(l)
  <2> DEFINE turn == [m \in MarkerLoops(l) |-> k.turn[m]]
  <2>1. k = Key(l, turn)
    BY <1>2 DEF IsKey
  <2>2. turn \in [MarkerLoops(l) -> Iterations]
    BY <1>2 DEF Placed, Iterations
  <2> HIDE DEF turn
  <2> QED BY <1>2, <2>1, <2>2 DEF Copies, Placed
<1> QED BY <1>1, <1>2

(* EXPANSIONISMEANT: when a piece is lowered every external name is bound   *)
(* and every loop expanded, so what is meant as far as they are is what is  *)
(* meant, and a statement that is current is a copy its line is to have.    *)
THEOREM ExpansionsMeant == Spec => []ExpansionIsMeant
<1>1. IInv => ExpansionIsMeant
  <2> SUFFICES ASSUME Structure, Faithful, Careful, stage = "lowered"
               PROVE  /\ DOMAIN domains = UNION {Copies(l) : l \in OfKind("astichi_for")}
                      /\ \A d \in DOMAIN domains : domains[d] = DomainValues(At(d).e, Meant(d, Externals))
                      /\ DOMAIN tree = UNION {Copies(l) : l \in {n \in Lines : Left(n)}}
                      /\ \A k \in DOMAIN tree :
                            /\ tree[k].known = Meant(k, Externals)
                            /\ tree[k].refs = PathValues(At(k).e, Meant(k, Externals))
                            /\ At(k).kind = "hole" => Numbers(tree[k].path, k.turn)
    BY DEF IInv, ExpansionIsMeant
  <2>1. ToExpand = {} /\ bound = Externals
    <3>1. ToExpand = {} /\ Demands = {}
      BY DEF Faithful, LoweredLast
    <3>2. bound \subseteq Externals /\ Demands = Externals \ bound
      BY DemandsAre DEF Faithful
    <3> QED BY <3>1, <3>2
  <2>2. ASSUME NEW k, IsKey(k), Placed(k), DOMAIN k.turn = MarkerLoops(k.line), k \notin DOMAIN domains
        PROVE  k \in DOMAIN tree <=> ~Gone(k.line)
    BY <2>2 DEF Current, Faithful, TreeComplete
  <2>3. \A d \in DOMAIN domains :
            IsKey(d) /\ Placed(d) /\ d.line \in OfKind("astichi_for") /\ DOMAIN d.turn = MarkerLoops(d.line)
    BY DEF Structure, DomainsStand, IsKey, OfKind, At
  <2>4. DOMAIN domains = UNION {Copies(l) : l \in OfKind("astichi_for")}
    <3>1. ASSUME NEW l \in OfKind("astichi_for"), NEW k \in Copies(l)
          PROVE  k \in DOMAIN domains
      <4>1. l \in Lines /\ source[l].kind = "astichi_for"
        BY DEF OfKind
      <4>2. IsKey(k) /\ Placed(k) /\ k.line = l /\ DOMAIN k.turn = MarkerLoops(l)
        BY <4>1, CopiesAre
      <4>3. ~Gone(l) /\ k \notin DOMAIN tree
        BY <2>1, <4>1, <4>2 DEF Gone, ToExpand, At
      <4> QED BY <2>2, <4>2, <4>3
    <3>2. ASSUME NEW d \in DOMAIN domains
          PROVE  d.line \in OfKind("astichi_for") /\ d \in Copies(d.line)
      BY <2>3, CopiesAre DEF OfKind
    <3> QED BY <3>1, <3>2
  <2>5. DOMAIN tree = UNION {Copies(l) : l \in {n \in Lines : Left(n)}}
    <3>1. ASSUME NEW l \in Lines, Left(l), NEW k \in Copies(l)
          PROVE  k \in DOMAIN tree
      <4>1. IsKey(k) /\ Placed(k) /\ k.line = l /\ DOMAIN k.turn = MarkerLoops(l)
        BY CopiesAre
      <4>2. k \notin DOMAIN domains /\ ~Gone(l)
        BY <2>3, <3>1, <4>1 DEF Left, Gone, OfKind
      <4> QED BY <2>2, <4>1, <4>2
    <3>2. ASSUME NEW k \in DOMAIN tree
          PROVE  k.line \in Lines /\ Left(k.line) /\ k \in Copies(k.line)
      <4>1. IsKey(k) /\ Placed(k) /\ k.line \in Lines /\ k \notin DOMAIN domains /\ source \in Sources
        BY DEF Structure, TreeStands, IsKey
      <4>2. DOMAIN k.turn = MarkerLoops(k.line) /\ source[k.line].kind # "astichi_for"
        BY <2>1, TreeTurned
      <4>3. k \in Copies(k.line)
        BY <4>1, <4>2, CopiesAre
      <4>4. ~Gone(k.line)
        BY <2>2, <4>1, <4>2
      <4>5. source[k.line].kind = "external" => source[k.line].x \in Externals
        <5> SUFFICES ASSUME source[k.line].kind = "external" PROVE source[k.line].x \in Externals
          OBVIOUS
        <5>1. source[k.line].reads = <<[x |-> source[k.line].x, external |-> TRUE, hidden |-> {}, deferred |-> FALSE]>>
          BY <4>1, SourcesAssumption DEF WellFormed, Lines
        <5>2. <<k.line, 1>> \in ExternalReads /\ source[k.line].reads[1].x = source[k.line].x
          BY <4>1, <5>1 DEF ExternalReads
        <5> QED BY <5>2 DEF Externals
      <4>6. Left(k.line)
        BY <2>1, <4>2, <4>4, <4>5 DEF Left, Gone
      <4> QED BY <4>1, <4>3, <4>6
    <3>3. UNION {Copies(l) : l \in {n \in Lines : Left(n)}} \subseteq DOMAIN tree
      BY <3>1
    <3>4. DOMAIN tree \subseteq UNION {Copies(l) : l \in {n \in Lines : Left(n)}}
      BY <3>2
    <3> QED BY <3>3, <3>4
  <2>6. \A d \in DOMAIN domains : domains[d] = DomainValues(At(d).e, Meant(d, Externals))
    BY <2>1 DEF Faithful, DomainsMeant
  <2>7. \A k \in DOMAIN tree :
            /\ tree[k].known = Meant(k, Externals)
            /\ tree[k].refs = PathValues(At(k).e, Meant(k, Externals))
            /\ At(k).kind = "hole" => Numbers(tree[k].path, k.turn)
    BY <2>1 DEF Faithful, KnownMeant, LoweredLast, Structure, TreeStands
  <2> QED BY <2>4, <2>5, <2>6, <2>7
<1> QED BY <1>1, ExpansionFaithful, PTL
=============================================================================
