------------------------ MODULE BuilderHandlesProofs ------------------------
(***************************************************************************)
(* The handles only ever make steps of the builder graph, so what is       *)
(* proved of the graph holds under them; and the wirings they make name    *)
(* slots of their pieces, for any names, bodies and paths.  The second     *)
(* needs the demand a chain carries to stay looked up between to() and the *)
(* last name: nothing but a registration or a replacement disturbs it, and *)
(* both are remembered in late.                                            *)
(***************************************************************************)
EXTENDS BuilderHandles, BuilderGraphProofs

(* A chain past to() carries a demand its piece has. *)
ChainsNameSlots ==
    \A c \in chain :
        c.target # NoName /\ c.demand.instance \notin late => HasDemand(c.demand)

HInv ==
    /\ IInv
    /\ chain \subseteq Chain
    /\ WiringsNameSlots
    /\ ChainsNameSlots

-----------------------------------------------------------------------------
(* A wiring a chain ends in is one the graph's tables hold.                 *)
LEMMA WiringTyped ==
    ASSUME NEW c \in chain, chain \subseteq Chain, NEW x \in Ident, EndsAt(c, x)
    PROVE  WiringOf(c, x) \in Binding
<1>1. c \in Chain /\ c.target \in Name
  BY DEF EndsAt, Chain
<1> QED BY <1>1 DEF WiringOf, Binding, Site, Chain

(* Every step of the handles is a step of the graph, or leaves it alone.    *)
LEMMA HandleStep ==
    ASSUME chain \subseteq Chain, [HNext]_handleVars
    PROVE  [Next]_vars
<1>1. CASE UNCHANGED handleVars
  BY <1>1 DEF handleVars
<1>2. ASSUME NEW n \in Name, NEW b \in Body, NEW p \in Placed, Register(n, b, p)
      PROVE  Next
  BY <1>2, PathsAssumption DEF Register, Next
<1>3. ASSUME NEW n \in Name, NEW b \in Body, Replace(n, b) PROVE Next
  BY <1>3 DEF Replace, Next
<1>4. ASSUME NEW t \in Name, NEW s \in Name, NEW h \in Hole, NEW o \in Order,
             Connect(t, h, s, o)
      PROVE  Next
  BY <1>4 DEF Connect, Next
<1>5. ASSUME NEW b \in Binding, CallAssign(b) \/ CallBind(b) PROVE Next
  BY <1>5 DEF CallAssign, CallBind, Next
<1>6. ASSUME NEW c \in chain, NEW x \in Ident, EndAssign(c, x) PROVE Next
  BY <1>6, WiringTyped DEF EndAssign, Next
<1>7. ASSUME NEW c \in chain, NEW x \in Ident, EndBind(c, x) PROVE Next
  BY <1>7, WiringTyped DEF EndBind, Next
<1>8. ASSUME NEW leaf \in DOMAIN committed, Overrun(leaf) PROVE Next
  BY <1>8 DEF Overrun, Next
<1>9. CASE \/ \E surface \in Surface, n \in Name, x \in Ident : Begin(surface, n, x)
           \/ \E c \in chain, x \in Ident : DescendSource(c, x)
           \/ \E c \in chain, n \in Name : To(c, n)
           \/ \E c \in chain, x \in Ident : DescendTarget(c, x)
  BY <1>9 DEF Begin, DescendSource, To, DescendTarget
<1> QED BY <1>1, <1>2, <1>3, <1>4, <1>5, <1>6, <1>7, <1>8, <1>9 DEF HNext

-----------------------------------------------------------------------------
(* What was looked up stays true while no piece comes or is replaced.       *)
LEMMA SlotsKept ==
    ASSUME UNCHANGED instances, NEW site
    PROVE  /\ HasDemand(site)' <=> HasDemand(site)
           /\ HasSupply(site)' <=> HasSupply(site)
BY DEF HasDemand, HasSupply, Registered

(* A step that adds at most one wiring, whose slots were looked up (or      *)
(* whose demand's piece is late), keeps the wirings right.                  *)
LEMMA WiringAdded ==
    ASSUME WiringsNameSlots, ChainsNameSlots, UNCHANGED <<instances, chain, late>>,
           NEW b, Wirings' \subseteq Wirings \cup {b},
           b.demand.instance \notin late => HasDemand(b.demand),
           HasSupply(b.supply)
    PROVE  WiringsNameSlots' /\ ChainsNameSlots'
BY SlotsKept DEF WiringsNameSlots, ChainsNameSlots

(* A piece comes or is replaced: the wirings that mention it are late.      *)
LEMMA PieceChanges ==
    ASSUME WiringsNameSlots, ChainsNameSlots, NEW n,
           \A m : m # n => /\ m \in Registered' <=> m \in Registered
                           /\ m \in Registered => instances'[m] = instances[m],
           UNCHANGED <<assigns, identifierBindings, chain>>, late' = LateWith(n)
    PROVE  WiringsNameSlots' /\ ChainsNameSlots'
<1>1. \A site : site.instance # n => /\ HasDemand(site)' <=> HasDemand(site)
                                     /\ HasSupply(site)' <=> HasSupply(site)
  BY DEF HasDemand, HasSupply
<1>2. Wirings' = Wirings /\ late \subseteq late'
  BY DEF Wirings, LateWith
<1>3. ASSUME NEW b \in Wirings PROVE n \in {b.demand.instance, b.supply.instance} => n \in late'
  BY <1>3 DEF LateWith, Mentions
<1>4. ASSUME NEW c \in chain, c.target # NoName PROVE c.demand.instance = n => n \in late'
  BY <1>4 DEF LateWith, Mentions
<1>5. WiringsNameSlots'
  <2> SUFFICES ASSUME NEW b \in Wirings
               PROVE  /\ b.demand.instance \notin late' => HasDemand(b.demand)'
                      /\ b.supply.instance \notin late' => HasSupply(b.supply)'
    BY <1>2 DEF WiringsNameSlots
  <2> QED BY <1>1, <1>2, <1>3 DEF WiringsNameSlots
<1>6. ChainsNameSlots'
  BY <1>1, <1>2, <1>4 DEF ChainsNameSlots
<1> QED BY <1>5, <1>6

(* Taking a position out of a list takes no element in.                     *)
LEMMA ElementsRemoved ==
    ASSUME NEW S, NEW s \in Seq(S), NEW i \in DOMAIN s
    PROVE  ToSet(RemoveAt(s, i)) \subseteq ToSet(s)
<1>1. \A j \in DOMAIN RemoveAt(s, i) : \E k \in DOMAIN s : RemoveAt(s, i)[j] = s[k]
  <2> TAKE j \in DOMAIN RemoveAt(s, i)
  <2>1. /\ j \in 1 .. Len(s) - 1
        /\ RemoveAt(s, i)[j] = IF j < i THEN s[j] ELSE s[j + 1]
    BY RemoveAtShifts
  <2>2. j \in DOMAIN s /\ j + 1 \in DOMAIN s
    BY <2>1
  <2> QED BY <2>1, <2>2
<1> QED BY <1>1 DEF ToSet

-----------------------------------------------------------------------------
LEMMA HandlesInit == HInit => HInv
<1> SUFFICES ASSUME HInit PROVE HInv
  OBVIOUS
<1>1. IInv
  BY InitInvariant DEF HInit
<1>2. Wirings = {} /\ chain = {}
  BY DEF HInit, Init, Wirings, ToSet
<1> QED BY <1>1, <1>2 DEF HInv, WiringsNameSlots, ChainsNameSlots

LEMMA HandlesStep == HInv /\ [HNext]_handleVars => HInv'
<1> SUFFICES ASSUME HInv, [HNext]_handleVars PROVE HInv'
  OBVIOUS
<1> USE DEF HInv
<1>a. IInv'
  BY HandleStep, StepInvariant
<1>t. assigns \in Seq(Binding) /\ identifierBindings \in Seq(Binding)
  BY DEF IInv, TypeOK
<1> DEFINE Kept == chain' \subseteq Chain /\ WiringsNameSlots' /\ ChainsNameSlots'
<1>1. ASSUME NEW n \in Name, NEW b \in Body, NEW p \in Placed, Register(n, b, p)
      PROVE  Kept
  <2>1. \A m : m # n => /\ m \in Registered' <=> m \in Registered
                        /\ m \in Registered => instances'[m] = instances[m]
    BY <1>1 DEF Register, AddInstance, Registered
  <2>2. UNCHANGED <<assigns, identifierBindings, chain>> /\ late' = LateWith(n)
    BY <1>1 DEF Register, AddInstance
  <2> QED BY <2>1, <2>2, PieceChanges
<1>2. ASSUME NEW n \in Name, NEW b \in Body, Replace(n, b) PROVE Kept
  <2>1. \A m : m # n => /\ m \in Registered' <=> m \in Registered
                        /\ m \in Registered => instances'[m] = instances[m]
    BY <1>2 DEF Replace, ReplaceInstance, Registered
  <2>2. UNCHANGED <<assigns, identifierBindings, chain>> /\ late' = LateWith(n)
    BY <1>2 DEF Replace, ReplaceInstance
  <2> QED BY <2>1, <2>2, PieceChanges
<1>3. ASSUME NEW t \in Name, NEW s \in Name, NEW h \in Hole, NEW o \in Order,
             Connect(t, h, s, o)
      PROVE  Kept
  <2>1. UNCHANGED <<instances, assigns, identifierBindings, chain, late>>
    BY <1>3 DEF Connect, AddAdditiveEdge
  <2> QED BY <2>1, SlotsKept DEF WiringsNameSlots, ChainsNameSlots, Wirings
<1>4. ASSUME NEW b \in Binding, NEW m, RecordAssign(b, m), UNCHANGED identifierBindings
      PROVE  Wirings' \subseteq Wirings \cup {b}
  <2>1. CASE b \in ToSet(assigns)
    BY <1>4, <2>1 DEF RecordAssign, Wirings
  <2>2. CASE b \notin ToSet(assigns)
    <3>1. assigns' = Append(assigns, b)
      BY <1>4, <2>2 DEF RecordAssign
    <3>2. ToSet(assigns') = ToSet(assigns) \cup {b}
      BY <1>t, <3>1, ElementsAppend
    <3> QED BY <1>4, <3>2 DEF Wirings
  <2> QED BY <2>1, <2>2
<1>5. ASSUME NEW b \in Binding, AddIdentifierBinding(b)
      PROVE  Wirings' \subseteq Wirings \cup {b}
  BY <1>5, <1>t, ElementsAppend DEF AddIdentifierBinding, Wirings
<1>6. ASSUME NEW b \in Binding, CallAssign(b) PROVE Kept
  <2>1. Wirings' \subseteq Wirings \cup {b}
    BY <1>4, <1>6 DEF CallAssign, AddAssign
  <2> QED BY <1>6, <2>1, WiringAdded DEF CallAssign, AddAssign
<1>7. ASSUME NEW b \in Binding, CallBind(b) PROVE Kept
  BY <1>5, <1>7, WiringAdded DEF CallBind, AddIdentifierBinding
<1>8. ASSUME NEW surface \in Surface, NEW n \in Name, NEW x \in Ident, Begin(surface, n, x)
      PROVE  Kept
  <2>1. chain' \subseteq Chain
    BY <1>8, PathsAssumption DEF Begin, Chain, Site
  <2>2. ChainsNameSlots'
    BY <1>8 DEF Begin, ChainsNameSlots
  <2>3. WiringsNameSlots'
    BY <1>8, SlotsKept DEF Begin, vars, graph, WiringsNameSlots, Wirings
  <2> QED BY <2>1, <2>2, <2>3
<1>9. ASSUME NEW c \in chain, NEW x \in Ident, DescendSource(c, x) PROVE Kept
  <2> DEFINE path == Append(c.demand.path, c.demand.name)
             site == [instance |-> c.demand.instance, path |-> path, name |-> x]
  <2>a. c \in Chain /\ path \in RefPath /\ chain' = {[c EXCEPT !.demand = site]}
    BY <1>9 DEF DescendSource
  <2>b. site \in Site
    BY <2>a DEF Chain, Site
  <2> HIDE DEF site
  <2>1. chain' \subseteq Chain
    BY <2>a, <2>b DEF Chain
  <2>2. ChainsNameSlots'
    BY <1>9 DEF DescendSource, ChainsNameSlots, Chain
  <2>3. WiringsNameSlots'
    BY <1>9, SlotsKept DEF DescendSource, vars, graph, WiringsNameSlots, Wirings
  <2> QED BY <2>1, <2>2, <2>3
<1>10. ASSUME NEW c \in chain, NEW n \in Name, To(c, n) PROVE Kept
  <2>1. chain' \subseteq Chain
    BY <1>10 DEF To, Chain
  <2>2. ChainsNameSlots'
    BY <1>10, SlotsKept DEF To, vars, graph, ChainsNameSlots, Chain
  <2>3. WiringsNameSlots'
    BY <1>10, SlotsKept DEF To, vars, graph, WiringsNameSlots, Wirings
  <2> QED BY <2>1, <2>2, <2>3
<1>11. ASSUME NEW c \in chain, NEW x \in Ident, DescendTarget(c, x) PROVE Kept
  <2>1. chain' \subseteq Chain
    BY <1>11 DEF DescendTarget, Chain
  <2>2. ChainsNameSlots'
    BY <1>11, SlotsKept DEF DescendTarget, vars, graph, ChainsNameSlots, Chain
  <2>3. WiringsNameSlots'
    BY <1>11, SlotsKept DEF DescendTarget, vars, graph, WiringsNameSlots, Wirings
  <2> QED BY <2>1, <2>2, <2>3
<1>12. ASSUME NEW c \in chain, NEW x \in Ident, EndsAt(c, x)
       PROVE  /\ WiringOf(c, x) \in Binding
              /\ WiringOf(c, x).demand.instance \notin late => HasDemand(WiringOf(c, x).demand)
              /\ HasSupply(WiringOf(c, x).supply)
  BY <1>12, WiringTyped DEF EndsAt, WiringOf, ChainsNameSlots
<1>13. ASSUME NEW c \in chain, NEW x \in Ident, EndAssign(c, x) PROVE Kept
  <2>1. Wirings' \subseteq Wirings \cup {WiringOf(c, x)}
    BY <1>4, <1>12, <1>13 DEF EndAssign, CommitAssign
  <2> QED BY <1>12, <1>13, <2>1, WiringAdded DEF EndAssign, CommitAssign
<1>14. ASSUME NEW c \in chain, NEW x \in Ident, EndBind(c, x) PROVE Kept
  <2>1. Wirings' \subseteq Wirings \cup {WiringOf(c, x)}
    BY <1>5, <1>12, <1>14 DEF EndBind
  <2> QED BY <1>12, <1>14, <2>1, WiringAdded DEF EndBind, AddIdentifierBinding
<1>15. ASSUME NEW leaf \in DOMAIN committed, Overrun(leaf) PROVE Kept
  <2>1. LastIndexOf(assigns, committed[leaf].binding) \in DOMAIN assigns
    BY <1>15, <1>t, LastIndexIsThePosition
       DEF Overrun, ContinueChain, IInv, OneWiringPerDemand
  <2>2. Wirings' \subseteq Wirings
    BY <1>15, <1>t, <2>1, ElementsRemoved DEF Overrun, ContinueChain, TakeBack, Wirings
  <2>3. UNCHANGED <<instances, chain, late>>
    BY <1>15 DEF Overrun, ContinueChain, TakeBack
  <2> QED BY <2>2, <2>3, SlotsKept DEF WiringsNameSlots, ChainsNameSlots
<1>16. ASSUME UNCHANGED handleVars PROVE Kept
  BY <1>16, SlotsKept DEF handleVars, vars, graph, WiringsNameSlots, ChainsNameSlots, Wirings
<1>b. Kept
  BY <1>1, <1>2, <1>3, <1>6, <1>7, <1>8, <1>9, <1>10, <1>11, <1>13, <1>14, <1>15,
     <1>16 DEF HNext
<1> QED BY <1>a, <1>b

LEMMA HandlesInvariance == HSpec => []HInv
BY HandlesInit, HandlesStep, PTL DEF HSpec

(* Whatever the handles are used for, the builder graph goes through a      *)
(* behaviour of its own: all that is proved of the graph holds under them.  *)
THEOREM HandlesFollowGraph == HSpec => Spec
<1>1. HInit => Init
  BY DEF HInit
<1>2. HInv /\ [HNext]_handleVars => [Next]_vars
  BY HandleStep DEF HInv
<1> QED BY <1>1, <1>2, HandlesInvariance, PTL DEF HSpec, Spec

(* assign and bind_identifier, called or chained, record wirings between    *)
(* slots their pieces have, but for pieces that came or changed since.      *)
THEOREM WiringsStayNamed == HSpec => []WiringsNameSlots
<1>1. HInv => WiringsNameSlots
  BY DEF HInv
<1> QED BY <1>1, HandlesInvariance, PTL
=============================================================================
