----------------------- MODULE GeneratedAstCacheProofs -----------------------
(***************************************************************************)
(* Proofs about GeneratedAstCache, for any number of users, graphs and     *)
(* digests: final files are never torn, entries stay, temp files go; and,  *)
(* where the manifest tells graphs apart, a cached call returns the tree   *)
(* of its own graph, as ExecutableAst promises of the plain one.           *)
(***************************************************************************)
EXTENDS GeneratedAstCache, TLAPS

(* The invariant that carries them all: every payload anywhere is trusted,  *)
(* a store is only under way for a graph that was built, and a temp file    *)
(* that is about to be renamed holds its whole entry.                       *)
CallsAsk == \A u \in User : step[u] = "idle" <=> asked[u] = Nothing

StoresBuilt ==
    \A u \in User : step[u] \in {"create", "write", "replace"} =>
        asked[u] \notin Unbuildable

TempOfStore == \A u \in User : temp[u] # Nothing => step[u] \in {"write", "replace"}

TempWhole == \A u \in User : step[u] = "replace" => temp[u] = EntryFor(asked[u])

AllTrusted ==
    /\ \A u \in User, d \in Digest : Trusted(memory[u][d])
    /\ \A d \in Digest : Trusted(disk[d])

(* What the guarantee rests on, and the code does not ensure: manifests     *)
(* tell graphs apart when all their composables were parsed by Python and   *)
(* none was built with shells that keep names of their own; graphs on the   *)
(* native hot path, and built ones, may share a manifest.                   *)
ManifestTells == \A g, h \in Graph : ManifestOf(g) = ManifestOf(h) => g = h

Contents == ManifestTells => AllTrusted /\ ServesBuiltTree

Inv ==
    /\ TypeOK
    /\ CallsAsk
    /\ StoresBuilt
    /\ TempWhole
    /\ TempOfStore
    /\ Contents

LEMMA KeyInDigest == ASSUME NEW g \in Graph PROVE KeyDigest(g) \in Digest
BY CacheAssumption DEF KeyDigest, ManifestOf, Manifest, Composable

LEMMA EntryServes ==
    ASSUME NEW g \in Graph
    PROVE  EntryFor(g) \in Entry /\ Serves(EntryFor(g), g) /\ TreeOf[g] \in Tree
<1>1. ManifestOf(g) \in Manifest /\ TreeOf[g] \in Tree
    BY CacheAssumption DEF ManifestOf, Manifest, Composable, Tree, TreeOf
<1>2. QED
    BY <1>1, KeyInDigest DEF EntryFor, Entry, Serves

(* The entry of a graph that was built is trusted, unless another graph has *)
(* the same manifest.                                                       *)
LEMMA EntryIsTrusted ==
    ASSUME NEW g \in Graph \ Unbuildable, ManifestTells
    PROVE  Trusted(EntryFor(g))
BY DEF EntryFor, Trusted, ManifestTells

LEMMA NothingIsTrusted == Trusted(Nothing) /\ Trusted(Garbage)
BY CacheAssumption DEF Trusted, Payload

LEMMA InitInv == Init => Inv
<1> SUFFICES ASSUME Init PROVE Inv
    OBVIOUS
<1>1. TypeOK /\ CallsAsk /\ StoresBuilt /\ TempWhole /\ TempOfStore
    BY CacheAssumption
       DEF Init, TypeOK, CallsAsk, StoresBuilt, TempWhole, TempOfStore, NoPayloads, Payload
<1>2. AllTrusted /\ ServesBuiltTree
    BY NothingIsTrusted DEF Init, AllTrusted, ServesBuiltTree, NoPayloads
<1>3. QED
    BY <1>1, <1>2 DEF Inv, Contents

LEMMA CallInv ==
    ASSUME Inv, NEW u \in User, NEW g \in Graph, Call(u, g)
    PROVE  Inv'
<1>1. TypeOK'
    BY CacheAssumption DEF Inv, TypeOK, Call, Goto, NoPayloads, Payload
<1>2. CallsAsk' /\ StoresBuilt' /\ TempWhole' /\ TempOfStore'
    BY CacheAssumption
       DEF Inv, TypeOK, Call, Goto, CallsAsk, StoresBuilt, TempWhole, TempOfStore, EntryFor
<1>3. ASSUME NEW w \in User, NEW d \in Digest
      PROVE  memory'[w][d] = memory[w][d] \/ memory'[w][d] = Nothing
    BY DEF Inv, TypeOK, Call, NoPayloads
<1>4. AllTrusted => AllTrusted'
    BY <1>3, NothingIsTrusted DEF Call, AllTrusted, Trusted
<1>5. ServesBuiltTree => ServesBuiltTree'
    BY DEF Inv, TypeOK, Call, ServesBuiltTree
<1>6. QED
    BY <1>1, <1>2, <1>4, <1>5 DEF Inv, Contents

(* A payload that serves the key is an entry with the key's own tree. *)
LEMMA HitIsBuilt ==
    ASSUME Inv, ManifestTells, NEW u \in User, asked[u] \in Graph,
           NEW payload \in Found(u), Serves(payload, asked[u])
    PROVE  asked[u] \notin Unbuildable /\ payload.tree = TreeOf[asked[u]]
<1>1. Trusted(payload)
    BY KeyInDigest, NothingIsTrusted DEF Inv, Contents, AllTrusted, Found
<1>2. QED
    BY <1>1 DEF Serves, Trusted

LEMMA LoadInv ==
    ASSUME Inv, NEW u \in User, Load(u)
    PROVE  Inv'
<1>1. asked[u] \in Graph
    BY DEF Inv, TypeOK, CallsAsk, Load
<1>0. PICK payload \in Found(u) :
          IF Serves(payload, asked[u])
          THEN Return(u, payload.tree)
          ELSE Goto(u, "build") /\ UNCHANGED <<asked, answers>>
    BY DEF Load
<1>2. CASE Serves(payload, asked[u])
    <2>1. Return(u, payload.tree) /\ UNCHANGED <<memory, disk, temp, orphans>>
        BY <1>0, <1>2 DEF Load
    <2>2. payload.tree \in Tree
        BY <1>2 DEF Serves, Entry
    <2>3. answers' \in [User -> SUBSET Service!Answer]
        BY <1>1, <2>1, <2>2 DEF Inv, TypeOK, Return, Service!Answer
    <2>4. temp[u] = Nothing
        BY DEF Inv, Load, TempWhole, TempOfStore
    <2>5. TypeOK' /\ CallsAsk' /\ StoresBuilt' /\ TempWhole' /\ TempOfStore'
        BY <2>1, <2>3, <2>4, CacheAssumption
           DEF Inv, TypeOK, Return, Goto, Load, CallsAsk, StoresBuilt, TempWhole, TempOfStore,
               EntryFor
    <2>6. AllTrusted => AllTrusted'
        BY <2>1 DEF AllTrusted, Trusted
    <2>7. ManifestTells => ServesBuiltTree'
        BY <1>1, <1>2, <2>1, HitIsBuilt DEF Inv, Contents, TypeOK, Return, ServesBuiltTree
    <2>8. QED
        BY <2>5, <2>6, <2>7 DEF Inv, Contents
<1>3. CASE ~Serves(payload, asked[u])
    <2>1. Goto(u, "build") /\ UNCHANGED <<asked, answers, memory, disk, temp, orphans>>
        BY <1>0, <1>3 DEF Load
    <2>2. TypeOK' /\ CallsAsk' /\ StoresBuilt' /\ TempWhole' /\ TempOfStore'
        BY <2>1 DEF Inv, TypeOK, Load, Goto, CallsAsk, StoresBuilt, TempWhole, TempOfStore,
                    EntryFor
    <2>3. Contents'
        BY <2>1 DEF Inv, Contents, AllTrusted, ServesBuiltTree, Trusted
    <2>4. QED
        BY <2>2, <2>3 DEF Inv
<1>4. QED
    BY <1>2, <1>3

(* Raising ends the call and keeps what is stored. *)
LEMMA RaiseInv ==
    ASSUME Inv, NEW u \in User, Raise(u), UNCHANGED <<memory, disk>>,
           temp' = [temp EXCEPT ![u] = Nothing], orphans' \in 0 .. MaxOrphans
    PROVE  Inv'
<1>1. TypeOK' /\ CallsAsk' /\ StoresBuilt' /\ TempWhole' /\ TempOfStore'
    BY CacheAssumption
       DEF Inv, TypeOK, Raise, Goto, CallsAsk, StoresBuilt, TempWhole, TempOfStore, EntryFor
<1>2. Contents'
    BY DEF Inv, Contents, Raise, AllTrusted, ServesBuiltTree, Trusted
<1>3. QED
    BY <1>1, <1>2 DEF Inv

LEMMA NoTempInv ==
    ASSUME Inv, NEW u \in User, step[u] \notin {"write", "replace"}
    PROVE  temp = [temp EXCEPT ![u] = Nothing]
BY DEF Inv, TypeOK, TempOfStore

LEMMA BuildInv ==
    ASSUME Inv, NEW u \in User, Build(u)
    PROVE  Inv'
<1>1. asked[u] \in Graph /\ KeyDigest(asked[u]) \in Digest
    BY KeyInDigest DEF Inv, TypeOK, CallsAsk, Build
<1>2. CASE asked[u] \in Unbuildable
    <2>1. temp = [temp EXCEPT ![u] = Nothing]
        BY NoTempInv DEF Build
    <2>2. QED
        BY <1>2, <2>1, RaiseInv DEF Build, Inv, TypeOK
<1>3. CASE asked[u] \notin Unbuildable
    <2>1. /\ Goto(u, "create") /\ UNCHANGED <<asked, answers, disk, temp, orphans>>
          /\ memory' = [memory EXCEPT ![u][KeyDigest(asked[u])] = EntryFor(asked[u])]
        BY <1>3 DEF Build
    <2>2. EntryFor(asked[u]) \in Payload /\ (ManifestTells => Trusted(EntryFor(asked[u])))
        BY <1>1, <1>3, EntryServes, EntryIsTrusted DEF Payload
    <2>3. memory' \in [User -> [Digest -> Payload \cup {Nothing}]]
        BY <1>1, <2>1, <2>2 DEF Inv, TypeOK
    <2>4. TypeOK' /\ CallsAsk' /\ StoresBuilt' /\ TempWhole' /\ TempOfStore'
        BY <1>3, <2>1, <2>3
           DEF Inv, TypeOK, Build, Goto, CallsAsk, StoresBuilt, TempWhole, TempOfStore, EntryFor
    <2>5. ASSUME NEW w \in User, NEW d \in Digest
          PROVE  memory'[w][d] = memory[w][d] \/ memory'[w][d] = EntryFor(asked[u])
        BY <1>1, <2>1 DEF Inv, TypeOK
    <2>6. Contents'
        BY <2>1, <2>2, <2>5 DEF Inv, Contents, AllTrusted, ServesBuiltTree, Trusted
    <2>7. QED
        BY <2>4, <2>6 DEF Inv
<1>4. QED
    BY <1>2, <1>3

LEMMA CreateInv ==
    ASSUME Inv, NEW u \in User, CreateTemp(u)
    PROVE  Inv'
<1>1. CASE Goto(u, "write") /\ temp' = [temp EXCEPT ![u] = Garbage] /\ UNCHANGED <<asked, answers>>
    <2>1. TypeOK' /\ CallsAsk' /\ StoresBuilt' /\ TempWhole' /\ TempOfStore'
        BY <1>1 DEF Inv, TypeOK, CreateTemp, Goto, CallsAsk, StoresBuilt, TempWhole,
                    TempOfStore, EntryFor, Payload
    <2>2. Contents'
        BY <1>1 DEF Inv, Contents, CreateTemp, AllTrusted, ServesBuiltTree, Trusted
    <2>3. QED
        BY <2>1, <2>2 DEF Inv
<1>2. CASE Raise(u) /\ UNCHANGED temp
    <2>1. temp = [temp EXCEPT ![u] = Nothing]
        BY NoTempInv DEF CreateTemp
    <2>2. QED
        BY <1>2, <2>1, RaiseInv DEF CreateTemp, Inv, TypeOK
<1>3. QED
    BY <1>1, <1>2 DEF CreateTemp

LEMMA WriteInv ==
    ASSUME Inv, NEW u \in User, WriteTemp(u)
    PROVE  Inv'
<1>1. CASE /\ Goto(u, "replace") /\ temp' = [temp EXCEPT ![u] = EntryFor(asked[u])]
           /\ UNCHANGED <<asked, answers>>
    <2>1. asked[u] \in Graph \ Unbuildable
        BY DEF Inv, TypeOK, CallsAsk, StoresBuilt, WriteTemp
    <2>2. EntryFor(asked[u]) \in Payload
        BY <2>1, EntryServes DEF Payload
    <2>3. TypeOK' /\ CallsAsk' /\ StoresBuilt' /\ TempWhole' /\ TempOfStore'
        BY <1>1, <2>1, <2>2 DEF Inv, TypeOK, WriteTemp, Goto, CallsAsk, StoresBuilt,
                                TempWhole, TempOfStore, EntryFor
    <2>4. Contents'
        BY <1>1 DEF Inv, Contents, WriteTemp, AllTrusted, ServesBuiltTree, Trusted
    <2>5. QED
        BY <2>3, <2>4 DEF Inv
<1>2. CASE Raise(u) /\ temp' = [temp EXCEPT ![u] = Nothing]
    BY <1>2, RaiseInv DEF WriteTemp, Inv, TypeOK
<1>3. QED
    BY <1>1, <1>2 DEF WriteTemp

LEMMA ReplaceIsWhole ==
    ASSUME Inv, NEW u \in User, Replace(u)
    PROVE  /\ asked[u] \in Graph \ Unbuildable
           /\ KeyDigest(asked[u]) \in Digest
           /\ temp[u] = EntryFor(asked[u])
           /\ temp[u] \in Entry /\ Serves(temp[u], asked[u])
           /\ ManifestTells => Trusted(temp[u])
<1>1. asked[u] \in Graph \ Unbuildable /\ temp[u] = EntryFor(asked[u])
    BY DEF Inv, TypeOK, CallsAsk, StoresBuilt, TempWhole, Replace
<1>2. QED
    BY <1>1, EntryServes, EntryIsTrusted, KeyInDigest

LEMMA ReplaceInv ==
    ASSUME Inv, NEW u \in User, Replace(u)
    PROVE  Inv'
<1>1. CASE /\ disk' = [disk EXCEPT ![KeyDigest(asked[u])] = temp[u]]
           /\ Return(u, TreeOf[asked[u]])
           /\ UNCHANGED orphans
    <2>1. asked[u] \in Graph \ Unbuildable /\ temp[u] \in Payload
        BY ReplaceIsWhole DEF Payload
    <2>2. disk' \in [Digest -> Payload \cup {Nothing}]
        BY <1>1, <2>1, ReplaceIsWhole DEF Inv, TypeOK
    <2>3. answers' \in [User -> SUBSET Service!Answer]
        BY <1>1, <2>1, EntryServes DEF Inv, TypeOK, Return, Service!Answer
    <2>4. TypeOK' /\ CallsAsk' /\ StoresBuilt' /\ TempWhole' /\ TempOfStore'
        BY <1>1, <2>2, <2>3, CacheAssumption
           DEF Inv, TypeOK, Replace, Return, Goto, CallsAsk, StoresBuilt, TempWhole,
               TempOfStore, EntryFor
    <2>5. \A d \in Digest : disk'[d] = disk[d] \/ disk'[d] = temp[u]
        BY <1>1 DEF Inv, TypeOK
    <2>6. ManifestTells => AllTrusted'
        <3>1. ManifestTells => \A d \in Digest : Trusted(disk'[d])
            BY <2>5, ReplaceIsWhole DEF Inv, Contents, AllTrusted
        <3>2. UNCHANGED memory
            BY DEF Replace
        <3>3. QED
            BY <3>1, <3>2 DEF Inv, Contents, AllTrusted, Trusted
    <2>7. ServesBuiltTree => ServesBuiltTree'
        BY <1>1, <2>1 DEF Inv, TypeOK, Return, ServesBuiltTree
    <2>8. QED
        BY <2>4, <2>6, <2>7 DEF Inv, Contents
<1>2. CASE orphans < MaxOrphans /\ orphans' = orphans + 1 /\ Raise(u) /\ UNCHANGED disk
    <2>1. orphans' \in 0 .. MaxOrphans
        BY <1>2, CacheAssumption DEF Inv, TypeOK
    <2>2. QED
        BY <1>2, <2>1, RaiseInv DEF Replace
<1>3. QED
    BY <1>1, <1>2 DEF Replace

LEMMA CrashInv ==
    ASSUME Inv, NEW u \in User, Crash(u)
    PROVE  Inv'
<1>1. orphans' \in 0 .. MaxOrphans
    BY CacheAssumption DEF Inv, TypeOK, Crash
<1>2. TypeOK' /\ CallsAsk' /\ StoresBuilt' /\ TempWhole' /\ TempOfStore'
    BY <1>1, CacheAssumption
       DEF Inv, TypeOK, Crash, Raise, Goto, CallsAsk, StoresBuilt, TempWhole, TempOfStore,
           EntryFor, NoPayloads
<1>3. ASSUME NEW w \in User, NEW d \in Digest
      PROVE  memory'[w][d] = memory[w][d] \/ memory'[w][d] = Nothing
    BY DEF Inv, TypeOK, Crash, NoPayloads
<1>4. Contents'
    BY <1>3, NothingIsTrusted DEF Inv, Contents, Crash, Raise, AllTrusted, ServesBuiltTree, Trusted
<1>5. QED
    BY <1>2, <1>4 DEF Inv

-----------------------------------------------------------------------------
LEMMA StepInv == Inv /\ [Next]_vars => Inv'
<1> SUFFICES ASSUME Inv, [Next]_vars PROVE Inv'
    OBVIOUS
<1>1. CASE UNCHANGED vars
    BY <1>1 DEF Inv, vars, TypeOK, CallsAsk, StoresBuilt, TempWhole, TempOfStore, Contents,
                AllTrusted, ServesBuiltTree, EntryFor, Trusted
<1>2. CASE Next
    BY <1>2, CallInv, LoadInv, BuildInv, CreateInv, WriteInv, ReplaceInv, CrashInv
       DEF Next, Proceed
<1>3. QED
    BY <1>1, <1>2

LEMMA Invariance == Spec => []Inv
<1>1. QED
    BY InitInv, StepInv, PTL DEF Spec

(* The variables keep their types. *)
THEOREM CacheTypes == Spec => []TypeOK
<1>1. Inv => TypeOK
    BY DEF Inv
<1>2. QED
    BY <1>1, Invariance, PTL

(* Where no two graphs have one manifest, a call with a cache returns the   *)
(* tree that building its graph gives, for any number of processes, with    *)
(* crashes, failing file operations, garbage files and colliding digests.   *)
THEOREM AnswersAreBuilt == ASSUME ManifestTells PROVE Spec => []ServesBuiltTree
<1>1. Inv => ServesBuiltTree
    BY DEF Inv, Contents
<1>2. QED
    BY <1>1, Invariance, PTL

(* Between calls there is no temp file but the counted orphans. *)
THEOREM TempsAreRemoved == Spec => []NoStrayTemp
<1>1. Inv => NoStrayTemp
    BY DEF Inv, TempOfStore, NoStrayTemp
<1>2. QED
    BY <1>1, Invariance, PTL

-----------------------------------------------------------------------------
(* Only a rename touches a final file, and what it puts there is whole. *)
LEMMA DiskStep ==
    ASSUME Inv, [Next]_vars, NEW d \in Digest
    PROVE  \/ disk'[d] = disk[d]
           \/ \E g \in Graph : d = KeyDigest(g) /\ disk'[d] \in Entry /\ Serves(disk'[d], g)
<1>1. CASE disk' = disk
    BY <1>1
<1>2. ASSUME NEW u \in User, Replace(u), disk' # disk
      PROVE  \/ disk'[d] = disk[d]
             \/ \E g \in Graph : d = KeyDigest(g) /\ disk'[d] \in Entry /\ Serves(disk'[d], g)
    <2>1. disk' = [disk EXCEPT ![KeyDigest(asked[u])] = temp[u]]
        BY <1>2 DEF Replace
    <2>2. CASE d = KeyDigest(asked[u])
        <3>1. disk'[d] = temp[u]
            BY <2>1, <2>2 DEF Inv, TypeOK
        <3>2. QED
            BY <1>2, <2>2, <3>1, ReplaceIsWhole
    <2>3. CASE d # KeyDigest(asked[u])
        BY <2>1, <2>3 DEF Inv, TypeOK
    <2>4. QED
        BY <2>2, <2>3
<1>3. QED
    BY <1>1, <1>2
       DEF Next, Proceed, Call, Load, Build, CreateTemp, WriteTemp, Crash, vars

(* No step leaves garbage in a final file that was not there before. *)
THEOREM FilesAreWhole == Spec => NoTornFile
<1>1. Inv /\ [Next]_vars =>
          [\A d \in Digest : disk'[d] = disk[d] \/ disk'[d] \in Entry]_vars
    BY DiskStep
<1>2. QED
    BY <1>1, Invariance, PTL DEF Spec, NoTornFile

(* An entry gives way to nothing but an entry of a graph with its digest. *)
THEOREM EntriesStay == Spec => WarmStaysWarm
<1> DEFINE Replacement(g) ==
        \E h \in Graph : KeyDigest(g) = KeyDigest(h) /\ Serves(disk'[KeyDigest(g)], h)
<1>1. ASSUME Inv, [Next]_vars, NEW g \in Graph, Serves(disk[KeyDigest(g)], g)
      PROVE  Replacement(g)
    <2>1. KeyDigest(g) \in Digest
        BY KeyInDigest
    <2>2. CASE disk'[KeyDigest(g)] = disk[KeyDigest(g)]
        BY <1>1, <2>2 DEF Serves
    <2>3. QED
        BY <1>1, <2>1, <2>2, DiskStep
<1>2. Inv /\ [Next]_vars =>
          [\A g \in Graph : Serves(disk[KeyDigest(g)], g) => Replacement(g)]_vars
    BY <1>1
<1>3. QED
    BY <1>2, Invariance, PTL DEF Spec, WarmStaysWarm

-----------------------------------------------------------------------------
(* Every step of a cached call is a step of the plain call's promise, or    *)
(* changes nothing its caller can see.                                      *)
LEMMA RaiseGivesUp ==
    ASSUME Inv, NEW u \in User, Raise(u), step[u] # "idle"
    PROVE  Service!GiveUp(u)
BY DEF Inv, TypeOK, CallsAsk, Raise, Service!GiveUp

LEMMA ReturnReplies ==
    ASSUME Inv, NEW u \in User, asked[u] \in Graph \ Unbuildable,
           Return(u, TreeOf[asked[u]])
    PROVE  Service!Reply(u)
BY DEF Return, Service!Reply

LEMMA StepRefines ==
    ASSUME Inv, ManifestTells, [Next]_vars
    PROVE  [Service!ServiceNext]_Service!abstractVars
<1>1. ASSUME NEW u \in User, NEW g \in Graph, Call(u, g)
      PROVE  Service!Ask(u, g)
    BY <1>1 DEF Inv, TypeOK, CallsAsk, Call, Service!Ask
<1>2. ASSUME NEW u \in User, Load(u)
      PROVE  Service!Reply(u) \/ UNCHANGED Service!abstractVars
    <2>1. asked[u] \in Graph
        BY <1>2 DEF Inv, TypeOK, CallsAsk, Load
    <2>0. PICK payload \in Found(u) :
              IF Serves(payload, asked[u])
              THEN Return(u, payload.tree)
              ELSE Goto(u, "build") /\ UNCHANGED <<asked, answers>>
        BY <1>2 DEF Load
    <2>2. CASE Serves(payload, asked[u])
        <3>1. asked[u] \notin Unbuildable /\ Return(u, TreeOf[asked[u]])
            BY <2>0, <2>1, <2>2, HitIsBuilt
        <3>2. QED
            BY <2>1, <3>1, ReturnReplies
    <2>3. CASE ~Serves(payload, asked[u])
        BY <2>0, <2>3 DEF Service!abstractVars
    <2>4. QED
        BY <2>2, <2>3
<1>3. ASSUME NEW u \in User, Build(u) \/ CreateTemp(u) \/ WriteTemp(u)
      PROVE  Service!GiveUp(u) \/ UNCHANGED Service!abstractVars
    BY <1>3, RaiseGivesUp DEF Build, CreateTemp, WriteTemp, Service!abstractVars
<1>4. ASSUME NEW u \in User, Replace(u)
      PROVE  Service!Reply(u) \/ Service!GiveUp(u)
    BY <1>4, RaiseGivesUp, ReturnReplies, ReplaceIsWhole DEF Replace
<1>5. ASSUME NEW u \in User, Crash(u)
      PROVE  Service!GiveUp(u)
    BY <1>5, RaiseGivesUp DEF Crash
<1>6. CASE Next
    BY <1>1, <1>2, <1>3, <1>4, <1>5, <1>6 DEF Next, Proceed, Service!ServiceNext
<1>7. CASE UNCHANGED vars
    BY <1>7 DEF vars, Service!abstractVars
<1>8. QED
    BY <1>6, <1>7

(* Where no two graphs have one manifest, the cached call implements the    *)
(* plain one, but for its liveness.                                         *)
THEOREM CacheImplementsService == ASSUME ManifestTells PROVE Spec => Service!ServiceSafety
<1>1. Init => Service!ServiceInit
    BY DEF Init, Service!ServiceInit
<1>2. Inv /\ [Next]_vars => [Service!ServiceNext]_Service!abstractVars
    BY StepRefines
<1>3. QED
    BY <1>1, <1>2, Invariance, PTL DEF Spec, Service!ServiceSafety
=============================================================================
