-------------------------- MODULE GeneratedAstCache --------------------------
(***************************************************************************)
(* `to_executable_ast` with the generated AST cache (src/astichi/cache.py, *)
(* builder/handles.py): processes that share a cache directory, each with  *)
(* the memory payloads of the GeneratedAstCache it passes.  A process may  *)
(* die between any two steps of a store, and any of its file operations    *)
(* may fail.                                                               *)
(*                                                                         *)
(* Of a graph only one composable is spelled out, because its manifest     *)
(* does not always tell it from another; the rest of the graph goes into   *)
(* the manifest in full.  Digests of manifests may collide.                *)
(***************************************************************************)
EXTENDS Naturals

CONSTANTS
    User,         \* processes that build
    Source,       \* trees of composables, as ast.dump writes them
    Keeping,      \* what their shells keep: asttools/scope_keep.py
    Placeholder,  \* the `pass` body of a hot-path placeholder tree
    Graph,        \* the graphs callers build, members of Composable
    Unbuildable,  \* those whose build raises
    Digest,       \* sha256 digests
    DigestOf,     \* _manifest_digest
    Garbage,      \* a payload that does not decode, or decodes to no entry
    Nothing,      \* absent
    MaxOrphans    \* bound on the temp files left behind

Composable == [source : Source, keeping : Keeping, hotPath : BOOLEAN]

(* The key holds a dump of the composable's public tree.  The names each of *)
(* a built composable's shells keeps are attributes of its nodes that no    *)
(* dump shows.  A composable that the native hot path compiled keeps its    *)
(* source aside, and shows a placeholder while that path is active.         *)
Manifest == Source \cup {Placeholder}
ManifestOf(g) == IF g.hotPath THEN Placeholder ELSE g.source

(* The merged tree is resolved from the source, whatever is shown, and its  *)
(* names follow what the shells keep.                                       *)
Tree == Source \X Keeping
TreeOf == [g \in Graph |-> <<g.source, g.keeping>>]

Entry   == [digest : Digest, manifest : Manifest, tree : Tree]
Payload == Entry \cup {Garbage}

ASSUME CacheAssumption ==
    /\ Graph \subseteq Composable
    /\ Unbuildable \subseteq Graph
    /\ DigestOf \in [Manifest -> Digest]
    /\ Nothing \notin Graph
    /\ Nothing \notin Payload
    /\ Garbage \notin Entry
    /\ MaxOrphans \in Nat

VARIABLES
    step,       \* where each user's call stands
    asked,      \* the graph it builds
    answers,    \* what its last call returned
    memory,     \* _memory_payloads of its cache object, Nothing when absent
    disk,       \* the final file of each digest, Nothing when absent
    temp,       \* the temp file of the running store
    orphans     \* number of temp files nobody will remove

vars == <<step, asked, answers, memory, disk, temp, orphans>>

-----------------------------------------------------------------------------
KeyDigest(g) == DigestOf[ManifestOf(g)]

EntryFor(g) == [digest |-> KeyDigest(g), manifest |-> ManifestOf(g), tree |-> TreeOf[g]]

(* Mutant: the digest alone is compared. *)
ServesDigest(payload, g) ==
    payload \in Entry /\ payload.digest = KeyDigest(g)

(* load's tests on a payload: it decodes, and carries the key's digest and  *)
(* manifest and a tree.                                                     *)
Serves(payload, g) ==
    /\ payload \in Entry
    /\ payload.digest = KeyDigest(g)
    /\ payload.manifest = ManifestOf(g)

(* The directory is trusted: an entry in it holds the tree of any graph its *)
(* manifest stands for.                                                     *)
Trusted(payload) ==
    payload \in Entry =>
        \A g \in Graph : ManifestOf(g) = payload.manifest =>
            g \notin Unbuildable /\ payload.tree = TreeOf[g]

NoPayloads == [d \in Digest |-> Nothing]

Init ==
    /\ step = [u \in User |-> "idle"]
    /\ asked = [u \in User |-> Nothing]
    /\ answers = [u \in User |-> {}]
    /\ memory = [u \in User |-> NoPayloads]
    /\ disk \in [Digest -> {p \in Payload : Trusted(p)} \cup {Nothing}]
    /\ temp = [u \in User |-> Nothing]
    /\ orphans = 0

-----------------------------------------------------------------------------
Goto(u, s) == step' = [step EXCEPT ![u] = s]

Return(u, tree) ==
    /\ Goto(u, "idle")
    /\ answers' = [answers EXCEPT ![u] = {[graph |-> asked[u], tree |-> tree]}]
    /\ asked' = [asked EXCEPT ![u] = Nothing]

Raise(u) ==
    /\ Goto(u, "idle")
    /\ asked' = [asked EXCEPT ![u] = Nothing]
    /\ UNCHANGED answers

(* `cache=` keeps the cache object's memory, `cache_dir=` makes a new one.  *)
Call(u, g) ==
    /\ step[u] = "idle"
    /\ Goto(u, "load")
    /\ asked' = [asked EXCEPT ![u] = g]
    /\ answers' = [answers EXCEPT ![u] = {}]
    /\ \/ UNCHANGED memory
       \/ memory' = [memory EXCEPT ![u] = NoPayloads]
    /\ UNCHANGED <<disk, temp, orphans>>

(* The memory payload is tried first; when there is one the file is not     *)
(* read.  A file that is there may still refuse to be read: nothing then.   *)
Found(u) ==
    LET d == KeyDigest(asked[u])
    IN  IF memory[u][d] # Nothing THEN {memory[u][d]} ELSE {disk[d], Nothing}

(* Mutant: a miss is looked up again. *)
LoadUntilFound(u) ==
    /\ step[u] = "load"
    /\ \E payload \in Found(u) :
          IF Serves(payload, asked[u])
          THEN Return(u, payload.tree)
          ELSE UNCHANGED <<step, asked, answers>>
    /\ UNCHANGED <<memory, disk, temp, orphans>>

Load(u) ==
    /\ step[u] = "load"
    /\ \E payload \in Found(u) :
          IF Serves(payload, asked[u])
          THEN Return(u, payload.tree)
          ELSE Goto(u, "build") /\ UNCHANGED <<asked, answers>>
    /\ UNCHANGED <<memory, disk, temp, orphans>>

(* The build, and store up to the memory payload: pickling comes first.     *)
Build(u) ==
    /\ step[u] = "build"
    /\ IF asked[u] \in Unbuildable
       THEN Raise(u) /\ UNCHANGED memory
       ELSE /\ Goto(u, "create")
            /\ memory' = [memory EXCEPT ![u][KeyDigest(asked[u])] = EntryFor(asked[u])]
            /\ UNCHANGED <<asked, answers>>
    /\ UNCHANGED <<disk, temp, orphans>>

(* Mutants: the final file is opened for writing; a failed write leaves its  *)
(* file; the old file is removed before the rename.                          *)
CreateInPlace(u) ==
    /\ step[u] = "create"
    /\ Goto(u, "write")
    /\ temp' = [temp EXCEPT ![u] = Garbage]
    /\ disk' = [disk EXCEPT ![KeyDigest(asked[u])] = Garbage]
    /\ UNCHANGED <<asked, answers, memory, orphans>>

WriteWithoutUnlink(u) ==
    /\ step[u] = "write"
    /\ \/ /\ Goto(u, "replace")
          /\ temp' = [temp EXCEPT ![u] = EntryFor(asked[u])]
          /\ UNCHANGED <<asked, answers>>
       \/ Raise(u) /\ UNCHANGED temp
    /\ UNCHANGED <<memory, disk, orphans>>

RemoveThenRename(u) ==
    /\ step[u] = "replace"
    /\ LET d == KeyDigest(asked[u])
       IN  disk' = [disk EXCEPT ![d] = IF disk[d] # Nothing THEN Nothing ELSE temp[u]]
    /\ IF disk[KeyDigest(asked[u])] # Nothing
       THEN UNCHANGED <<step, asked, answers, temp>>
       ELSE Return(u, TreeOf[asked[u]]) /\ temp' = [temp EXCEPT ![u] = Nothing]
    /\ UNCHANGED <<memory, orphans>>

(* mkdir and NamedTemporaryFile, which leaves an empty file. *)
CreateTemp(u) ==
    /\ step[u] = "create"
    /\ \/ /\ Goto(u, "write")
          /\ temp' = [temp EXCEPT ![u] = Garbage]
          /\ UNCHANGED <<asked, answers>>
       \/ Raise(u) /\ UNCHANGED temp
    /\ UNCHANGED <<memory, disk, orphans>>

(* write, flush and fsync; an error among them removes the temp file. *)
WriteTemp(u) ==
    /\ step[u] = "write"
    /\ \/ /\ Goto(u, "replace")
          /\ temp' = [temp EXCEPT ![u] = EntryFor(asked[u])]
          /\ UNCHANGED <<asked, answers>>
       \/ Raise(u) /\ temp' = [temp EXCEPT ![u] = Nothing]
    /\ UNCHANGED <<memory, disk, orphans>>

(* os.replace; when it fails nobody removes the temp file. *)
Replace(u) ==
    /\ step[u] = "replace"
    /\ temp' = [temp EXCEPT ![u] = Nothing]
    /\ \/ /\ disk' = [disk EXCEPT ![KeyDigest(asked[u])] = temp[u]]
          /\ Return(u, TreeOf[asked[u]])
          /\ UNCHANGED orphans
       \/ /\ orphans < MaxOrphans
          /\ orphans' = orphans + 1
          /\ Raise(u)
          /\ UNCHANGED disk
    /\ UNCHANGED memory

Crash(u) ==
    /\ step[u] # "idle"
    /\ Raise(u)
    /\ memory' = [memory EXCEPT ![u] = NoPayloads]
    /\ temp' = [temp EXCEPT ![u] = Nothing]
    /\ IF temp[u] # Nothing
       THEN orphans < MaxOrphans /\ orphans' = orphans + 1
       ELSE UNCHANGED orphans
    /\ UNCHANGED disk

Proceed(u) ==
    Load(u) \/ Build(u) \/ CreateTemp(u) \/ WriteTemp(u) \/ Replace(u)

Next ==
    \E u \in User : (\E g \in Graph : Call(u, g)) \/ Proceed(u) \/ Crash(u)

(* A call that nothing interrupts runs on: it is plain sequential code. *)
Spec ==
    /\ Init /\ [][Next]_vars
    /\ \A u \in User : WF_vars(Proceed(u))

-----------------------------------------------------------------------------
Service ==
    INSTANCE ExecutableAst
        WITH asked <- asked, answers <- answers, Tree <- Tree, TreeOf <- TreeOf

(* The steps and the files are what the code's control flow makes them.     *)
TypeOK ==
    /\ step \in [User -> {"idle", "load", "build", "create", "write", "replace"}]
    /\ asked \in [User -> Graph \cup {Nothing}]
    /\ answers \in [User -> SUBSET Service!Answer]
    /\ memory \in [User -> [Digest -> Payload \cup {Nothing}]]
    /\ disk \in [Digest -> Payload \cup {Nothing}]
    /\ temp \in [User -> Payload \cup {Nothing}]
    /\ orphans \in 0 .. MaxOrphans

(* A call returns the tree of its own graph, and nothing for a graph that   *)
(* cannot be built, whatever was on disk, whoever writes at the same time,  *)
(* dies half-way or has a manifest with the same digest.                    *)
ServesBuiltTree ==
    \A u \in User : \A a \in answers[u] :
        a.graph \notin Unbuildable /\ a.tree = TreeOf[a.graph]

(* A final file is never a torn one: a process that dies while it writes    *)
(* turns no entry, and no missing file, into garbage.                       *)
NoTornFile ==
    [][\A d \in Digest : disk'[d] = disk[d] \/ disk'[d] \in Entry]_vars

(* An entry on disk is only ever replaced by an entry of a graph with the   *)
(* same digest: it stays loadable for everybody whose digest is his own.    *)
WarmStaysWarm ==
    [][\A g \in Graph :
          Serves(disk[KeyDigest(g)], g) =>
              \E h \in Graph :
                  KeyDigest(g) = KeyDigest(h) /\ Serves(disk'[KeyDigest(g)], h)]_vars

(* Between calls no temp file is left, but those a crash or a failed rename *)
(* made orphans: a failed write cleans up after itself.                     *)
NoStrayTemp == \A u \in User : step[u] = "idle" => temp[u] = Nothing

(* The cached call keeps the promise of the plain one, and ends. *)
ImplementsService == Service!ServiceSpec
=============================================================================
