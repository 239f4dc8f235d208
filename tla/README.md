# Formal models of astichi

Astichi composes Python source. A *piece* (composable) is authored code with
markers: holes that take other pieces, demands for external values and for
identifiers, supplies of identifiers. Pieces are registered under build names,
wired into each other, and merged into one tree. This directory models the parts
of the program in which the order of calls, paths and names that move, a failure
half way, or several processes decide what comes out. Paths below are relative to
the repository.

1. [Inventory](#1-inventory)
2. [Plan](#2-plan)
3. [Modules and code](#3-modules-and-code)
4. [Runs](#4-runs)
5. [Proofs](#5-proofs)
6. [Disagreements found](#6-disagreements-found)
7. [What is not modelled](#7-what-is-not-modelled)

## 1. Inventory

Code lives in `src/astichi` (Python) and `native_engine/src` (Rust).

| component | state | operations | modelled in |
|---|---|---|---|
| builder graph (`builder/graph.py`) | instances, ordered edges, assigns, direct identifier bindings | `add_instance`, `replace_instance`, `add_additive_edge`, `add_assign`, `add_identifier_binding` | BuilderGraph |
| builder handles (`builder/handles.py`, `api.py`) | half-made wiring chains, committed assign leaves | fluent chains, one-call wirings, `build` | BuilderHandles, StagedBuild |
| build merge (`materialize/api.py`) | tree copies of the live instances, resolved targets | live view, resolution order, assigns, bindings | BuildMerge, IdentifierWiring |
| staged build and materialize (`materialize/api.py`) | shells in a tree, inventories across stages | contributions of every shape, root scopes, the gate, the flattening passes | StagedBuild |
| shell paths (`path_resolution.py`, `shell_refs.py`) | none | shell index, wrapped and promoted roots, unique resolution | StagedBuild |
| name hygiene (`hygiene/api.py`) | scope identities of one run | `assign_scope_identity`, `rename_scope_collisions` | Hygiene |
| external binding, loop unrolling (`lowering/external_*.py`, `unroll*.py`) | bound externals of a piece | `bind`, `unroll`, reference lowering | SourceExpansion |
| generated AST cache (`cache.py`) | memory payloads, files of a shared directory | `load`, `store`, the key | ExecutableAst, GeneratedAstCache |
| assembly scope (`assembler/scope.py`) | lower state, pending queues, a builder, native handles | `add`, `find_candidates`, `wire`, `apply`, `apply_batch`, `build` | AssemblyScope, NativeScope |
| lower materialization (`scope.py`, `lower_engine/materialization.py`) | a plan, a tree that operations change | `build_materialization_plan`, `_apply_lower_*` | LowerMaterialize |
| lower engine (`lower_engine/engine.py`) | templates, occurrences, edges, overlays, satisfied records | `append_*`, `mark_satisfied` | AssemblyScope, LowerMaterialize |
| native engine (Rust) | occurrence store, template store, parser IR | batches, candidate queries, materialization | NativeScope (the occurrence store) |
| composable model, inventory (`model`) | bound externals and identifiers of a piece | `bind`, `bind_identifier` | as their users see them |
| templates and package v2, surface registry, engine selection | process-wide tables and caches | extraction, `register_bundle`, select and fall back | no |
| frontend, marker lowering, path selectors, emission, tree tools, diagnostics | none | `compile`, recognition, matching, formatting | no |

The hard behaviours, with the properties that make each component correct:

* **Builder graph and handles.** Calls arrive in any order, and each is checked
  only against what was accepted before. A wiring may be spelled as a chain of
  handles that a caller keeps, reuses or drops, with pieces registered or replaced
  in between. Correct: the graph stays acyclic; a demand is wired at most once
  although two tables hold wirings; the only removal (an assign whose chain
  goes on) takes back nothing but what that chain added; a wiring names slots its
  pieces have, unless a piece came later.
* **Build merge.** Targets are replaced in place and their trees copied into
  others, so a copy taken too early is incomplete for good. Correct: every root
  ends as the full expansion of its contributions, in `(order, insertion)` order,
  and the round loop ends. Identifier wirings rewrite names in the same trees one
  after another, so a later one reads what an earlier one wrote. Correct: each
  demand ends spelled as its supply.
* **Staged build.** What one build returns is a piece of the next. Contributions are
  shells that keep the address of their piece; every build rebases the addresses,
  wraps roots and unwraps them again, and `materialize` matches anchors to shells by
  name, list by list. Correct: what comes out is the code the author meant, only
  faults are refused, and every piece answers to the path its author knows it by.
* **Hygiene and lower materialization.** Names of many authors meet in one scope and
  are renamed from sites collected before; operations carry paths of the
  authored tree and are applied to a tree that earlier ones changed. Correct:
  Python's scoping gives every read the binding its author meant; what is accepted is
  the expansion of the assembly.
* **External values and loops.** Two substitutions in any order and grouping, through
  scopes that shadow names. Correct: a piece comes out as its source means,
  and every copy of a hole is addressable.
* **Generated AST cache.** Processes share a directory; digests may collide; files
  may be garbage; any file operation may fail and any process may die between two
  of them. Correct: an answer is the tree of the graph that was asked, a final
  file is never torn, warm entries stay warm, temp files are cleaned up.
* **Assembly scope.** One assembly is kept two or three times: at once in the lower
  state, natively, and as queues that an adapter build later drains into a builder.
  Queues are cleared before their items are applied, the lower state is written
  before a queue may refuse, candidates name records by position, and a batch may change
  the native side alone. Correct: the copies stay one assembly, whatever raised in
  between; nothing is bound or filled twice; a build returns what was asked.

The program is single-threaded; concurrency exists only between processes that
share a cache directory. `PROJECT.json` lists the hazards line by line, with the
properties that watch each.

## 2. Plan

Done, in this order: `BuilderGraph` and its proofs; `BuildMerge` (extends it);
`IdentifierWiring`; `ExecutableAst` with `GeneratedAstCache` as its implementation, and
the proofs; `AssemblyScope`; `Hygiene`; `LowerMaterialize`; `SourceExpansion`;
`StagedBuild`; `NativeScope` (extends `AssemblyScope`); `BuilderHandles` (extends
`BuilderGraph`) and its proofs; the proofs of `AssemblyScope`, `BuildMerge`,
`IdentifierWiring`, `Hygiene`, `NativeScope` and `SourceExpansion`.

Next, most important first:

1. `EngineSelection` with the hot-path registry and the template caches: the import
   cache, the fallback rule, the shared engine whose set-up may fail half way, a key
   that must never serve another piece's template. Three hazards wait for it.
2. `StagedBuild` and `BuilderHandles` with index segments.
3. `PathMatch`: `matches_path` against the language its operators denote.

## 3. Modules and code

**BuilderGraph** (`builder/graph.py`, the leaves of `builder/handles.py`).
`instances`, `edges`, `assigns`, `identifierBindings` are the fields of
`BuilderGraph`; `committed` holds the `_CommittedAssignBinding` leaves callers may
still touch. One action per method; a call that raises leaves the graph alone and is
a disabled action. `DependencyPath` says "there is a path" by quantifying over closed
sets, which is how reachability is said in a module one proves about. What the code
reads off a name (indexed family member, which stem) is given by `Indexed` and
`StemOf`; whether a body has an ambiguous shell path by `Ambiguous`. An order is any integer.
`makers`, `touched` and `again` are history variables no method reads: the leaf of the call that
made each assign, the leaves that took one back, and whether one did so twice.

**BuilderHandles** (`builder/handles.py`) extends it with what the handles check before
they call the graph. `chain` is the one wiring handle a caller holds, at whichever part of
`builder.assign.A.piece.x.to().B.y` it has come to; `Begin`, `DescendSource`, `To`,
`DescendTarget`, `EndAssign`, `EndBind` are the `__getattr__` and `to()` of the proxies, and
between any two of them everything else can happen. `CallAssign` and `CallBind` are the
one-call forms. `late` is a history variable: the instances that came, or were
replaced, after a wiring that mentions them; only about those has the handle checked
nothing.

**BuildMerge** (`materialize/api.py`) extends `BuilderGraph`. `StartBuild` is
`_resolve_build_graph`: roots, what they reach, and the live edges, fixed in `roots`
and `liveEdges` (as positions of the edge list, which is the order they were added in)
as the code fixes the resolved graph. `ResolveTarget` replaces all
holes of one target by copies of its sources' trees *as they are now*; `level` is the
round of `_topo_sort_targets`. A tree is a function from holes to sequences of
contributions, which `Sorted` lists by `(order, position)`. `places` is a history variable: every
hole's edges in the places they took when they were added, each behind those of its own or a
lower order (`PlaceFor`), which knows nothing of a sort key. The reference for the result
knows no order of resolution: `RootsFullyExpanded` is the equation a full expansion solves,
every hole holding copies of the trees as they are at the *end*, and the equation has
no other solution (`ExpansionIsUnique`).

**IdentifierWiring** (the same file) is the phase between: the trees are copied, all assigns
are applied in declaration order, then all direct bindings, whose names were computed
beforehand (`DirectName`). A tree is its identifier slots (imports, `__astichi_arg__`,
`astichi_pass`, supplies, aliases) and how each is spelled at the moment. Names astichi makes
up are tuples, and `MadeUpNamesApart` says that no author writes them. `Careful` is the
discipline under which the in-place rewritings do not meet: no wiring writes into a piece a
name that another one takes there as its demand, nothing is both supplied and demanded by
wirings, and a supply that a binding renames is read by bindings only, once.

**StagedBuild** (`materialize/api.py`, `path_resolution.py`, `shell_refs.py`) has the trees
themselves: nested lists of statements with anchors, the shells beside them, parameters, `if`
chains, calls and values. `shelf` holds the composables an author has, each with its tree, the
holes its inventory lists and what it `makes`; `Register` and `Connect` are `add` and the edge
chains with the checks of the handles; `Build` is `build_merge` (`Merged`: contributions of
every shape, in turn; `InRootScope`: the wrapper of a root; `HolesBelow`: the inventory),
`Materialize` the passes of `materialize_composable` in their order, and its gate. A signature
is checked as `_merge_params_into_arguments` does (a name the function already has or gets
twice, a required parameter behind one with a default, a second `*args` or `**kwargs`), and a
branch that returns is refused at a target outside every function. Each composable also
carries `meant`, which no operation reads: which pieces were added to which hole of which
piece. The properties compare trees with it.

**Hygiene** (`hygiene/api.py`). The model writes a merged tree node by node in source order
(`Enter*`, `Leave`, `Write`); `Materialize` assigns every name its scope and collision
domain (`Identity`), decides which scopes keep a name (`KeptScopes`) and spells the
others apart. The properties then read the flat program with Python's scoping
(`Resolve`) and compare with what the author of each snippet meant (`MeantBy`).

**SourceExpansion** (`lowering/external_bind.py`, `unroll.py`, `unroll_domain.py`,
`external_ref.py`). A piece is the sequence of its statements, each with the lines it is
nested in; the tree is a function from *keys*, a line and the iteration of each expanded
loop around it, to what has become of that copy: the values of its reads (`known`), the path
in the name of a hole, the references once lowered. Deep copying a body is then
adding keys, and shadowing is a question about the lines around a read. `Bind`, `Unroll` and
`Lower` are user-level operations, in any order the program accepts. An unrolling is several
steps: `Expand` takes one outermost loop, `Unrolled` ends it. The code works on a
copy of the tree, so a refused unrolling leaves nothing behind; `stage` says "refused" and
the piece is done with. `domains` is a history variable, the values each loop ran over. The
reference, `Meant`, knows no operations: the value of the binding that a read resolves to by
Python's scoping rules. What an expression comes to, given its reads, is left to four constants;
`SourceValues` computes them (`unroll_domain.py`, `external_ref.py`) for TLC.

**ExecutableAst** says what `to_executable_ast` promises: a call is answered with the tree of
its own graph, or gives up. **GeneratedAstCache** is the call with a cache: `Call`, `Load`,
`Build` (with the memory payload), then `CreateTemp`, `WriteTemp`, `Replace`, one action per
place where a process may die or an operation may fail; `Crash` in between. `cache=` keeps the
memory, `cache_dir=` starts with none: `Call` takes both. `disk` starts with anything the
directory may hold that the code has to survive (nothing, garbage, an entry); that entries are
*trusted*, meaning they were written by this code, is an assumption, stated as `Trusted`.
`ManifestOf` is what a key shows of a composable: the dump of its public tree, which is a
placeholder on the native hot path and leaves out the names that the shells of a built
composable keep. The refinement (`Service == INSTANCE ExecutableAst WITH ...`) maps `asked`
and `answers` to themselves and drops the rest.

**AssemblyScope** (`assembler/scope.py`, Python engine). `occurrences`, `satisfied`,
`renames`, `edges`, `overlays` are the lower state; `deferred` and `queued` are
`_deferred_composable_adapter_edges` and the two pending-bind maps;
`instances`, `links`, `bound` are what the adapter's builder was given. `Add`, `Find`,
`Insert` and `Bind` are `scope.add`, `find_candidates` and `apply` of the three kinds
of candidate. An adapter build is a sequence of actions, `StartBuild`, `DrainEdge`,
`TakeIdentifiers`, `BindOwner`, `TakeExternals`, `EndBuild`, each of which can raise where
the code can, which ends the build with the queues it had already taken lost. Its client keeps
candidates as long as it likes and uses any name.

**NativeScope** (`assembler/scope.py`, `native_engine/src/occurrence_store.rs`) puts the
native state beside it. `engine` is fixed for a scope: `"python"` has no native
side; `"native"` is the default, where a batch tells the Python mirror nothing but new
handles and values by overlay number (`NoteEvents`); `"mirrored"` replays every event
(`ReplayEvent`), which is a compatibility path: the code takes it with an extension that does not
advertise the direct one, and the repository's own does (`native_engine/src/capabilities.rs:47`,
`scope.py:3795-3802`). Single calls (`AddRoot`, `WireInsert`, `WireBind`) change the mirror and
repeat the step natively through `handles`; `StartBatch`, `BatchInsert`, `BatchBind`,
`BatchRaises`, `CommitBatch` are `apply_batch`, one action per request because the next
request is resolved against the state the earlier ones left. `BuildReturns` is what
`build()` answers: the native assembly where complete, else the mirror. `askedPieces`
and `askedValues` are history variables, what the client has asked for and got accepted,
which a build is compared with. Its client is careful (section 4); one of its cares,
`ValueFirst`, is about pieces that demand a value and an identifier by one word.

**LowerMaterialize** (`assembler/scope.py`, `lower_engine/materialization.py`) is that build
in full: `Built` applies the operations to copies of the trees, in the code's order
(identifiers, expressions, blocks from the last to the first, parameters, `if` branches, call
arguments, then the managed imports), by paths of the authored trees. An outcome is *accepted*
with a tree, *declined* (the builder does it instead: a comment in an inserted piece, a return
in a branch at module level, a display where keywords are asked for, a kept name that is
taken) or *raised* (a parameter or a keyword twice, a stale path, arguments for what is no
call). Nodes carry the authored statement they are copies of, for the properties only.

Definitions headed `Mutant:` or `MUTANT` (or `for comparison`) are plausible mistakes in
the definition after them; they are not part of any specification, and each shows that
a property can fail.

## 4. Runs

| run | instance | shows |
|---|---|---|
| `graph` | BuilderHandles: 2 plain names and an indexed one, pieces with and without a shell | acyclic, one wiring per demand, an assign goes only with the leaf of the very call that made it until a leaf is touched twice, wirings name slots (552 000 states) |
| `merge` | 3 names, 2 holes, orders -1 and 0, 3 edges | full expansion of each root, sort never stuck, each edge in the place it took when added, builds end (224 000) |
| `wiring_careful` | 4 pieces, 2 assigns and 2 direct bindings of every kind | careful wirings hold, supplies stay apart (301 000) |
| `staged` | 2 stages of up to 3 and 2 instances and 2 edges each, 8 shelves of pieces, orders -1 and 0 | accepted is meant, only faults refused, addresses agree (32 000) |
| `hygiene` | all trees of at most 4 nodes and 3 uses of one name | every read sees its binding, bindings apart, kept names literal, parameters and imports stable (675 000) |
| `source` | 65 000 pieces of up to two nested scopes or loops, some of three, 2 external names | expansion is meant, holes addressable, a bind settles its names (498 000) |
| `cache` | 2 processes, 3 sources of which one does not build, shells that keep a name or none, 2 digests of which two sources share one | answers, whole files, warm entries, no stray temp file, refinement of `ExecutableAst` with liveness (480 000) |
| `scope_anyone` | 2 names, 4 occurrences, 2 bindings, stale candidates | order kept, nothing bound twice, builds end (656 000) |
| `scope_native` | 3 engines, 3 kinds of piece, 3 occurrences, 3 bindings, batches of 2 | native state, mirror and builder hold what was asked for, each where it is told; nothing raises, builds return what was asked (54 600) |
| `lower_materialize` | 6 roots, 16 kinds of piece, 3 insertions, 2 order values | accepted is the expansion, names apart, kept names literal, complete is accepted (390 000) |
| `cache_hot_path`, `native_fallback` | the smallest instance that shows it | a documented promise the code breaks, section 6 |

**Bounds.** A cycle through three instances needs three edges, and so do a chain with a
shortcut and a hole with two contributions besides a nested one. In `graph`, `MaxHandled`
wirings and handles (3: two wirings that meet and a leaf that undoes one, or two and a
half-made chain) may be there at a time, `MaxBeside` (1) in a graph with edges or indexed
instances, which wirings do not read; the two plain names are interchangeable. Two
leaves are a leaf and one that repeats or re-declares its assign. Two wirings
per table are enough for two to meet on a name, and each of the 21 wirings meets each. Two
processes interleave in every way two stores can; a third adds only writers of the same
kinds of files. In the scope, an insertion that was dropped, one below it that then has no
owner, and a repeated name take four occurrences and two names; a second binding of a name
takes two. A word demanded as a value and at two sites as an identifier takes three bindings,
and a batch of two has a request that reads what the first did. In `staged`,
two stages are what it takes for a piece to have a wrapper, an address below another and
an earlier contribution; a non-zero order is only used where there is something to order.
In `lower_materialize` a third insertion is the first that finds paths moved by
one and names taken by another. Four nodes nest a function in a shell beside another shell;
three uses are a binding, a read of it, and a binding in the way.

**Habits.** What the code does to some programs is not what their authors can have meant
(section 6). Instead of leaving those programs out of the model, four modules name the
*habit* of an author that leads there, as an operator over the state; the cfg lists in
`Avoided` which of them these authors do not have, and each was checked to be needed: with
one fewer, a property fails. In `SourceExpansion` the same is `Careful`, a condition on
the source with five parts that were each checked to be needed too.

* `Hygiene`: closures; keeping a name someone imports; parameters below a nested
  expression; managed names in functions; rebinding a managed name; importing below
  one; shadowing an imported name.
* `LowerMaterialize`: argument, parameter and branch holes behind a block that receives more
  or less than one statement; two parameter holes of one name; directives in values; managed
  names that others bind; locals below parameters; names bound in branches; locals below
  functions that read a module name; names kept by marker; one parameter name twice; a piece
  that keeps a name put below one that does not bind it; comments in pieces; branches that
  return, at module level; displays as keywords; one keyword twice. These limit what the
  properties promise, not what the model does.
* `StagedBuild`: an edge to a composable of several roots (`roots`); one into a piece below a
  function (`inner`); payloads of the wrong shape in a block (`kinds`); an edge to a hole an
  earlier stage filled, with the same order or in a call (`order`); two `if` targets side
  by side (`clauses`); a hole filled in one copy of a piece and open in another
  (`copies`). No author gives a piece a name its target already holds.
* `NativeScope`: one root, no instance name twice, no demand bound twice, candidates
  applied as found; a word that a piece demands as a value and as an identifier is bound as a
  value first; after a batch the default engine is given only batches and is built
  when everything is settled (`Trusted`); a mirrored scope is dropped when a batch raises.
* `SourceExpansion` (`Careful`): the body of a loop does not store its variable
  (`VariablesKept`), nor do classes in it read it (`ClassesApart`); a module or class that
  stores an external name, and a function that stores one where a bind does not look or in
  unrolled loops only (`ExternalsKept`); markers of an external name inside something that
  binds the name (`ExternalsSeen`); blocks with declarations and nothing that lasts
  (`SomethingLeft`). `HolesAddressable` needs none of them.

`CHECK_DEADLOCK FALSE` is set where the system really stops: a bounded graph is full, a
merge is built, wirings are applied, a piece is lowered or refused. The cache and the
Python scope never deadlock, and TLC checks that.

**Fairness.** All code here is plain sequential code: a build, a flush or a cached call
that nothing interrupts runs on. So weak fairness on the next step of a running merge
(`BuildMerge`), of a running adapter build (`Flush`) and of each process's running
call (`Proceed`), and on nothing that a client decides: nobody has to call. `Crash` is
not fair.

**Against the program.** `StagedBuild` was also compared with the code itself: TLC simulated
about 17 000 behaviours of an earlier form of it, before the refusals of signatures and of
returning branches were in, with every habit but `kinds` allowed, each was replayed through the
builder API, and the outcome of every `build` and `materialize` (refused, or the code
that came out) was the model's in all of them.

## 5. Proofs

TLAPS checks all of it, for every value of the constants that satisfies the named
assumptions (`NamesAssumption`, `PathsAssumption`, `CacheAssumption`, `PieceAssumption`,
`WiringAssumption`, `MadeUpNamesApart`, `HygieneAssumption`, `ValuesAssumption`,
`SourcesAssumption`). Two groups
of them have a hypothesis besides: `ManifestTells` and the habits of authors, each explained
below.

**BuilderGraphProofs.** `IInv` is the conjunction of `TypeOK`, `EdgesRegistered`,
`EdgesAcyclic`, `FamilyExclusive`, `OneWiringPerDemand` and `Owned`; none of the three before
the last is inductive without the types, since rolling back removes *a position* of a table
and the types say what a table is. The heart is `AcyclicExtends`: if `s` does not reach `t`,
adding `t <- s` keeps a graph acyclic, because a cyclic set through the new edge, cut down to
the closed set `s` cannot leave, would already have been cyclic. `LastIndexIsThePosition` and
`RemoveAtShifts` say what the backward scan and deletion of `_rollback_if_needed` do. `Owned`
carries `UndoneByOwnLeaf`: as long as no leaf is touched twice, a leaf that added an assign
and has not taken it back still finds it, as the one its own call made. Theorems:
`TypeCorrect`, `EdgesStayRegistered`, `EdgesStayAcyclic`, `FamiliesStayExclusive`,
`DemandsWiredOnce`, `UndoneOnlyByOwnLeaf` (an action property). Types, registered edges and
families are only proved; no run repeats them.

**BuilderHandlesProofs.** `HandlesFollowGraph`: every step of the handles is a step of the
graph or leaves it alone, so the theorems above hold under any use of the
handles. `WiringsStayNamed`: a wiring names slots its instances have. That is inductive only
together with the same statement about the half-made chain (`ChainsNameSlots`: what `to()`
found is still there unless the instance is `late`), because the chain's demand is checked
long before its wiring is made; the history variable `late` is what says "still".

**GeneratedAstCacheProofs.** The invariant adds to the types: a call under way has a graph
(`CallsAsk`), a store is only under way for a graph that built (`StoresBuilt`), temp files
belong to stores and are whole before the rename (`TempOfStore`, `TempWhole`), and every
payload in memory or on disk is trusted (`AllTrusted`). The last part, and with it that
answers are right, needs the hypothesis `ManifestTells`: graphs with one manifest are one
graph. The code does not ensure it: it holds where Python parsed the pieces and no two built
composables differ only in the names their shells keep; run `cache_hot_path` shows an answer
without it. Theorems: `CacheTypes`, `AnswersAreBuilt`, `TempsAreRemoved`, `FilesAreWhole`,
`EntriesStay` (an entry is only ever replaced by an entry of a graph with its digest), and
`CacheImplementsService`, the safety part of the refinement: every step of the cached call is
a step of the service or a stutter. No theorem but `AnswersAreBuilt` and
`CacheImplementsService` needs `ManifestTells`.

**NativeScopeProofs**, first part: `AssemblyScope`, for any client, that is, for every use of
the scope. `LowerPlanIsForest`:
an edge of the lower state leads from a record that exists to a younger occurrence, and no
occurrence is inserted twice, so the plan that `build()` follows has no cycle and no sharing;
it rests on the types and on ids staying ids as occurrences come (`IdsGrow`).
`NamesBoundOnce`: inductive only if what is queued and what is being flushed name each slot
once, too; `Collides` gives the first, taking a subset the second, `Accepts` the third.
`BuilderFollows`: what the builder has, is given and will be given is a
subsequence of the scope's insertions, witnessed by the increasing function
`BuilderFollowsScope` asks for; an insertion extends it (`FollowsInsertion`), draining
moves a seam inside the list, and a build that raises cuts off its end, which needs
`QueuesFollowStages`: nothing is queued anew while a build runs.

**BuildMergeProofs**, for graphs of any size. `MergeInv` takes the graph's `IInv` along:
an accepted graph is acyclic, so among the targets that are left one waits for nothing
(`SomeTargetReady`), and `SortNeverStuck` follows. With `InOrder` (targets are resolved after
those they depend on) a tree that is copied never changes again, which keeps `TreesAgree`
true through `ResolveTarget`: a resolved tree holds its sources' trees as they are *now*. At
the end that is `RootsEndExpanded`. `ExpansionIsUnique` says that nothing else solves the
equation: of the instances on which two solutions differ one has no source among them,
as the graph is acyclic, and so would not differ; the result therefore depends on the graph
and not on the order within a round. `SortExists` shows that a finite set of
positions can be listed, because no two of them have the same number of others before
them. `ContributionsInOrder` compares that list with `places`, which were taken one at a time while
the graph grew: every edge of a hole has one place in it, each place is behind the lower
orders and behind the earlier edges of its own, and two lists that agree so far are one; for
any integer orders.

**IdentifierWiringProofs**, for any pieces, names and number of wirings. The invariant
(`TreesOK`) says how every slot a wiring speaks of is spelled: as declared while the wiring is
pending, as the name it was given when applied. A wiring first prepares its target
(`PrepareKeeps`: a supply renamed, an alias published), then rewrites its demand
(`RewriteKeeps`), and each clause of `Careful` keeps one of the two off the slots of other
wirings. From it `WiringsHold`; with `DirectNamesApart` and `AssignNamesApart` (names made up for
different supplies differ) `WiringsApart`. The discipline must cover the demands of
`__astichi_arg__` parameters as it does imports; the proof did not go through without.

**HygieneProofs**, for trees of any depth and any number of uses. Only the *shape* of a
tree under construction is inductive (`Shape`); what the pass promises is a fact about a
shape. Every occurrence lands in one *cell*, a scope of one Python function. Spellings differ
between cells unless both own the name (`SpelledAlike`), and an import (`ImportedCell`), a
parameter (`ParameterSeen`) or a read (`LoadCell`) lands in the cell of the binding its author
meant. Where that leans on a habit the theorem says which: `NamesKeptLiteral` on none,
`ParametersStay` on one, `ImportsFollow` on three, `BindingsStayApart` on those and one more,
`ReadsSeeTheirs` on all but the one about parameters. So the theorems also tell, promise
by promise, which habit matters for what.

**NativeScopeProofs**, second part, for any pieces, holes and names, on all three engines.
`NInv` has three parts. `Mirror` and `NativeSound`: each side is a *sound* assembly (`Sound`),
its occurrences, edges, bindings and satisfied records belonging together. `Lockstep`: while
the mirror is in force, the native state is the mirror (`Ahead`) followed by exactly the
events still to be replayed, in order (`Pending`); this is what a batch stretches and each
`ReplayEvent` shortens. `BuilderKnows`, `Registry` and `BindingsKnown` (in `Mirror`): the
builder has, is being given or will be given what the mirror holds. `AskedPython` and
`AskedNative`: what was asked for is what the authoritative side holds, values by overlay
number. Theorems: `NothingIsForgotten`, `BindingsStayAlike`, `PlanStaysWhole`,
`HolesAreFilledOnce`, `NothingRaises`, `EnginesStayAlike`, `BuildsAsAsked`.
`NothingIsForgotten` says of the native state that it holds everything asked for, in order,
and of the builder that it has or will be given it *where it is told* (`BuilderIsTold`): a
batch on the default engine tells the builder nothing. `PlanStaysWhole` is about each side by
itself, the mirror and the native state.

None of them restricts the pieces. A piece may demand a value and an identifier by one word:
`astichi.compile` refuses it where Python parses (`_merge_demand_ports`,
`model/ports.py:283`), the native hot path lists the ports without that check
(`lower_engine/facade.py:748`). The scope resolves a record's name by word alone
(`_resolve_projection_record`, `scope.py:3840`), so binding the identifier first renames the value
too. The client of this module binds the value first (`ValueFirst`), and `ValuesFirst` in
`Sound` remembers it of every binding made; without that guard TLC finds `BindingsAgree` violated.
Where Python parses there is no such piece (rebuilding one raises while both its demands are
open); that the model lets engine `"python"` have it too is more than that engine needs.

**SourceExpansionProofs**, for any number of lines nested in any depth, any external names and
whatever expressions come to: the only assumption, `SourcesAssumption`, says that a source is
a sequence whose nesting is that of blocks. The induction is over two statements. `Structure`,
which needs no discipline: a key names iterations of expanded loops only, what is around a
statement of the tree is in the tree, and the path of a hole numbers its turns in the order of
the loops (`TreesStand`). That gives `HolesAreAddressable` for every source: once all is
unrolled a copy has a turn for every loop around it (`TreeTurned`), and a path tells the
turns. `Faithful`, for careful sources: every copy knows exactly what `Meant` says for the
names bound *so far* and the loops expanded *so far*; the loops expanded ran over what their
domains mean; the tree has every copy but those of declarations that were satisfied, and no
open declaration was ever copied. The induction has to speak of half-bound, half-unrolled
trees, since binding and unrolling may alternate: a bind adds exactly the reads that resolve
to no block, an expansion those whose innermost binder is the loop expanded. In both, what the
code takes for a shadow (`Hides`, `CopyShadow`, two different approximations) has to agree
with Python's resolution on the reads of a careful source, and this is where the parts of
`Careful` are used. `ExpansionsMeant` is `Faithful` at the end; `BindsSettle` (an action
property) derives from it that what is demanded is always the externals less those bound.
`ExpansionFaithful` is the induction. TLC found `Structure` and `Faithful` (its keys taken
from the iterations there are) true in all 498 000 states of the `source` run.

**Only model-checked.** Liveness (`BuildTerminates`, `BuildsEnd`, the fair part of
`ImplementsService`); what expressions come to in `SourceValues`; and all of `StagedBuild` and
`LowerMaterialize`, whose trees and references are recursive operators, which tlapm cannot
reach. `SourceExpansion` was such a module and was written anew over lines and keys to
be proved about; in those two a tree is nested in earnest, copies of trees go into trees and
paths are looked up in what came of it, and that way out is not open without leaving the
code behind.

## 6. Disagreements found

Two documented promises are broken by the code, and a run shows each:

* `cache_hot_path`: the cache key dumps `composable.tree`, which on the native hot path is a
  placeholder, so graphs that differ in their source only have one key, and a cached
  call answers with the other graph's tree. `tests/test_generated_ast_cache.py:80` says a
  changed source changes the digest.
* `native_fallback`: where the native materializer produces nothing,
  `_lower_materialize_if_supported` (`scope.py:1697`) goes on to the Python mirror before
  `build()` can reject the fallback. After a batch that left a demand open the mirror
  is complete without the batch, and `build()` returns it.
  `tests/test_native_materialize_no_python_fallback_f4d.py:1` says such a build is rejected.

The following were met while modelling and confirmed by executing the code. They have no
run of their own; where a word in brackets follows, it is the habit of section 4 that
keeps authors away from it.

*Graph, merge, wiring.*
* An edge into a `define` nobody uses still consumes its source, whose own root then
  disappears; `docs/reference/builder-api.md` says the edge is ignored.
* A leaf that is touched twice takes back another caller's equal assign, declared again in
  between; and a caller whose call only repeated an assign loses it when the leaf that
  made it overruns (`handles.py:703-709`).
* `x -> T.y` together with `y -> T.x`: both demands end up reading `x`.
* When every instance that could be a root is consumed, every target becomes a root
  (`materialize/api.py:1006`).
* A direct binding with a scoped name renames readers but not a `def`, `class` or import of
  the name, nor a supply an assign has read already (`api.py:635`); a second demand bound
  to such a supply is not found (`api.py:732`).

*Builder handles.*
* `builder.bind_identifier.A.x.to().B.s.x`, with `B` not registered, records the binding of
  `s` at `.s` and raises at `.x` without taking it back, as assign chains do; the
  demand stays taken and a retry is refused.
* The docstring of `AssignProxy` (`handles.py:928`) says validation waits for
  `build_merge`, while pieces that are registered are checked at once.

*Cache.*
* Two built composables that differ only in which shell keeps a name have one key, as
  `ast.dump` does not show `_astichi_scope_keep_names` (`cache.py:206`); the cached call for
  the one returns the tree of the other.

*Staged build.*
* An edge `X.h` on a composable of two roots is accepted and dropped [`roots`]; so is a
  deep edge to a piece inside a function of `A` (`api.py:3829`; `docs` on addressing say
  it is valid) [`inner`].
* Across stages ties come out reversed, and call arguments ignore `order` [`order`].
* Of two `elif` targets of one `if`, only the first is realized (`api.py:4461`), and two pieces
  in one hole with `elif` targets of one name get both's branches [`clauses`].
* A hole left open in one copy of a piece is emitted as a marker call when another hole of
  that name was filled, because the gate asks by name (`api.py:3964`) [`copies`].
* A filled value hole stays in the inventory: an edge to it is accepted and refused at build.
* A piece of `elif` or argument shape is accepted in a block hole and its marker is
  emitted as code [`kinds`].
* A root named as the hole's source name, `X.h.add.R` where `X` has `h` and a root `R`,
  recurses without end; using one source name in two stages fills the new holes
  with both.

*Assembly scope.*
* An adapter build that raises on a repeated name loses that insertion and all queued after
  it (`scope.py:1081`); the next build succeeds without them.
* A second site of a bound identifier is offered under its new name; applying it gives the
  two kinds of build different words.
* The lower plan starts at the first root only (`materialization.py:134`).
* A second site of a bound external is refused after its value is in the lower state
  (`scope.py:2515`).
* Two candidates for one single-value hole are both accepted (`scope.py:1047`); a stale
  candidate binds whatever demand has its ordinal in a re-registered piece (`scope.py:1447`).

*Native scope.*
* After a batch with the default engine, single calls go wrong: a demand is offered and bound
  twice, a literal is overwritten by overlay number, and `build(unroll=True)` merges
  without the batch.
* A batch that raises keeps its earlier requests natively without handles or values.
* A re-registered path stays live natively; an identifier of two sites bound twice ends
  differently in the two engines.
* Pieces without `native_source` raise `TypeError` after the Python state has changed.
* A piece that demands one word as a value and as an identifier is refused by `astichi.compile` and
  made by the native hot path; there, once the identifier is bound, the value is offered under
  the identifier's new name, which the piece does not demand.

*Hygiene.*
* A keep of the same name elsewhere detaches an import (`hygiene/api.py:985`).
* A managed import read in a function does not follow its rename there, and locals of inserted
  pieces capture managed imports.
* A nested expression that reads a parameter is renamed to a name nobody binds.
* An import passes over the nearest binding; `astichi_import(x)` beside a `def f(x)` renames the
  body and not the parameter; a function's closure does not follow renames.
* `def` names are no occurrences, and made-up names are made up again in a later stage.

*Lower materialization.*
* Parameter holes of one name behind a block hole that received none or several statements
  get each other's parameters; call, function and branch holes there are looked up
  by a stale path and raise, or the build is declined (`scope.py:1597`).
* A value payload with a leading `astichi_import` ignores its identifier binding
  (`scope.py:2936`).
* Locals of a piece below a function capture an inserted parameter or a module name the
  function reads; two managed imports of one name capture each other; a managed
  import that collides with a local has its reads renamed and not its statement.
* A `global` statement does not follow a rename; a name kept by marker is renamed.
* A name bound in an inserted branch overwrites the root's variable where the builder spells
  it apart (`scope.py:2200`).
* An import left unbound is accepted by `build()` and refused by the adapter's build.
* A root that binds `x`, below it a piece that does not, below that one that keeps `x`: the kept
  `x` is renamed, because only the immediate child's keeps are looked at (`scope.py:2101`)
  [kept below others].
* A comment in an inserted piece makes the lower build decline where the builder builds; a
  return in a branch at module level makes it decline where the builder raises; a display in a
  `**` hole is declined, a keyword given twice raises.

*External values and loops.*
* The parameter or local of a function inside an unrolled loop that has the loop target's name
  is replaced where it is read; `import x`, `with ... as x` and a plain `for x` in the
  loop are not seen as binding it again.
* A class body in a loop never gets the loop's value; a class attribute that has an external's
  name hides it from the methods.
* An external declared only in a function substitutes reads at module level of a stored
  name; a plain `for` over its name and a walrus in a comprehension are not seen.
* A block of only `astichi_bind_external` statements, or of those and unrolled loops, and the
  body of a loop over an empty domain come out empty, or with the one declaration that was
  bound last, depending on the order.
* A value-form `astichi_bind_external(a)` under a lambda, a loop or a function that binds `a`
  stays unbound, and `materialize` asks for a value that was given.
* A function that stores an external's name in an unrolled loop only is substituted or not
  depending on whether the loop was unrolled, over an empty domain, before the bind.

## 7. What is not modelled

* Of all trees, what the modules do not tell apart: other statements, expressions,
  annotations, spans and provenance; and the wording of errors. A refusal is a refusal.
* Index segments of paths, in `BuilderHandles` and `StagedBuild`; of its signatures, keyword-only
  parameters and payloads of several parameters; of the merge, port
  compatibility, regions of call arguments, comments and residual markers.
* Of the cache key, the fields of the manifest besides the tree of one composable.
* Of the scope, selectors, candidate properties and indexed names.
* Of hygiene, `del`, classes, what a walrus in an inserted expression binds, external names,
  keep and argument suffixes, and the older renamer of flat trees.
* Of lower materialization, external values (`SourceExpansion` and `NativeScope` have them),
  the native materializer's rewriting, and the error for call arguments of another region
  (`scope.py:2373-2392`): the scope does not offer such a piece for the hole.
* Of source expansion, `try`, `match` and `async` statements, which are the same blocks; the
  validation of values; `from ref` extensions.
* Of the native engine, the parser, the encoders and the rewriter: pure transformations of
  source text into tables and back.
* Engine selection, the hot-path registry, template caches and path selectors (plan items 1
  and 3). The first three are process-wide state with real hazards, listed in
  `PROJECT.json` without a property.
* The frontend, marker recognition, package encoding, emission, tree tools, diagnostics
  and snapshots: functions of one input without state or order, for which the golden
  tests of the repository are the better tool.
