---------------------------- MODULE ExecutableAst ----------------------------
(***************************************************************************)
(* What `BuilderHandle.to_executable_ast` promises its callers, with or    *)
(* without a cache: a call on a graph returns the tree that building this  *)
(* graph gives, or raises.                                                 *)
(***************************************************************************)
CONSTANTS
    User,         \* processes that build
    Graph,        \* builder graphs, with the unroll policy of the call
    Unbuildable,  \* those whose build raises, a subset
    Tree,         \* executable trees
    TreeOf,       \* a function: the tree a build of the graph gives
    Nothing       \* no call, no answer: no graph

VARIABLES
    asked,    \* the graph a user's running call is about
    answers   \* the tree each user last got, by graph; none after an error

abstractVars == <<asked, answers>>

Answer == [graph : Graph, tree : Tree]

ServiceInit ==
    /\ asked = [u \in User |-> Nothing]
    /\ answers = [u \in User |-> {}]

Ask(u, g) ==
    /\ asked[u] = Nothing
    /\ asked' = [asked EXCEPT ![u] = g]
    /\ answers' = [answers EXCEPT ![u] = {}]

Reply(u) ==
    /\ asked[u] \in Graph \ Unbuildable
    /\ answers' = [answers EXCEPT ![u] = {[graph |-> asked[u], tree |-> TreeOf[asked[u]]]}]
    /\ asked' = [asked EXCEPT ![u] = Nothing]

(* The call raises, or its process dies. *)
GiveUp(u) ==
    /\ asked[u] # Nothing
    /\ asked' = [asked EXCEPT ![u] = Nothing]
    /\ UNCHANGED answers

ServiceNext ==
    \E u \in User : (\E g \in Graph : Ask(u, g)) \/ Reply(u) \/ GiveUp(u)

ServiceSafety == ServiceInit /\ [][ServiceNext]_abstractVars

ServiceSpec ==
    /\ ServiceSafety
    /\ \A u \in User : WF_abstractVars(Reply(u) \/ GiveUp(u))
=============================================================================
