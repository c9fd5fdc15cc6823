--------------------------- MODULE MCVolumeViews ---------------------------
(***************************************************************************)
(* A graph volume and a project's view of volumes, in two worlds.  In      *)
(* "volume" three installs that agree on the scripts policy share the      *)
(* volume of one graph.  In "view" one project moves between three graphs: *)
(* g1 has a live link n with a bin x and a scope with a live member; in g2 *)
(* the package n comes from the registry with the same bin; g3 has a       *)
(* workspace member with a bin.                                            *)
(***************************************************************************)
EXTENDS GraphVolume, TLC

CONSTANTS i1, i2, i3, MaxInstalls
VARIABLES world, tree, volumes, plan, registered, attaching, reported, installs, touched, broken
viewVars == <<tree, volumes, plan, registered, attaching, reported, installs, touched, broken>>

Three == {i1, i2, i3}
OnlyFirst == {i1}
Nobody == {}

TreeNode(content) == [kind |-> "tree", c |-> content]
LinkNode(target) == [kind |-> "link", to |-> target]
DirNode(in) == [kind |-> "dir", in |-> in]
BinOf(owner) == LinkNode(<<"..", owner, "cli">>)
EntriesDef ==
    [g1 |-> [n |-> TreeNode("n1"), a |-> TreeNode("a1"), bin |-> DirNode([x |-> BinOf("n"), y |-> BinOf("a")]),
             s |-> DirNode([m |-> TreeNode("m1"), p |-> TreeNode("p1")])],
     g2 |-> [n |-> TreeNode("n2"), bin |-> DirNode([x |-> BinOf("n")]), s |-> DirNode([p |-> TreeNode("p2")])],
     g3 |-> [k |-> TreeNode("k1"), a |-> TreeNode("a2"), bin |-> DirNode([z |-> BinOf("k")])]]
(* The names of the file system. *)
Named(f) == [n \in {CASE x = "bin" -> ".bin" [] x = "s" -> "@s" [] OTHER -> x : x \in DOMAIN f} |->
               CASE n = ".bin" -> f.bin [] n = "@s" -> f.s [] OTHER -> f[n]]
MCEntries == [g \in {"g1", "g2", "g3"} |-> Named(EntriesDef[g])]
MCLinks == [g1 |-> (<<"n">> :> [x |-> "cli"]) @@ (<<"@s", "m">> :> <<>>), g2 |-> <<>>, g3 |-> (<<"k">> :> [z |-> "cli"])]
MCGraphs == {"g1", "g2", "g3"}
MCWorkspaces == {"g3"}
MCScopes == {"@s"}
MCNames == <<"n", "k", "a", "@s", ".bin">>
V == INSTANCE ProjectView WITH
        Graphs <- MCGraphs, Entries <- MCEntries, Links <- MCLinks, Workspaces <- MCWorkspaces, Scopes <- MCScopes,
        NamesDescending <- MCNames, MaxEdits <- 1, MaxFaults <- 1,
        view <- tree, at <- attaching, edits <- touched, faults <- broken
WorldInit ==
    \/ world = "volume" /\ Init /\ V!Init /\ plan = V!NoPlan
    \/ world = "view" /\ V!Init /\ Init /\ vol = Absent /\ ~aged
WorldNext ==
    /\ UNCHANGED world
    /\ \/ world = "volume" /\ Next /\ UNCHANGED viewVars
       \/ world = "view" /\ V!Next /\ UNCHANGED vars
WorldSpec == WorldInit /\ [][WorldNext]_<<vars, viewVars, world>>
-----------------------------------------------------------------------------
(* reconcile_project_view never removes what the user made.                *)
UserEntriesKept == V!UserEntriesKept

(* No install, crash or reconciliation changes a package of a published    *)
(* volume, although the view leads into it; after undisturbed installs     *)
(* nothing of an earlier graph is left in the view but what an install     *)
(* reported, and a plan hit serves nothing of another graph.               *)
ViewServesGraph == V!PublishedPackagesKept /\ V!StaleEntriesGone /\ V!PlanHitServesGraph
=============================================================================
