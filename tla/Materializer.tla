----------------------------- MODULE Materializer -----------------------------
(***************************************************************************)
(* src/materializer.rs and the build half of ensure_graph_volume in        *)
(* src/volume.rs: package trees are linked into a private directory by     *)
(* several threads, then one thread links the bins, overlays workspace     *)
(* members and prepared images.                                            *)
(*                                                                         *)
(* Linking a package removes what is at its path, with everything nested   *)
(* below, creates the directory and fills it: three steps here, between    *)
(* which the other threads work.  A path is the sequence of its parts.     *)
(***************************************************************************)
EXTENDS Naturals, Sequences, SequencesExt, FiniteSets, Functions

CONSTANTS
    Layouts,     \* [packages: sequence of package records, links: likewise]
    Strategies,  \* subset of {"by depth", "serial", "fully parallel"}
    Threads      \* worker_count

VARIABLES layout, strategy, waves, task, step, tree, bins, faulted, failing, mphase
materializerVars == <<layout, strategy, waves, task, step, tree, bins, faulted, failing, mphase>>

Package(path, lockBins, imageBins) == [path |-> path, bin |-> lockBins, image |-> imageBins]

(* path_safety::validate_package_path, as far as the layout goes.          *)
ValidPath(path) == \E i \in 1 .. Len(path) - 1 : path[i] = "node_modules" /\ path[i + 1] # ".."

Work == layout.packages
Items == DOMAIN Work
Below(i) == {j \in Items : i # j /\ IsPrefix(Work[i].path, Work[j].path)}
Depth(i) == Cardinality({k \in DOMAIN Work[i].path : Work[i].path[k] = "node_modules"})

(* Contiguous chunks of a wave, one per thread.                            *)
Chunks(wave, n) ==
    LET size == (Len(wave) + n - 1) \div n
    IN  [t \in 1 .. Threads |-> SelectSeq(wave, LAMBDA i : \E k \in DOMAIN wave :
            wave[k] = i /\ (t - 1) * size < k /\ k <= t * size)]

(* Mutant: a wave holds two depths. *)
WavesOfTwo ==
    LET order == [i \in Items |-> i]
        At(d) == SelectSeq(order, LAMBDA i : Depth(i) \in {2 * d - 1, 2 * d})
    IN  SelectSeq([d \in 1 .. 3 |-> At(d)], LAMBDA w : w # <<>>)

(* Pass A: waves of one node_modules depth; each joins before the next.    *)
Waves ==
    LET order == [i \in Items |-> i]
        At(d) == SelectSeq(order, LAMBDA i : Depth(i) = d)
    IN  SelectSeq([d \in 1 .. 3 |-> At(d)], LAMBDA w : w # <<>>)

MaterializerInit ==
    /\ layout \in Layouts
    /\ strategy \in Strategies
    /\ \A i \in Items : ValidPath(Work[i].path)
    /\ waves = IF strategy = "by depth" THEN Waves ELSE <<[i \in Items |-> i]>>
    /\ task = [t \in 1 .. Threads |-> <<>>]
    /\ step = [t \in 1 .. Threads |-> "clear"]
    /\ tree = [i \in Items |-> "absent"]
    /\ bins = << >>
    /\ faulted = FALSE /\ failing = FALSE /\ mphase = "linking"

Idle == \A t \in 1 .. Threads : task[t] = <<>>

StartWave ==
    /\ mphase = "linking" /\ Idle /\ waves # <<>> /\ ~failing
    /\ task' = Chunks(Head(waves), IF strategy = "serial" THEN 1 ELSE Threads)
    /\ waves' = Tail(waves)
    /\ UNCHANGED <<layout, strategy, step, tree, bins, faulted, failing, mphase>>

(* A thread that fails leaves the rest of its chunk; the others go on.     *)
Abandon(t) ==
    /\ failing' = TRUE
    /\ task' = [task EXCEPT ![t] = <<>>]
    /\ step' = [step EXCEPT ![t] = "clear"]

(* link_tree, reflink_tree: remove_any(target).                            *)
RemoveTarget(t) ==
    /\ task[t] # <<>> /\ step[t] = "clear"
    /\ tree' = [i \in Items |-> IF i \in Below(Head(task[t])) \cup {Head(task[t])} THEN "absent" ELSE tree[i]]
    /\ step' = [step EXCEPT ![t] = "create"]
    /\ UNCHANGED <<layout, strategy, waves, task, bins, faulted, failing, mphase>>

CreateTarget(t) ==
    /\ task[t] # <<>> /\ step[t] = "create"
    /\ tree' = [tree EXCEPT ![Head(task[t])] = "partial"]
    /\ step' = [step EXCEPT ![t] = "fill"]
    /\ UNCHANGED <<layout, strategy, waves, task, bins, faulted, failing, mphase>>

(* link_entries_from_index, link_tree_by_walking_directory: a directory    *)
(* that is gone fails the first file.                                      *)
FillTarget(t) ==
    /\ task[t] # <<>> /\ step[t] = "fill"
    /\ IF tree[Head(task[t])] = "absent"
       THEN Abandon(t) /\ UNCHANGED tree
       ELSE /\ tree' = [tree EXCEPT ![Head(task[t])] = "whole"]
            /\ task' = [task EXCEPT ![t] = Tail(@)]
            /\ step' = [step EXCEPT ![t] = "clear"]
            /\ UNCHANGED failing
    /\ UNCHANGED <<layout, strategy, waves, bins, faulted, mphase>>

(* A corrupt index, an unreadable image, a full disk.                      *)
LinkFails(t) ==
    /\ task[t] # <<>>
    /\ Abandon(t)
    /\ faulted' = TRUE
    /\ UNCHANGED <<layout, strategy, waves, tree, bins, mphase>>

JoinWaves ==
    /\ mphase = "linking" /\ Idle /\ (waves = <<>> \/ failing)
    /\ mphase' = IF failing THEN "failed" ELSE "bins"
    /\ UNCHANGED <<layout, strategy, waves, task, step, tree, bins, faulted, failing>>

(* A bin name of an image is its last segment (image_declared_bins).       *)
DeclaredBins(p) == IF p.bin # {} THEN p.bin ELSE {Last(name) : name \in p.image}

(* Mutant: a later declarant replaces the link. *)
LinkBinsOver(links, p) == [n \in DeclaredBins(p) |-> p.path] @@ links

(* link_bins: the first declarant keeps the name.                          *)
LinkBins(links, p) == links @@ [n \in DeclaredBins(p) |-> p.path]

(* Pass B, over all packages in lock order, ...                            *)
LinkAllBins ==
    /\ mphase = "bins"
    /\ bins' = FoldLeft(LinkBins, bins, Work)
    /\ mphase' = "overlay"
    /\ UNCHANGED <<layout, strategy, waves, task, step, tree, faulted, failing>>

(* ... then over the members, whose manifest names a bin as it likes: a    *)
(* name with a scope has no directory in .bin.                             *)
MemberBins(p) == {<<name, p.path>> : name \in p.image}
Overlay ==
    /\ mphase = "overlay"
    /\ IF \E k \in DOMAIN layout.links : \E b \in MemberBins(layout.links[k]) : Len(b[1]) > 1
       THEN mphase' = "failed" /\ UNCHANGED bins
       ELSE mphase' = "done" /\ bins' = FoldLeft(LinkBins, bins, layout.links)
    /\ UNCHANGED <<layout, strategy, waves, task, step, tree, faulted, failing>>

MaterializerNext ==
    \/ StartWave \/ JoinWaves \/ LinkAllBins \/ Overlay
    \/ \E t \in 1 .. Threads : RemoveTarget(t) \/ CreateTarget(t) \/ FillTarget(t) \/ LinkFails(t)
-----------------------------------------------------------------------------
(* relative_path: from the directory `from` to `to`.                       *)
RelativePath(from, to) ==
    LET common == Len(LongestCommonPrefix({from, to}))
    IN  [i \in 1 .. Len(from) - common |-> ".."] \o SubSeq(to, common + 1, Len(to))

BinTarget(path) == RelativePath(<<"node_modules", ".bin">>, path \o <<"cli">>)

(* What the system finds behind a link in `dir`.                           *)
Follow(dir, target) ==
    FoldLeft(LAMBDA at, part : IF part = ".." THEN SubSeq(at, 1, Len(at) - 1) ELSE Append(at, part), dir, target)

(* The threads of a build never undo each other's work: the tree is whole  *)
(* when they succeed, and they fail only when the file system does.        *)
TreeComplete ==
    /\ mphase \in {"bins", "overlay", "done"} => \A i \in Items : tree[i] = "whole"
    /\ mphase = "failed" => faulted

(* Bins are those of the first declarant in lock order, members last, and  *)
(* their links lead to the package, whatever the threads did.              *)
BinsFirstDeclared ==
    mphase = "done" =>
        LET all == Work \o layout.links
            names == UNION {DeclaredBins(all[k]) : k \in DOMAIN all}
            First(n) == CHOOSE k \in DOMAIN all :
                           n \in DeclaredBins(all[k]) /\ \A j \in 1 .. k - 1 : n \notin DeclaredBins(all[j])
        IN  /\ DOMAIN bins = names
            /\ \A n \in names :
                  Follow(<<"node_modules", ".bin">>, BinTarget(bins[n])) = all[First(n)].path \o <<"cli">>
=============================================================================
