----------------------------- MODULE ProjectView -----------------------------
(***************************************************************************)
(* The project's node_modules over graph volumes: how an install attaches  *)
(* a volume as relays or as copies, removes what the install before it     *)
(* owned, and writes the plan a later install trusts (volume.rs,           *)
(* graph.rs, finalize_install in cli/install.rs).                          *)
(*                                                                         *)
(* A path is <<name>> or <<name, member>>; only .bin and scopes have       *)
(* members.  A node is a link, a package tree or such a directory.         *)
(***************************************************************************)
EXTENDS Integers, Sequences, SequencesExt, FiniteSets

CONSTANTS
    Graphs,          \* the graphs the lock may name over time
    Entries,         \* graph -> name -> the node its volume publishes
    Links,           \* graph -> placement of a live link -> the bins it declares
    Workspaces,      \* the graphs locked while package.json declared workspaces
    Scopes,          \* the names that are scopes
    NamesDescending, \* every name, last in string order first
    MaxInstalls, MaxEdits, MaxFaults

VARIABLES
    view,       \* the project's node_modules
    volumes,    \* the published volumes, by graph
    plan,       \* .bpm-state: graph and owned entries of the last recorded install
    registered, \* the graph the metadata index holds for this project
    at,         \* the running install, or idle
    reported,   \* paths some install warned it preserved
    installs, edits, faults

vars == <<view, volumes, plan, registered, at, reported, installs, edits, faults>>

Names == ToSet(NamesDescending)
Tree(content) == [kind |-> "tree", c |-> content]
Link(target) == [kind |-> "link", to |-> target]
Dir(in) == [kind |-> "dir", in |-> in]
Absent == [kind |-> "absent"]
Collected == <<>>
NoGraph == "none"
NoPlan == [graph |-> NoGraph, owned |-> {}]
Idle == [stage |-> "idle"]
(* The plan's id also covers the workspace layout, the volume's does not:  *)
(* of a workspace project, no volume has the name the plan gives.          *)
VolumeOf(graph) == IF graph \in Workspaces THEN NoGraph ELSE graph
At(f, key) == IF key \in DOMAIN f THEN f[key] ELSE Absent
Disk == [view |-> view, volumes |-> volumes]
-----------------------------------------------------------------------------
(* What is at a path: a member is looked up through a relay of its parent. *)
Lookup(disk, path) ==
    LET top == disk.view[path[1]]
        target == IF top.kind = "link" /\ top.to[1] = "volume" THEN At(disk.volumes[top.to[2]], top.to[3]) ELSE top
    IN  IF Len(path) = 1 THEN top
        ELSE IF target.kind = "dir" THEN At(target.in, path[2]) ELSE Absent

(* Path::exists follows links: a dangling one does not exist.              *)
Exists(disk, path) ==
    LET node == Lookup(disk, path)
        to == node.to
        real == IF Len(path) = 2 /\ disk.view[path[1]].kind = "link" THEN disk.view[path[1]].to ELSE <<>>
    IN  CASE node.kind # "link" -> node # Absent
          [] to[1] = "volume" /\ Len(to) = 3 -> to[3] \in DOMAIN disk.volumes[to[2]]
          [] to[1] = "volume" -> /\ to[3] \in DOMAIN disk.volumes[to[2]]
                                 /\ to[4] \in DOMAIN disk.volumes[to[2]][to[3]].in
          [] to[1] = "source" -> TRUE
          [] OTHER -> IF real # <<>> THEN to[2] \in DOMAIN disk.volumes[real[2]]
                      ELSE /\ disk.view[to[2]] # Absent
                           /\ disk.view[to[2]].kind = "link" /\ disk.view[to[2]].to[1] = "volume"
                                => to[2] \in DOMAIN disk.volumes[disk.view[to[2]].to[2]]

(* A write at a path, again through a relay of its parent.                 *)
With(f, key, node) ==
    [k \in {x \in DOMAIN f \cup {key} : x # key \/ node # Absent} |-> IF k = key THEN node ELSE f[k]]
Put(disk, path, node) ==
    LET top == disk.view[path[1]] IN
    CASE Len(path) = 1 -> [disk EXCEPT !.view[path[1]] = node]
      [] top.kind = "dir" -> [disk EXCEPT !.view[path[1]] = Dir(With(top.in, path[2], node))]
      [] top.kind = "link" /\ top.to[1] = "volume" /\ top.to[3] \in DOMAIN disk.volumes[top.to[2]] ->
            [disk EXCEPT !.volumes[top.to[2]][top.to[3]].in = With(@, path[2], node)]
      [] OTHER -> disk
PutAll(disk, nodes) == FoldSet(LAMBDA path, d : Put(d, path, nodes[path]), disk, DOMAIN nodes)

(* Mutant: whatever is there is taken for the directory wanted. *)
MakeRealNot(disk, name) ==
    IF disk.view[name] = Absent THEN Put(disk, <<name>>, Dir(<<>>)) ELSE disk

(* ensure_real_dir, and its like for .bin: a relay or a file makes way for *)
(* a directory; a directory stays with what is in it.                      *)
MakeReal(disk, name) ==
    IF disk.view[name].kind = "dir" THEN disk ELSE Put(disk, <<name>>, Dir(<<>>))
-----------------------------------------------------------------------------
(* split_placement: the live links in a scope, the bins of all links.      *)
ScopedLinks(g, name) == {path \in DOMAIN Links[g] : Len(path) = 2 /\ path[1] = name}
LiveBins(g, bin) == {path \in DOMAIN Links[g] : bin \in DOMAIN Links[g][path]}
Mixed(g, name) == \/ name = ".bin" /\ \E path \in DOMAIN Links[g] : Links[g][path] # <<>>
                  \/ ScopedLinks(g, name) # {}
Source(path) == Link(<<"source">> \o path)

(* What a relay attachment puts at and under one entry of the volume.      *)
RelayNodes(g, name) ==
    IF Mixed(g, name) THEN
        [path \in {<<name, m>> : m \in DOMAIN Entries[g][name].in} |->
           CASE path \in DOMAIN Links[g] -> Source(path)
             [] name = ".bin" /\ LiveBins(g, path[2]) # {} ->
                    LET link == CHOOSE l \in LiveBins(g, path[2]) : TRUE
                    IN  Link(<<"..">> \o link \o <<Links[g][link][path[2]]>>)
             [] OTHER -> Link(<<"volume", g>> \o path)]
    ELSE <<name>> :> (IF <<name>> \in DOMAIN Links[g] THEN Source(<<name>>) ELSE Link(<<"volume", g, name>>))

(* attach_project_relay, one entry.                                        *)
AttachRelay(disk, g, name) ==
    PutAll(IF Mixed(g, name) THEN MakeReal(disk, name) ELSE disk, RelayNodes(g, name))

(* Mutant: a directory already there is taken for the copy. *)
AttachLocalOnce(disk, g, name) ==
    IF disk.view[name].kind \in {"tree", "dir"} THEN disk
    ELSE IF <<name>> \in DOMAIN Links[g] THEN Put(disk, <<name>>, Source(<<name>>))
    ELSE PutAll(Put(disk, <<name>>, disk.volumes[g][name]), [path \in ScopedLinks(g, name) |-> Source(path)])

(* attach_project_local_with_backend, one entry: the copy replaces what is *)
(* there (reflink_tree and copy_tree), and links replace copied members.   *)
AttachLocal(disk, g, name) ==
    IF <<name>> \in DOMAIN Links[g] THEN Put(disk, <<name>>, Source(<<name>>))
    ELSE PutAll(Put(disk, <<name>>, disk.volumes[g][name]), [path \in ScopedLinks(g, name) |-> Source(path)])

Attached(disk, g, mode, names) ==
    FoldSet(LAMBDA name, d : IF mode = "relay" THEN AttachRelay(d, g, name) ELSE AttachLocal(d, g, name), disk, names)

Owned(path, identity) == [path |-> path, identity |-> identity]
OwnedBy(g, mode) ==
    IF mode = "relay"
    THEN UNION {{Owned(path, RelayNodes(g, name)[path]) : path \in DOMAIN RelayNodes(g, name)} : name \in DOMAIN Entries[g]}
    ELSE {Owned(path, Source(path)) : path \in DOMAIN Links[g]}
          \cup {Owned(<<name>>, Tree("volume")) : name \in {n \in DOMAIN Entries[g] : <<n>> \notin DOMAIN Links[g]}}

(* tree_fingerprint: kinds, paths, link targets and bytes of all entries,  *)
(* so trees have one fingerprint only when they are equal.                 *)
TreeFingerprint(node) == node

(* infer_prior_ownership, for a plan that recorded no entries: claims what *)
(* is exactly what attaching the old volume left.                          *)
InferPriorOwnership(disk, g) ==
    {Owned(<<name>>, disk.view[name]) : name \in {n \in DOMAIN disk.volumes[g] : disk.view[n] = Link(<<"volume", g, n>>)}}
    \cup {Owned(<<name>>, Tree("volume")) : name \in {n \in DOMAIN disk.volumes[g] : disk.view[n].kind # "absent"
                                                /\ TreeFingerprint(disk.view[n]) = TreeFingerprint(disk.volumes[g][n])}}
-----------------------------------------------------------------------------
(* Mutant: a directory is taken for the copy that was made, unread. *)
SafeToRemoveUnread(disk, entry, prior) ==
    LET node == Lookup(disk, entry.path) IN
    IF entry.identity.kind = "link" THEN node = entry.identity
    ELSE node.kind # "link" /\ entry.path[1] \in DOMAIN disk.volumes[prior]

(* The identity check: a relay must point where it was made to, a copy     *)
(* must still have the fingerprint of the old volume's entry.              *)
SafeToRemove(disk, entry, prior) ==
    LET node == Lookup(disk, entry.path) IN
    IF entry.identity.kind = "link" THEN node = entry.identity
    ELSE /\ node.kind # "link" /\ entry.path[1] \in DOMAIN disk.volumes[prior]
         /\ TreeFingerprint(node) = TreeFingerprint(disk.volumes[prior][entry.path[1]])

(* remove_dir of a scope that the removal left empty.                      *)
Tidy(disk, name) ==
    IF name \in Scopes /\ disk.view[name] = Dir(<<>>) THEN Put(disk, <<name>>, Absent) ELSE disk

(* Mutant: only the entry itself is removed, nothing below it. *)
ReconcileTop(disk, entry, desired, prior) ==
    IF Len(entry.path) = 1 /\ entry.path \notin desired /\ Exists(disk, entry.path) /\ SafeToRemove(disk, entry, prior)
    THEN Put(disk, entry.path, Absent) ELSE disk

(* reconcile_project_view_with_prior_volume, one old entry.                *)
Reconcile(disk, entry, desired, prior) ==
    IF entry.path \notin desired /\ Exists(disk, entry.path) /\ SafeToRemove(disk, entry, prior)
    THEN Tidy(Put(disk, entry.path, Absent), entry.path[1])
    ELSE disk
Preserved(disk, entry, desired, prior) ==
    entry.path \notin desired /\ Exists(disk, entry.path) /\ ~SafeToRemove(disk, entry, prior)

(* The old entries of one name, the members before the name itself.        *)
Below(owned, name) ==
    LET some == {e \in owned : e.path[1] = name}
    IN  SetToSeq({e \in some : Len(e.path) = 2}) \o SetToSeq({e \in some : Len(e.path) = 1})
-----------------------------------------------------------------------------
(* project_attached: every entry of the volume is a relay to exactly it or *)
(* some directory.                                                         *)
ProjectAttached(g) ==
    \A name \in DOMAIN volumes[g] :
        IF view[name].kind = "link" THEN view[name] = Link(<<"volume", g, name>>)
        ELSE view[name].kind \in {"tree", "dir"}

(* validate_plan_with_profile: the plan is of this version (which records  *)
(* its entries) and graph, the volume's packages have their manifests, the *)
(* project is attached.                                                    *)
PlanValid(g) == plan.owned # {} /\ plan.graph = g /\ volumes[VolumeOf(g)] # Collected /\ ProjectAttached(g)

Init ==
    /\ volumes = [g \in Graphs \cup {NoGraph} |-> IF g \in Graphs THEN Entries[g] ELSE Collected]
    /\ \/ plan = NoPlan /\ registered = NoGraph /\ view = [n \in Names |-> Absent]
       \/ \E g \in Graphs, mode \in {"relay", "local"} : \* by a version without links, whose plans record no entries
            /\ Links[g] = <<>> /\ plan = [graph |-> g, owned |-> {}] /\ registered = g
            /\ view = Attached([view |-> [n \in Names |-> Absent], volumes |-> volumes], g, mode, DOMAIN Entries[g]).view
    /\ at = Idle /\ reported = {} /\ installs = 0 /\ edits = 0 /\ faults = 0

(* finalize_install begins: ownership of the install before it, and the    *)
(* volume, built when it is not there.                                     *)
Begin(g, mode) ==
    /\ at = Idle /\ installs < MaxInstalls /\ installs' = installs + 1
    /\ ~PlanValid(g)
    /\ volumes' = IF volumes[g] = Collected THEN [volumes EXCEPT ![g] = Entries[g]] ELSE volumes
    /\ at' = [stage |-> "attach", graph |-> g, mode |-> mode, prior |-> VolumeOf(plan.graph), todo |-> NamesDescending,
              planned |-> FALSE,
              old |-> IF plan = NoPlan \/ plan.owned # {} THEN plan.owned ELSE InferPriorOwnership(Disk, VolumeOf(plan.graph))]
    /\ UNCHANGED <<view, plan, registered, reported, edits, faults>>

Attach ==
    /\ at.stage = "attach"
    /\ LET disk == Attached(Disk, at.graph, at.mode, DOMAIN Entries[at.graph])
       IN  view' = disk.view /\ volumes' = disk.volumes
    /\ at' = [at EXCEPT !.stage = "tail"]
    /\ UNCHANGED <<plan, registered, reported, installs, edits, faults>>

(* One thread reconciles, name by name...                                  *)
ReconcileNext ==
    /\ at.stage = "tail" /\ at.todo # <<>>
    /\ LET desired == {e.path : e \in OwnedBy(at.graph, at.mode)}
           old == Below(at.old, Head(at.todo))
           Step(disk, entry) == Reconcile(disk, entry, desired, at.prior)
           disk == FoldLeft(Step, Disk, old)
       IN  /\ view' = disk.view /\ volumes' = disk.volumes
           /\ reported' = reported \cup {e.path : e \in {x \in ToSet(old) : Preserved(Disk, x, desired, at.prior)}}
    /\ at' = [at EXCEPT !.todo = Tail(@)]
    /\ UNCHANGED <<plan, registered, installs, edits, faults>>

(* ... and gives up at an I/O error, which nobody hears of;                *)
ReconcileFails ==
    /\ at.stage = "tail" /\ at.todo # <<>> /\ faults < MaxFaults /\ faults' = faults + 1
    /\ at' = [at EXCEPT !.todo = <<>>]
    /\ UNCHANGED <<view, volumes, plan, registered, reported, installs, edits>>

(* the other writes the plan, or warns that it could not.                  *)
WritePlan ==
    /\ at.stage = "tail" /\ ~at.planned
    /\ plan' = [graph |-> at.graph, owned |-> OwnedBy(at.graph, at.mode)]
    /\ at' = [at EXCEPT !.planned = TRUE]
    /\ UNCHANGED <<view, volumes, registered, reported, installs, edits, faults>>
WritePlanFails ==
    /\ at.stage = "tail" /\ ~at.planned /\ faults < MaxFaults /\ faults' = faults + 1
    /\ at' = [at EXCEPT !.planned = TRUE]
    /\ UNCHANGED <<view, volumes, plan, registered, reported, installs, edits>>

Finalize ==
    /\ at.stage = "tail" /\ at.todo = <<>> /\ at.planned
    /\ registered' = at.graph
    /\ at' = Idle
    /\ UNCHANGED <<view, volumes, plan, reported, installs, edits, faults>>

(* The install is killed or fails: some entries may be attached already.   *)
Crash ==
    /\ at.stage # "idle" /\ faults < MaxFaults /\ faults' = faults + 1
    /\ \E some \in IF at.stage = "attach" THEN SUBSET DOMAIN Entries[at.graph] ELSE {{}} :
            view' = Attached(Disk, at.graph, at.mode, some).view
    /\ at' = Idle
    /\ UNCHANGED <<volumes, plan, registered, reported, installs, edits>>

(* The user between installs: changes or replaces a copy or a relay, adds  *)
(* a package by hand, deletes one.                                         *)
Edit(name) ==
    /\ at = Idle /\ edits < MaxEdits /\ edits' = edits + 1
    /\ \E node \in {Tree("user"), Absent} \cup {Link(<<"source", "user">>)} : view' = [view EXCEPT ![name] = node]
    /\ UNCHANGED <<volumes, plan, registered, at, reported, installs, faults>>

(* gc removes a volume no project is registered for.                       *)
Collect(g) ==
    /\ at = Idle /\ g # registered /\ volumes[g] # Collected
    /\ volumes' = [volumes EXCEPT ![g] = Collected]
    /\ UNCHANGED <<view, plan, registered, at, reported, installs, edits, faults>>

Next ==
    \/ \E g \in Graphs, mode \in {"relay", "local"} : Begin(g, mode)
    \/ Attach \/ ReconcileNext \/ ReconcileFails \/ WritePlan \/ WritePlanFails \/ Finalize \/ Crash
    \/ \E name \in Names : Edit(name)
    \/ \E g \in Graphs : Collect(g)
Spec == Init /\ [][Next]_vars
-----------------------------------------------------------------------------
Users(node) == node \in {Tree("user"), Link(<<"source", "user">>)}
Leaves == {<<n>> : n \in {x \in Names : view[x].kind \notin {"absent", "dir"}}}
          \cup UNION {{<<n, m>> : m \in DOMAIN view[n].in} : n \in {x \in Names : view[x].kind = "dir"}}

(* reconcile_project_view never removes what the user made, also where an  *)
(* earlier install had placed, and still believes it owns, the entry.      *)
UserEntriesKept ==
    [][ReconcileNext => \A n \in Names : Users(view[n]) => view'[n] = view[n]]_vars

(* No install, crash or reconciliation changes a package of a published    *)
(* volume, although the view leads into it and entries become directories. *)
PublishedPackagesKept ==
    \A g \in Graphs : volumes[g] # Collected =>
        \A n \in DOMAIN Entries[g] \ {".bin"} : n \in DOMAIN volumes[g] /\ volumes[g][n] = Entries[g][n]

(* After undisturbed installs the view holds what the current graph owns,  *)
(* what the user made, what some install reported, and bins of live links  *)
(* (those dangle once the link is removed, and Path::exists skips them).   *)
StaleEntriesGone ==
    at = Idle /\ faults = 0 /\ plan.owned # {} =>
        \A path \in Leaves :
            \/ \E e \in plan.owned : e.path \in {path, <<path[1]>>}
            \/ Users(Lookup(Disk, path))
            \/ path[1] = ".bin" /\ Lookup(Disk, path).kind = "link" /\ Lookup(Disk, path).to[1] = ".."
            \/ path \in reported \/ <<path[1]>> \in reported

(* A plan hit after undisturbed installs serves nothing of another graph:  *)
(* relays lead to this graph's volume, copies are this volume's.           *)
Serves(g, path, node) ==
    LET entry == Entries[g][path[1]]
        own == IF Len(path) = 1 THEN entry ELSE At(entry.in, path[2])
    IN  \/ Users(node) \/ node = own
        \/ node = Link(<<"volume", g>> \o path) \/ node = Source(path)
        \/ path[1] = ".bin" /\ node.kind = "link" /\ node.to[1] = ".."
PlanHitServesGraph ==
    \A g \in Graphs : at = Idle /\ faults = 0 /\ PlanValid(g) =>
        \A path \in {p \in Leaves : p[1] \in DOMAIN Entries[g]} : path \in reported \/ Serves(g, path, Lookup(Disk, path))

(* What attach_project_relay says it avoids: nothing is written or removed *)
(* through a relay into the shared volume.                                 *)
VolumesNeverWritten == \A g \in Graphs : volumes[g] \in {Collected, Entries[g]}
=============================================================================
