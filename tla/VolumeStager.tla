---------------------------- MODULE VolumeStager ----------------------------
(***************************************************************************)
(* src/volume.rs, VolumeStager: the tree of a graph volume, cloned package *)
(* by package while the install is still downloading.  The state is one    *)
(* record that a single thread owns, so the methods are operators from     *)
(* state to state; FetchPipeline runs them in the stager's thread.         *)
(*                                                                         *)
(* A placed unit stands for its path and the artifact that belongs there.  *)
(* Above[u] is ancestor_package_paths: the package paths on the way to u.  *)
(* Not all of them are units: a workspace member is a link, and packages   *)
(* may be nested below a link although nothing is ever downloaded for it.  *)
(***************************************************************************)
EXTENDS Naturals, Sequences, FiniteSets

CONSTANTS
    Units,      \* the placed packages that are downloaded
    Above       \* Above[u]: the package paths u is nested in

ASSUME NestingAssumption ==
    /\ IsFiniteSet(Units)
    /\ \A u \in Units : u \notin Above[u] /\ \A v \in Above[u] \cap Units : Above[v] \subseteq Above[u]

\* `tree` is not a field of the code: it is the set of packages whose files
\* are all in the staging directory.
NewStager ==
    [active |-> FALSE, dead |-> FALSE, packages |-> {}, waiting |-> <<>>,
     preActivation |-> <<>>, tree |-> {}]

\* A failed clone, or a failed create_dir_all: nothing of the rest is used.
Dead == [NewStager EXCEPT !.dead = TRUE]

StagerType(s) ==
    /\ s.active \in BOOLEAN /\ s.dead \in BOOLEAN
    /\ s.packages \subseteq Units /\ s.tree \subseteq s.packages
    /\ s.waiting \in Seq(Units) /\ s.preActivation \in Seq(Units)

\* reflink_tree removes its target first, with everything nested in it.
Clone(s, u) ==
    [s EXCEPT !.packages = @ \cup {u},
              !.tree = {v \in @ : u \notin Above[v]} \cup {u}]

\* Mutant: a unit is ready as soon as the stager is active.
ReadyUngated(s, u, gate) == gate => s.active

\* A waiter's turn: all its ancestors are staged, or nobody asks any more.
Ready(s, u, gate) == gate => Above[u] \subseteq s.packages

\* A waiter is cloned, or goes to the end of those that remain.
Visit(s, u, gate) ==
    IF Ready(s, u, gate) THEN Clone(s, u) ELSE [s EXCEPT !.waiting = Append(@, u)]

\* One round of drain's inner loop: the waiters in the order they arrived.
Round(s, gate) ==
    LET visited[n \in 0 .. Len(s.waiting)] ==
            IF n = 0 THEN [s EXCEPT !.waiting = <<>>] ELSE Visit(visited[n - 1], s.waiting[n], gate)
    IN  visited[Len(s.waiting)]

\* Rounds go on while they clone something; each but the last clones a waiter.
Drain(s, gate) ==
    LET after[n \in 0 .. Len(s.waiting)] ==
            IF n = 0 THEN s ELSE Round(after[n - 1], gate)
    IN  IF s.active THEN after[Len(s.waiting)] ELSE s

\* Whether a step from s to t touched the disk, so that it may have failed.
Touches(s, t) == t.active # s.active \/ t.packages # s.packages

\* stage(path, id, fresh): queue until the stager is activated, then clone
\* whatever has all its ancestors.
Stage(s, u, fresh) ==
    IF s.dead THEN s
    ELSE IF ~s.active /\ ~fresh THEN [s EXCEPT !.preActivation = Append(@, u)]
    ELSE Drain([s EXCEPT !.active = TRUE,
                         !.waiting = Append(@ \o s.preActivation, u),
                         !.preActivation = <<>>], TRUE)

\* finish(): whoever still waits is cloned without looking at ancestors.
Finish(s) == IF s.dead THEN s ELSE Drain(Drain(s, FALSE), FALSE)

\* prestaged_usable: exactly the expected packages were staged.
Usable(s, expected) == s.active /\ s.packages # {} /\ s.packages = expected

=============================================================================
