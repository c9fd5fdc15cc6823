---------------------------- MODULE GraphIdentity ----------------------------
(***************************************************************************)
(* What names a graph volume, a plan and a derived image: the encodings    *)
(* that graph.rs and workspace.rs hash.  A hash is modelled by its input.  *)
(* Strings are sequences of units; a length or a marker is one unit.       *)
(***************************************************************************)
EXTENDS Integers, Sequences, SequencesExt, FiniteSets

Marker(n) == <<100 + n>>
Field(s) == <<Len(s)>> \o s
Flag(b) == IF b THEN <<1>> ELSE <<0>>
Concat(parts) == FoldLeft(LAMBDA a, b : a \o b, <<>>, parts)

(* A map in key order: the number of its pairs, then names and values.     *)
Pairs(pairs) == <<Len(pairs)>> \o Concat([i \in DOMAIN pairs |-> Field(pairs[i][1]) \o Field(pairs[i][2])])

PackageBytes(p) ==
    Field(p.path) \o Field(p.version) \o Field(p.resolved) \o Field(p.integrity)
      \o Flag(p.link) \o Flag(p.dev) \o Pairs(p.bin) \o Pairs(p.dependencies)

(* canonical_graph_bytes: what the root asks for, its overrides and the    *)
(* target, every package in path order, and canonical names where aliases  *)
(* are; neither patches nor resolved edges nor where a link leads.         *)
CanonicalGraphBytes(lock) ==
    Marker(1) \o Pairs(lock.root) \o Pairs(lock.overrides)
      \o (IF lock.target = <<>> THEN Flag(FALSE) ELSE Flag(TRUE) \o Field(lock.target[1]))
      \o Marker(2) \o <<Len(lock.packages)>> \o Concat([i \in DOMAIN lock.packages |-> PackageBytes(lock.packages[i])])
      \o (IF lock.names = <<>> THEN <<>> ELSE Marker(3) \o Pairs(lock.names))

(* discover: P/* and P/** stand for the children of P with a manifest, any *)
(* other pattern for that directory, with or without one.                  *)
Discover(patterns, tree) ==
    {d \in DOMAIN tree : \E i \in DOMAIN patterns :
        IF patterns[i].star THEN d # <<>> /\ Front(d) = patterns[i].dir /\ tree[d].manifest ELSE d = patterns[i].dir}

(* canonical_workspace_bytes: the patterns as declared, then the members   *)
(* by directory; an absent name or version is the empty one.               *)
CanonicalWorkspaceBytes(ws) ==
    Marker(4) \o <<Len(ws.patterns)>> \o Concat([i \in DOMAIN ws.patterns |-> Field(ws.patterns[i])])
      \o Pairs(ws.packages)

AppendPreparedImages(prepared) == IF prepared = <<>> THEN <<>> ELSE Marker(5) \o Pairs(prepared)

(* Mutant: both production profiles are marked alike. *)
AppendInstallProfileOnce(profile) ==
    IF profile = [omitDev |-> FALSE, production |-> FALSE] THEN <<>> ELSE Marker(6)

(* append_install_profile; the default profile leaves no trace.            *)
AppendInstallProfile(profile) ==
    IF profile = [omitDev |-> FALSE, production |-> FALSE] THEN <<>>
    ELSE Marker(6) \o Flag(profile.omitDev) \o Flag(profile.production)

(* graph_id_with_prepared_and_profile names the volume...                  *)
VolumeId(x) == CanonicalGraphBytes(x.lock) \o AppendPreparedImages(x.prepared) \o AppendInstallProfile(x.profile)

(* ... graph_id_for_project_with_prepared_and_profile the plan.            *)
PlanId(x) ==
    CanonicalGraphBytes(x.lock)
      \o (IF x.ws.patterns = <<>> /\ x.ws.packages = <<>> THEN <<>> ELSE CanonicalWorkspaceBytes(x.ws))
      \o AppendPreparedImages(x.prepared) \o AppendInstallProfile(x.profile)
-----------------------------------------------------------------------------
(* What an install unpacks at each placement: apply_install_patch changes  *)
(* the artifact of a package that came with a patch.                       *)
Image(x, i) == [resolved |-> x.lock.packages[i].resolved, integrity |-> x.lock.packages[i].integrity,
                patch |-> x.lock.patches[i]]
Unpatched(x) == \A i \in DOMAIN x.lock.patches : x.lock.patches[i] = 0

(* The directory of the project that a link is replaced by, target, is     *)
(* overlaid on the volume at the link's place: what was in it then is part *)
(* of the tree, its bins too.  members is what the project has in each.    *)
Overlays(x) ==
    [i \in DOMAIN x.lock.packages |->
        LET p == x.lock.packages[i] IN IF p.link /\ p.target # <<>> THEN <<x.members[p.target[1]]>> ELSE <<>>]

(* What decides the tree an install builds.                                *)
Layout(x) == [packages |-> [i \in DOMAIN x.lock.packages |-> [x.lock.packages[i] EXCEPT !.target = <<>>]],
              overlays |-> Overlays(x), root |-> x.lock.root, names |-> x.lock.names,
              prepared |-> x.prepared, profile |-> x.profile]

(* Two unpatched installs that link the same member contents share a       *)
(* volume only when they build one tree, and a plan only when the          *)
(* workspace is the same too.                                              *)
SameIdSameTree(x, y) ==
    Unpatched(x) /\ Unpatched(y) /\ Overlays(x) = Overlays(y) =>
        /\ VolumeId(x) = VolumeId(y) => Layout(x) = Layout(y)
        /\ PlanId(x) = PlanId(y) => Layout(x) = Layout(y) /\ x.ws = y.ws

(* Claim: "a change to the workspace tree invalidates the cached           *)
(* plan/volume": the same without asking what the linked members hold.     *)
MembersInvalidate(x, y) ==
    Unpatched(x) /\ Unpatched(y) =>
        /\ VolumeId(x) = VolumeId(y) => Layout(x) = Layout(y)
        /\ PlanId(x) = PlanId(y) => Layout(x) = Layout(y)

(* ensure_graph_volume: a volume under this id is "this exact volume".     *)
SameIdSameImages(x, y) ==
    VolumeId(x) = VolumeId(y) => \A i \in DOMAIN x.lock.packages : Image(x, i) = Image(y, i)
-----------------------------------------------------------------------------
(* A resolved graph: path -> version, path -> the placements it reaches.   *)
Children(graph, path) == SetToSortSeq(graph.edges[path], <)
Known(memo, path) == path \in DOMAIN memo
Digest(cycle, path, version, children) == [cycle |-> cycle, path |-> path, version |-> version, children |-> children]

(* Mutant: a placement met before contributes nothing again. *)
RECURSIVE ClosureDigestOnce(_, _, _, _)
ClosureDigestOnce(graph, path, memo, stack) ==
    LET Fold(acc, child) ==
            LET r == ClosureDigestOnce(graph, child, acc.memo, stack \cup {path}) IN
            IF child \in stack \cup {path} THEN [acc EXCEPT !.digests = Append(@, Digest(TRUE, child, 0, <<>>))]
            ELSE IF Known(acc.memo, child) THEN acc
            ELSE [memo |-> r.memo, digests |-> Append(acc.digests, r.digest)]
        all == FoldLeft(Fold, [memo |-> memo, digests |-> <<>>], Children(graph, path))
        digest == Digest(FALSE, path, graph.version[path], all.digests)
    IN  [digest |-> digest, memo |-> (path :> digest) @@ all.memo]

(* closure_digest: identity of the package and the digests of all it       *)
(* reaches, in path order; a cycle is cut with a marker, and a digest      *)
(* computed below such a cut is kept for every later occurrence.           *)
RECURSIVE ClosureDigest(_, _, _, _)
ClosureDigest(graph, path, memo, stack) ==
    IF Known(memo, path) THEN [digest |-> memo[path], memo |-> memo]
    ELSE LET Fold(acc, child) ==
                 LET r == ClosureDigest(graph, child, acc.memo, stack \cup {path}) IN
                 IF child \in stack \cup {path} THEN [acc EXCEPT !.digests = Append(@, Digest(TRUE, child, 0, <<>>))]
                 ELSE [memo |-> r.memo, digests |-> Append(acc.digests, r.digest)]
             all == FoldLeft(Fold, [memo |-> memo, digests |-> <<>>], Children(graph, path))
             digest == Digest(FALSE, path, graph.version[path], all.digests)
         IN  [digest |-> digest, memo |-> (path :> digest) @@ all.memo]
PackageClosureDigest(graph, path) == ClosureDigest(graph, path, <<>>, {}).digest

RECURSIVE Reachable(_, _)
Reachable(graph, from) ==
    LET more == from \cup UNION {graph.edges[p] : p \in from}
    IN  IF more = from THEN from ELSE Reachable(graph, more)
Closure(graph, path) ==
    [p \in Reachable(graph, {path}) |-> <<graph.version[p], graph.edges[p]>>]

(* A change anywhere in a package's closure, cyclic or not, changes its    *)
(* digest; a change elsewhere does not.                                    *)
ClosureDigestExact(x, y, path) ==
    PackageClosureDigest(x, path) = PackageClosureDigest(y, path) <=> Closure(x, path) = Closure(y, path)
-----------------------------------------------------------------------------
(***************************************************************************)
(* derived/store.rs, the tree of a derived image: copied from a store      *)
(* image into a sandbox, checked, named by a digest, sealed, and checked   *)
(* against that digest at every later hit.                                 *)
(*                                                                         *)
(* A tree is a function from paths to nodes: [kind, bytes, writable].  The *)
(* bytes of a link are its target's parts: 0 is `.`, 1 is `..`, 9 at the   *)
(* front is the root of the file system.  A digest is the stream of bytes  *)
(* that is hashed, kinds and lengths included.                             *)
(***************************************************************************)
Kinds == {"dir", "file", "link", "special"}
Node(kind, bytes) == [kind |-> kind, bytes |-> bytes, writable |-> TRUE]
KindByte(kind) == CASE kind = "dir" -> 2 [] kind = "file" -> 3 [] kind = "link" -> 4

(* validate_link_target: the depth below the image, part by part.          *)
ValidateLinkTarget(path, target) ==
    LET Down(depth, part) == CASE part = 0 \/ depth < 0 -> depth
                               [] part = 1 /\ depth >= 0 -> depth - 1
                               [] OTHER -> depth + 1
    IN  /\ target = <<>> \/ target[1] # 9
        /\ FoldLeft(Down, Len(path) - 1, target) >= 0

(* validate_tree and copy_tree refuse the same nodes.                      *)
ValidNode(path, node) ==
    node.kind \in {"dir", "file"} \/ (node.kind = "link" /\ ValidateLinkTarget(path, node.bytes))
ValidateTree(tree) == \A path \in DOMAIN tree : ValidNode(path, tree[path])
CopyTree(tree) == IF ValidateTree(tree) THEN <<tree>> ELSE <<>>

(* sorted_entries: by name, a directory's entries after it.                *)
Earlier(p, q) ==
    \/ IsStrictPrefix(p, q)
    \/ \E k \in DOMAIN p : k \in DOMAIN q /\ p[k] < q[k] /\ SubSeq(p, 1, k - 1) = SubSeq(q, 1, k - 1)
SortedEntries(tree) == SetToSortSeq(DOMAIN tree, Earlier)

HashField(kind, bytes) == <<kind, Len(bytes)>> \o bytes

(* Mutant: the tree is named by its files. *)
HashEntryFiles(path, node) ==
    IF node.kind = "file" THEN HashField(KindByte(node.kind), path) \o node.bytes ELSE <<>>

(* hash_tree: a file's contents are hashed without their length.           *)
HashEntry(path, node) ==
    HashField(KindByte(node.kind), path) \o
    CASE node.kind = "dir" -> <<>>
      [] node.kind = "file" -> node.bytes
      [] node.kind = "link" -> HashField(5, node.bytes)

TreeIdentity(tree) ==
    LET order == SortedEntries(tree)
        Size(total, path) == IF tree[path].kind = "file" THEN total + Len(tree[path].bytes) ELSE total
    IN  [digest |-> FlattenSeq([k \in DOMAIN order |-> HashEntry(order[k], tree[order[k]])]),
         size |-> FoldLeft(Size, 0, order)]

(* seal_tree: files become read-only; directories stay as they are, or the *)
(* collector could not remove them.                                        *)
SealTree(tree) == [path \in DOMAIN tree |-> [tree[path] EXCEPT !.writable = @ /\ tree[path].kind # "file"]]

(* What ensure publishes of a sandbox, and what validate_published says of *)
(* it at a later hit.                                                      *)
Published(tree) ==
    IF ~ValidateTree(tree) THEN <<>> ELSE <<[image |-> SealTree(tree), named |-> TreeIdentity(tree)]>>
ValidatePublished(image, named) == ValidateTree(image) /\ TreeIdentity(image) = named
-----------------------------------------------------------------------------
(* The ways one entry of a tree can be lost, damaged, replaced or added.   *)
Altered(tree, paths, nodes) ==
    {[q \in DOMAIN tree \ {path} |-> tree[q]] : path \in DOMAIN tree}
    \cup {[q \in DOMAIN tree \cup {path} |-> IF q = path THEN node ELSE tree[q]] : path \in paths, node \in nodes}
SameContents(t, u) ==
    DOMAIN t = DOMAIN u /\ \A q \in DOMAIN t : t[q].kind = u[q].kind /\ (t[q].kind = "dir" \/ t[q].bytes = u[q].bytes)

(* A derived image is a hit as long as it is what was published, read-only *)
(* as it has become since, and never once an entry was lost or altered.    *)
HitIsWhatWasPublished(tree, paths, nodes) ==
    LET published == Published(tree)
    IN  published # <<>> =>
          /\ ValidatePublished(published[1].image, published[1].named)
          /\ \A other \in Altered(published[1].image, paths, nodes) :
               ValidatePublished(other, published[1].named) => SameContents(other, tree)
=============================================================================
