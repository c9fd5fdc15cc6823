------------------------------ MODULE Placement ------------------------------
(***************************************************************************)
(* src/resolver/placement.rs and the resolution loop of                    *)
(* src/resolver/mod.rs: which copy of which package goes where.            *)
(*                                                                         *)
(* A path is the sequence of package names from the root ("node_modules/a/ *)
(* node_modules/b" is <<a, b>>, the project itself <<>>); names are        *)
(* numbers, in the order BTreeMap iterates them.  A world w is what a      *)
(* resolution reads: the root's declarations, the registry's packuments,   *)
(* the workspace members, the override rules and the peer mode.  A         *)
(* package's metadata is a record: deps and peers map names to requests,   *)
(* optional and optionalPeers are sets of names, supported says whether    *)
(* the target platform is.                                                 *)
(*                                                                         *)
(* src/resolver/overrides.rs comes first: a version is a triple <<major,   *)
(* minor, patch>>, a comparator an operator with a version whose minor or  *)
(* patch may be missing (None), a range a set of comparators that must all *)
(* hold.  Rules see a range only through the set of versions it accepts.   *)
(***************************************************************************)
EXTENDS Integers, Sequences, FiniteSetsExt, SequencesExt, Functions

None == -1

(* The semver crate's comparison of a version with a comparator.           *)
Less(v, w) ==
    \E i \in 1 .. 3 : v[i] < w[i] /\ \A j \in 1 .. i - 1 : v[j] = w[j]
Given(c) == {i \in 1 .. 3 : c.v[i] # None}
Same(v, c) == \A i \in Given(c) : v[i] = c.v[i]
VersionAbove(v, c) == \E i \in Given(c) : v[i] > c.v[i] /\ \A j \in 1 .. i - 1 : v[j] = c.v[j]
Below(v, c) == \E i \in Given(c) : v[i] < c.v[i] /\ \A j \in 1 .. i - 1 : v[j] = c.v[j]
LowestOf(c) == [i \in 1 .. 3 |-> IF c.v[i] = None THEN 0 ELSE c.v[i]]
Accepts(c, v) ==
    CASE c.op = "=" -> Same(v, c)
      [] c.op = ">" -> VersionAbove(v, c)
      [] c.op = ">=" -> VersionAbove(v, c) \/ Same(v, c)
      [] c.op = "<" -> Below(v, c)
      [] c.op = "<=" -> Below(v, c) \/ Same(v, c)
      [] c.op = "~" -> ~Less(v, LowestOf(c)) /\ v[1] = c.v[1] /\ (c.v[2] = None \/ v[2] = c.v[2])
      [] c.op = "^" ->
           LET first == IF \E i \in Given(c) : c.v[i] > 0
                        THEN Min({i \in Given(c) : c.v[i] > 0}) ELSE Max(Given(c))
           IN  ~Less(v, LowestOf(c)) /\ \A i \in 1 .. first : v[i] = c.v[i]
Matches(range, v) == \A c \in range : Accepts(c, v)

(* Mutant: only the boundaries themselves are tried. *)
RangesIntersectBounds(left, right) ==
    \E v \in {LowestOf(c) : c \in left \cup right} : Matches(left, v) /\ Matches(right, v)

(* ranges_intersect: the boundaries, their patch successors and the next   *)
(* majors are tried.                                                       *)
RangesIntersect(left, right) ==
    LET candidates == {<<0, 0, 0>>} \cup UNION
            {{LowestOf(c), [LowestOf(c) EXCEPT ![3] = @ + 1], <<c.v[1] + 1, 0, 0>>} : c \in left \cup right}
    IN  \E v \in candidates : Matches(left, v) /\ Matches(right, v)
-----------------------------------------------------------------------------
(* A request is what a manifest asks for: kind "range" or "exact" with the *)
(* versions it accepts, "latest", or "source" with what is read there: is  *)
(* it a patch: request, can it be read (fetched, cloned, the patch applied *)
(* to it), and then its version and metadata.  An override                 *)
(* entry's value is a request, a reference to a root dependency, or an     *)
(* object of entries; the key "." inside an object names the object's own  *)
(* package.  NoReq is a selector without a version qualifier.              *)
NoReq == {None}
Dot == None
Rule(ancestors, selector, spec) ==
    <<[ancestors |-> ancestors, package |-> selector.name, req |-> selector.req, spec |-> spec]>>
Refused == <<[ancestors |-> <<>>, package |-> None, req |-> NoReq, spec |-> [kind |-> "refused"]]>>

RequestMatchesSelector(req, requested) ==
    req = NoReq \/ requested.kind \notin {"range", "exact"} \/ req \cap requested.match # {}

AncestorsMatch(selectors, ancestors) ==
    LET offset == Len(ancestors) - Len(selectors)
    IN  /\ offset >= 0
        /\ \A i \in DOMAIN selectors :
             /\ selectors[i].name = ancestors[offset + i].name
             /\ selectors[i].req = NoReq \/ ancestors[offset + i].version \in selectors[i].req

(* effective_spec_for: the most specific eligible rule, the greatest key   *)
(* among equals.  Rules are sorted by key.                                 *)
EffectiveSpecFor(rules, package, requested, ancestors) ==
    LET eligible == {i \in DOMAIN rules : /\ rules[i].package = package
                                          /\ AncestorsMatch(rules[i].ancestors, ancestors)
                                          /\ RequestMatchesSelector(rules[i].req, requested)}
        deepest == {i \in eligible : \A j \in eligible : Len(rules[j].ancestors) <= Len(rules[i].ancestors)}
    IN  IF eligible = {} THEN requested ELSE rules[Max(deepest)].spec

(* Mutant: a reference is resolved before anyone asks whose it is.         *)
AddRuleAnyReference(ancestors, selector, raw, declared) ==
    LET spec == IF raw.kind = "ref" THEN declared[raw.name] ELSE raw
    IN  IF raw.kind = "ref" /\ raw.name \notin DOMAIN declared THEN Refused
        ELSE Rule(ancestors, selector, spec)

(* add_rule: the rule, or why it is refused.  What is declared at the root *)
(* may only be overridden by itself.                                       *)
AddRule(ancestors, selector, raw, declared) ==
    LET direct == ancestors = <<>> /\ selector.name \in DOMAIN declared
        spec == IF raw.kind = "ref" THEN declared[raw.name] ELSE raw
    IN  IF raw.kind = "ref" /\ direct /\ raw.name # selector.name THEN Refused
        ELSE IF raw.kind = "ref" /\ raw.name \notin DOMAIN declared THEN Refused
        ELSE IF spec.kind = "empty" THEN Refused
        ELSE IF direct /\ raw.kind # "ref" /\ raw # declared[selector.name] THEN Refused
        ELSE Rule(ancestors, selector, spec)

(* parse_override_entry: a flat list of rules and refusals. *)
RECURSIVE ParseOverrideEntry(_, _, _, _)
ParseOverrideEntry(selector, value, ancestors, declared) ==
    IF selector.name = Dot THEN Refused
    ELSE IF value.kind # "object" THEN AddRule(ancestors, selector, value, declared)
    ELSE FoldLeft(LAMBDA rules, e :
                    rules \o (IF e.selector.name = Dot
                              THEN IF e.value.kind = "object" THEN Refused
                                   ELSE AddRule(ancestors, selector, e.value, declared)
                              ELSE ParseOverrideEntry(e.selector, e.value,
                                                      Append(ancestors, selector), declared)),
                  <<>>, value.entries)

(* normalize_root_overrides: the rules, none when one is refused.  Entries *)
(* come in the order of their keys, which is the order of the rules.       *)
NormalizeRootOverrides(entries, declared) ==
    FoldLeft(LAMBDA rules, e : rules \o ParseOverrideEntry(e.selector, e.value, <<>>, declared),
             <<>>, entries)
Accepted(rules) == \A i \in DOMAIN rules : rules[i].package # None
-----------------------------------------------------------------------------

Nowhere == <<0>>
Fail(S, why) == [s |-> [S EXCEPT !.error = why], at |-> Nowhere]
InOrder(set, Before(_, _)) ==
    [i \in 1 .. Cardinality(set) |-> CHOOSE x \in set : Cardinality({y \in set : Before(y, x)}) = i - 1]
Ascending(names) == InOrder(names, LAMBDA x, y : x < y)

(* The slots Node looks into for a name, from a package's own outwards.    *)
Slots(parent, name) ==
    [i \in 1 .. Len(parent) + 1 |-> Append(SubSeq(parent, 1, Len(parent) + 1 - i), name)]
FirstSlot(parent, name, Good(_)) ==
    LET slots == Slots(parent, name)
        good == {i \in DOMAIN slots : Good(slots[i])}
    IN  IF good = {} THEN Nowhere ELSE slots[Min(good)]

(* request_matches; latest accepts whatever is there. *)
RequestMatches(request, version) == request.kind = "latest" \/ version \in request.match

(* Mutant: the nearest copy is taken, whichever version it has. *)
FindVisibleNearest(S, parent, name, request) ==
    FirstSlot(parent, name, LAMBDA slot : slot \in DOMAIN S.nodes)

(* find_visible: a copy that does not match is passed over. *)
FindVisible(S, parent, name, request) ==
    FirstSlot(parent, name, LAMBDA slot :
        slot \in DOMAIN S.nodes /\ RequestMatches(request, S.nodes[slot].version))
FindVisibleAny(S, parent, name) ==
    FirstSlot(parent, name, LAMBDA slot : slot \in DOMAIN S.nodes)

AncestorChain(S, parent) ==
    LET prefixes == [i \in 1 .. Len(parent) |-> SubSeq(parent, 1, i)]
        placed == SelectSeq(prefixes, LAMBDA p : p \in DOMAIN S.nodes)
    IN  [i \in DOMAIN placed |-> [name |-> S.nodes[placed[i]].name, version |-> S.nodes[placed[i]].version]]

UpgradeReachability(S, path, optional, dev) ==
    [S EXCEPT !.nodes[path].optional = @ /\ optional, !.nodes[path].dev = @ /\ dev]

(* peer_candidate_matches: what the candidate's peers would be given.      *)
PeerCandidateMatches(S, meta, parent) ==
    \A peer \in DOMAIN meta.peers :
        LET path == FindVisibleAny(S, parent, peer)
        IN  IF path = Nowhere THEN peer \in meta.optionalPeers
            ELSE RequestMatches(meta.peers[peer], S.nodes[path].version)

(* packument_for: an exact version is asked for alone, and the answer      *)
(* lists no other.                                                         *)
Published(w, request) ==
    IF request.to \notin DOMAIN w.registry THEN {}
    ELSE IF request.kind = "exact" THEN DOMAIN w.registry[request.to] \cap request.match
    ELSE DOMAIN w.registry[request.to]

(* select_version: a dist-tag, or the greatest published version in range. *)
SelectVersion(w, package, request) ==
    LET fit == Published(w, request) \cap request.match
    IN  IF request.kind = "latest" THEN w.latest[package] ELSE IF fit = {} THEN None ELSE Max(fit)

(* The backtracking: a selected version whose peers do not fit gives way   *)
(* to the greatest published one whose peers do, if any.                   *)
ChooseVersion(w, S, package, request, parent) ==
    LET selected == SelectVersion(w, package, request)
        Fits(v) == PeerCandidateMatches(S, w.registry[package][v], parent)
        others == {v \in Published(w, request) : Fits(v)}
    IN  IF selected = None \/ Fits(selected) \/ others = {} THEN selected ELSE Max(others)

(* A node as it is inserted: no child has been resolved yet. *)
NewNode(name, package, version, meta, optional, dev, link) ==
    [name |-> name, package |-> package, version |-> version, meta |-> meta, targets |-> <<>>,
     optional |-> optional, dev |-> dev, link |-> link, peers |-> <<>>]
Insert(S, path, node) == [S EXCEPT !.nodes = (path :> node) @@ @]
SetTarget(S, path, name, target) ==
    IF path \notin DOMAIN S.nodes \/ target = Nowhere THEN S
    ELSE [S EXCEPT !.nodes[path].targets = (name :> target) @@ @]

(* workspace.resolve: an explicit request must be met by the member, an    *)
(* ordinary one is when it can be.                                         *)
WorkspaceResolve(w, name, request) ==
    IF request.kind = "workspace"
    THEN IF name \in DOMAIN w.members /\ w.members[name].version \in request.match THEN "link" ELSE "error"
    ELSE IF /\ name \in DOMAIN w.members /\ request.kind \in {"range", "exact"} /\ request.to = name
            /\ w.members[name].version \in request.match THEN "link"
    ELSE "registry"

RECURSIVE ResolveDependency(_, _, _, _, _, _, _)

ChildOptional(S, path, child, optional) ==
    path \in DOMAIN S.nodes /\ (optional \/ child \in S.nodes[path].meta.optional)

(* resolve_children, in name order; the first error ends it. *)
ResolveChildren(w, S, path, optional, dev) ==
    LET deps == S.nodes[path].meta.deps
        Child(T, name) ==
            LET r == ResolveDependency(w, T, path, name, deps[name], ChildOptional(T, path, name, optional), dev)
            IN  IF T.error # "none" THEN T ELSE SetTarget(r.s, path, name, r.at)
    IN  FoldLeft(Child, S, Ascending(DOMAIN deps))

(* resolve_children_hoisted: a member's children go to the root, and below *)
(* the link when the root slot is taken by a version that does not match.  *)
ResolveChildrenHoisted(w, S, path, optional, dev) ==
    LET deps == S.nodes[path].meta.deps
        Child(T, name) ==
            LET flag == ChildOptional(T, path, name, optional)
                root == ResolveDependency(w, T, <<>>, name, deps[name], flag, dev)
                r == IF root.s.error # "conflict" THEN root
                     ELSE ResolveDependency(w, [root.s EXCEPT !.error = "none"], path, name, deps[name], flag, dev)
            IN  IF T.error # "none" THEN T ELSE SetTarget(r.s, path, name, r.at)
    IN  FoldLeft(Child, S, Ascending(DOMAIN deps))

(* Mutant: a package is announced before the platform is asked. *)
PlaceNodeEager(w, S, path, node, hoisted) ==
    LET told == [S EXCEPT !.announced = IF node.link THEN @ ELSE Append(@, path)]
        T == Insert(told, path, node)
        end == IF hoisted THEN ResolveChildrenHoisted(w, T, path, node.optional, node.dev)
               ELSE ResolveChildren(w, T, path, node.optional, node.dev)
    IN  IF ~node.meta.supported
        THEN IF node.optional THEN [s |-> told, at |-> Nowhere] ELSE Fail(S, "platform")
        ELSE [s |-> end, at |-> IF end.error = "none" THEN path ELSE Nowhere]

(* A node is placed unless the platform refuses it, which only an optional *)
(* request survives; then its children are.                                *)
PlaceNode(w, S, path, node, hoisted) ==
    IF ~node.meta.supported
    THEN IF node.optional THEN [s |-> S, at |-> Nowhere] ELSE Fail(S, "platform")
    ELSE LET T == [Insert(S, path, node) EXCEPT !.announced =
                     IF node.link THEN @ ELSE Append(@, path)]
             end == IF hoisted THEN ResolveChildrenHoisted(w, T, path, node.optional, node.dev)
                    ELSE ResolveChildren(w, T, path, node.optional, node.dev)
         IN  [s |-> end, at |-> IF end.error = "none" THEN path ELSE Nowhere]

Reuse(S, path, optional, dev) == [s |-> UpgradeReachability(S, path, optional, dev), at |-> path]

(* The registry's part of resolve_dependency.  A request may name another  *)
(* package than the slot it is placed in (npm:to@range).                   *)
ResolveFromRegistry(w, S, parent, name, request, optional, dev) ==
    LET visible == FindVisible(S, parent, name, request)
        path == Append(parent, name)
        version == ChooseVersion(w, S, request.to, request, parent)
    IN  IF visible # Nowhere THEN Reuse(S, visible, optional, dev)
        ELSE IF path \in DOMAIN S.nodes THEN Fail(S, "conflict")
        ELSE IF request.to \notin DOMAIN w.registry THEN Fail(S, "registry")
        ELSE IF version \notin DOMAIN w.registry[request.to] THEN Fail(S, "registry")
        ELSE PlaceNode(w, S, path,
                       NewNode(name, request.to, version, w.registry[request.to][version], optional, dev, FALSE), FALSE)

(* resolve_source_dependency: a file, git, tarball or patch request always *)
(* takes the requester's own slot; one that cannot be read fails, even an  *)
(* optional one.                                                           *)
ResolveSourceDependency(w, S, parent, name, request, optional, dev) ==
    LET path == Append(parent, name)
    IN  IF path \in DOMAIN S.nodes THEN Reuse(S, path, optional, dev)
        ELSE IF ~request.readable THEN Fail(S, "source")
        ELSE PlaceNode(w, S, path, NewNode(name, name, request.version, request.meta, optional, dev, request.link),
                       FALSE)

(* resolve_dependency. *)
ResolveDependency(w, S, parent, name, requested, optional, dev) ==
    LET request == EffectiveSpecFor(w.rules, name, requested, AncestorChain(S, parent))
        local == WorkspaceResolve(w, name, request)
        path == <<name>>
    IN  IF S.error # "none" THEN [s |-> S, at |-> Nowhere]
        ELSE IF local = "error" THEN Fail(S, "workspace")
        ELSE IF local = "link"
        THEN IF path \in DOMAIN S.nodes THEN Reuse(S, path, optional, dev)
             ELSE PlaceNode(w, S, path, NewNode(name, name, w.members[name].version, w.members[name].meta,
                                                optional, dev, TRUE), TRUE)
        ELSE IF request.kind = "source" THEN ResolveSourceDependency(w, S, parent, name, request, optional, dev)
        ELSE ResolveFromRegistry(w, S, parent, name, request, optional, dev)
-----------------------------------------------------------------------------
(* visible_providers: by package name, the nearest slot first.             *)
PathLess(p, q) ==
    \/ Len(p) < Len(q) /\ p = SubSeq(q, 1, Len(p))
    \/ \E i \in DOMAIN p : i <= Len(q) /\ p[i] < q[i] /\ \A j \in 1 .. i - 1 : p[j] = q[j]
Paths(S) == InOrder(DOMAIN S.nodes, PathLess)
Provider(S, parent, package) ==
    LET At(level) == {path \in DOMAIN S.nodes :
                        Len(path) = level + 1 /\ SubSeq(parent, 1, level) = Front(path)
                          /\ S.nodes[path].package = package}
        levels == {level \in 0 .. Len(parent) : At(level) # {}}
    IN  IF levels = {} THEN Nowhere
        ELSE CHOOSE path \in At(Max(levels)) : \A other \in At(Max(levels)) : ~PathLess(other, path)

(* Mutant: optional peers are not looked at. *)
BindPeerContextSkipping(w, S, path) ==
    LET meta == S.nodes[path].meta
        parent == Front(path)
        Bad(peer) == LET at == Provider(S, parent, peer)
                     IN  peer \notin meta.optionalPeers
                           /\ (at = Nowhere \/ ~RequestMatches(meta.peers[peer], S.nodes[at].version))
        bad == {peer \in DOMAIN meta.peers : Bad(peer)}
    IN  IF w.legacyPeers \/ bad = {} THEN [status |-> "bound", peer |-> None]
        ELSE [status |-> IF Provider(S, parent, Min(bad)) = Nowhere THEN "missing" ELSE "unsatisfied",
              peer |-> Min(bad)]

(* bind_peer_context: the first peer that is missing, or does not fit.     *)
BindPeerContext(w, S, path) ==
    LET meta == S.nodes[path].meta
        parent == Front(path)
        Bad(peer) == LET at == Provider(S, parent, peer)
                     IN  IF at = Nowhere THEN peer \notin meta.optionalPeers
                         ELSE ~RequestMatches(meta.peers[peer], S.nodes[at].version)
        bad == {peer \in DOMAIN meta.peers : Bad(peer)}
    IN  IF w.legacyPeers \/ bad = {} THEN [status |-> "bound", peer |-> None]
        ELSE [status |-> IF Provider(S, parent, Min(bad)) = Nowhere THEN "missing" ELSE "unsatisfied",
              peer |-> Min(bad)]

(* The repair loop: missing required peers are installed beside their      *)
(* consumers, all of a round before the next.                              *)
Rounds == 16
RepairPeers(w, S) ==
    LET Round(T, i) ==
            LET binds == [path \in DOMAIN T.nodes |-> BindPeerContext(w, T, path)]
                Repair(U, path) ==
                    IF binds[path].status # "missing" THEN U
                    ELSE ResolveDependency(w, U, Front(path), binds[path].peer,
                                           T.nodes[path].meta.peers[binds[path].peer], FALSE, FALSE).s
            IN  IF T.error # "none" THEN T
                ELSE IF \E path \in DOMAIN T.nodes : binds[path].status = "unsatisfied"
                THEN [T EXCEPT !.error = "peer"]
                ELSE FoldLeft(Repair, T, Paths(T))
    IN  FoldLeft(Round, S, [i \in 1 .. Rounds |-> i])

(* The final binding and what the lock records of it.                      *)
BindAll(w, S) ==
    LET Context(path) ==
            LET meta == S.nodes[path].meta
                given == {peer \in DOMAIN meta.peers : Provider(S, Front(path), peer) # Nowhere}
            IN  IF w.legacyPeers THEN <<>>
                ELSE [peer \in given |-> FindVisibleAny(S, Front(path), peer)]
    IN  IF S.error # "none" THEN S
        ELSE IF \E path \in DOMAIN S.nodes : BindPeerContext(w, S, path).status # "bound"
        THEN [S EXCEPT !.error = "peer"]
        ELSE [S EXCEPT !.nodes = [path \in DOMAIN @ |-> [@[path] EXCEPT !.peers = Context(path)]]]

EmptyGraph == [nodes |-> <<>>, error |-> "none", announced |-> <<>>, roots |-> <<>>]

(* The roots in name order, the members nobody asked for, the peers.       *)
ResolveManifest(w) ==
    LET Keep(r, name) == IF r.at = Nowhere THEN r.s ELSE [r.s EXCEPT !.roots = (name :> r.at) @@ @]
        Root(S, name) ==
            Keep(ResolveDependency(w, S, <<>>, name, w.root[name], name \in w.rootOptional, name \in w.rootDev), name)
        declared == FoldLeft(Root, EmptyGraph, Ascending(DOMAIN w.root))
        Link(S, name) ==
            IF name \in DOMAIN declared.roots THEN S
            ELSE Keep(ResolveDependency(w, S, <<>>, name,
                [kind |-> "range", to |-> name, match |-> {w.members[name].version}], FALSE, FALSE), name)
        linked == FoldLeft(Link, declared, Ascending(DOMAIN w.members))
    IN  BindAll(w, RepairPeers(w, linked))
-----------------------------------------------------------------------------
(* install.rs: the packages an install with --omit=dev links.              *)
RuntimeDependencyTargets(S, path) ==
    LET node == S.nodes[path]
        required == {peer \in DOMAIN node.peers : peer \notin node.meta.optionalPeers}
        untargeted == DOMAIN node.meta.deps \ (DOMAIN node.targets \cup DOMAIN node.peers)
    IN  Range(node.targets) \cup {node.peers[peer] : peer \in required}
          \cup ({FindVisibleAny(S, path, name) : name \in untargeted} \ {Nowhere})

(* Mutant: the dev flag is believed. *)
ProjectLockfileOmittingDevByFlag(S) == {path \in DOMAIN S.nodes : ~S.nodes[path].dev}

RECURSIVE RuntimeClosure(_, _)
RuntimeClosure(S, kept) ==
    LET more == UNION {RuntimeDependencyTargets(S, path) : path \in kept} \cap DOMAIN S.nodes
    IN  IF more \subseteq kept THEN kept ELSE RuntimeClosure(S, kept \cup more)

ProjectLockfileOmittingDev(S) == RuntimeClosure(S, {path \in DOMAIN S.nodes : ~S.nodes[path].dev})
-----------------------------------------------------------------------------
Peerless(w) == \A p \in DOMAIN w.registry : \A v \in DOMAIN w.registry[p] : w.registry[p][v].peers = <<>>
Needed(S, path) ==
    Range(S.nodes[path].targets) \cup
      {S.nodes[path].peers[p] : p \in DOMAIN S.nodes[path].peers \ S.nodes[path].meta.optionalPeers}
RECURSIVE ReachedFrom(_, _)
ReachedFrom(S, paths) ==
    LET more == UNION {Needed(S, path) : path \in paths}
    IN  IF more \subseteq paths THEN paths ELSE ReachedFrom(S, paths \cup more)

(* An edge's request, as the rules in force at its requester change it.    *)
(* Node's lookup: the nearest slot that is taken.                          *)
EdgeRequest(w, S, path, name) ==
    EffectiveSpecFor(w.rules, name, S.nodes[path].meta.deps[name],
                     IF S.nodes[path].link THEN <<>> ELSE AncestorChain(S, path))

(* Every edge a finished resolution records leads to a placed version the  *)
(* edge asks for, overrides applied, although copies are shared between    *)
(* requesters that never met and cycles are cut.                           *)
TargetsSatisfyRequests(w, S) ==
    S.error = "none" /\ Peerless(w) =>
        \A path \in DOMAIN S.nodes : \A name \in DOMAIN S.nodes[path].targets :
            LET target == S.nodes[path].targets[name]
            IN  /\ target \in DOMAIN S.nodes
                /\ EdgeRequest(w, S, path, name).kind = "source"
                      \/ RequestMatches(EdgeRequest(w, S, path, name), S.nodes[target].version)

(* A peer a package was given is one its own request accepts, found where  *)
(* the package looks for it, and no required peer is left out: what a      *)
(* repair installs later never invalidates an earlier binding unnoticed.   *)
PeersHold(w, S) ==
    S.error = "none" /\ ~w.legacyPeers =>
        \A path \in DOMAIN S.nodes :
            LET node == S.nodes[path] IN
            /\ DOMAIN node.meta.peers \ node.meta.optionalPeers \subseteq DOMAIN node.peers
            /\ \A peer \in DOMAIN node.peers :
                 /\ node.peers[peer] \in DOMAIN S.nodes
                 /\ RequestMatches(node.meta.peers[peer], S.nodes[node.peers[peer]].version)

(* Nothing is placed, or downloaded early, that no chain of edges from the *)
(* root needs: a conflict that moves a member's child below its link, and  *)
(* the peers added in later rounds, leave nothing behind.                  *)
NothingExtraneous(w, S) ==
    S.error = "none" =>
        /\ DOMAIN S.nodes = ReachedFrom(S, Range(S.roots))
        /\ Range(S.announced) = {path \in DOMAIN S.nodes : ~S.nodes[path].link}
        /\ \A i, j \in DOMAIN S.announced : S.announced[i] = S.announced[j] => i = j

(* Omitting dev keeps all that the production roots need at run time, even *)
(* where a shared copy was placed for a dev root first and only its own    *)
(* flag was upgraded.                                                      *)
OmitDevKeepsRuntime(w, S) ==
    S.error = "none" =>
        ReachedFrom(S, {S.roots[name] : name \in DOMAIN S.roots \ w.rootDev}) \subseteq ProjectLockfileOmittingDev(S)

(* Claim: "The same incompatibility is an error when any required path     *)
(* reaches the package": what is not optional has all it requires.         *)
RequiredPathsComplete(w, S) ==
    S.error = "none" =>
        \A path \in DOMAIN S.nodes :
            ~S.nodes[path].optional =>
                DOMAIN S.nodes[path].meta.deps \ S.nodes[path].meta.optional \subseteq DOMAIN S.nodes[path].targets

(* Claim: the lower published versions tried when the peers of the highest *)
(* do not fit are candidates for the request, so every edge still leads to *)
(* a version it accepts.                                                   *)
BacktrackingStaysInRange(w, S) ==
    S.error = "none" =>
        \A path \in DOMAIN S.nodes : \A name \in DOMAIN S.nodes[path].targets :
            LET target == S.nodes[path].targets[name]
            IN  EdgeRequest(w, S, path, name).kind = "source"
                  \/ RequestMatches(EdgeRequest(w, S, path, name), S.nodes[target].version)

(* ranges_intersect says exactly whether a version is in both ranges, as   *)
(* its comment claims the candidates are enough for, except that the least *)
(* version above a partial boundary (">1.5" starts at 1.6.0) is not one.   *)
RangesIntersectExact(left, right, versions) ==
    LET common == \E v \in versions : Matches(left, v) /\ Matches(right, v)
        partial == \E c \in left \cup right : c.op = ">" /\ c.v[2] # None /\ c.v[3] = None
    IN  /\ RangesIntersect(left, right) => common
        /\ common /\ ~partial => RangesIntersect(left, right)

(* Accepted overrides leave what the root manifest declares as it is       *)
(* declared, whatever refers to it, and for a package below the root the   *)
(* rule with the longest matching chain decides, so a nested rule is never *)
(* masked by a general one.                                                *)
OverridesRespectRoot(entries, declared, ancestors, requested) ==
    LET rules == NormalizeRootOverrides(entries, declared)
        Fits(i, name) == /\ rules[i].package = name
                         /\ AncestorsMatch(rules[i].ancestors, ancestors)
                         /\ RequestMatchesSelector(rules[i].req, requested)
    IN  Accepted(rules) =>
          /\ \A name \in DOMAIN declared :
               EffectiveSpecFor(rules, name, declared[name], <<>>) = declared[name]
          /\ \A i \in DOMAIN rules :
               LET name == rules[i].package IN
               Fits(i, name) =>
                 \E j \in DOMAIN rules :
                   /\ Fits(j, name)
                   /\ Len(rules[j].ancestors) >= Len(rules[i].ancestors)
                   /\ rules[j].spec = EffectiveSpecFor(rules, name, requested, ancestors)
=============================================================================
