----------------------------- MODULE MCOperations -----------------------------
(***************************************************************************)
(* Operations that one caller runs from beginning to end, over bounded     *)
(* inputs and every script of faults: the resolver and the lock importers, *)
(* archives and image indexes, HTTP calls, graph identities, locks, npm    *)
(* configuration, patches, derived trees and the routes of an install.  A  *)
(* behaviour picks one input of the families the configuration names and   *)
(* computes its result; a property looks at the results of its families.   *)
(***************************************************************************)
EXTENDS Integers, Sequences, SequencesExt, FiniteSets

CONSTANT Families
VARIABLES input, result, done
vars == <<input, result, done>>

R == INSTANCE Placement
I == INSTANCE LockImport

Meta(deps, optional, peers, optionalPeers, supported) ==
    [deps |-> deps, optional |-> optional, peers |-> peers, optionalPeers |-> optionalPeers,
     supported |-> supported]
To(package, match) == [kind |-> "range", to |-> package, match |-> match]
(* Requests on some of the given names, each for one version or both.      *)
Requests(names, matches) ==
    UNION {{[n \in chosen |-> To(n, r[n])] : r \in [chosen -> matches]} : chosen \in SUBSET names}
Plain(deps) == Meta(deps, {}, <<>>, {}, TRUE)
World(root, dev, optional, registry, members, rules, legacy) ==
    [root |-> root, rootDev |-> dev, rootOptional |-> optional, registry |-> registry,
     latest |-> [p \in DOMAIN registry |-> R!Max(DOMAIN registry[p])], members |-> members, rules |-> rules, legacyPeers |-> legacy]

(* Shared copies, nested copies, cycles, dev and optional roots, packages  *)
(* the platform refuses. *)
PlainWorlds ==
    {World((2 :> To(2, {1, 2})) @@ root, flags[1], flags[2],
           <<(1 :> Plain(a)) @@ (2 :> Plain(<<>>)),
             (1 :> Meta(b, optional, <<>>, {}, TRUE)),
             (1 :> Meta(c, {}, <<>>, {}, supported)) @@ (2 :> Plain(<<>>))>>,
           <<>>, <<>>, FALSE) :
       root \in Requests({1, 3}, {{1}}), flags \in {<<{}, {}>>, <<{1}, {}>>, <<{2}, {}>>, <<{}, {1}>>},
       a \in Requests({3}, {{1}, {2}}), b \in Requests({1, 3}, {{1}, {2}}),
       c \in Requests({1, 2}, {{1}, {2}}), optional \in {{}, {3}}, supported \in BOOLEAN}

(* Peers: a consumer whose versions want different providers, one that     *)
(* needs two rounds of repairs, optional ones, the legacy mode.            *)
PeerWorlds ==
    {World(root, {}, {},
           <<(1 :> Meta(<<>>, {}, chain, {}, TRUE)) @@ (2 :> Plain(<<>>)),
             (1 :> Plain(3 :> To(3, match))),
             (1 :> Meta(<<>>, {}, 1 :> To(1, {1}), optional, TRUE))
               @@ (2 :> Meta(<<>>, {}, 1 :> To(1, want), optional, TRUE))>>,
           <<>>, <<>>, legacy) :
       root \in Requests({1, 2, 3}, {{1}, {2}, {1, 2}}), chain \in {<<>>, 2 :> To(2, {1})},
       match \in {{1}, {2}, {1, 2}}, want \in {{1}, {2}, {1, 2}},
       optional \in {{}, {1}}, legacy \in BOOLEAN}

(* A member with dependencies, one that the root may shadow; overrides     *)
(* below a package; an alias; a package from a directory.                  *)
MemberWorlds ==
    {World(root, {}, {},
           <<(1 :> Plain(<<>>)) @@ (2 :> Plain(<<>>)), (1 :> Plain(deps)), (1 :> Plain(<<>>)) @@ (2 :> Plain(a))>>,
           4 :> [version |-> 1, meta |-> Plain(member)], rules, FALSE) :
       root \in Requests({1, 2}, {{1}, {2}, {1, 2}})
                 \cup {1 :> r : r \in {To(3, {1, 2}), [kind |-> "latest", to |-> 1, match |-> {}],
                                      [kind |-> "source", patch |-> FALSE, readable |-> TRUE, version |-> 2,
                                       meta |-> Plain(2 :> To(2, {1})), link |-> TRUE]}}
                 \cup {(1 :> To(1, {1})) @@ (4 :> [kind |-> "workspace", to |-> 4, match |-> {1}]),
                      4 :> [kind |-> "workspace", to |-> 4, match |-> {2}]},
       member \in Requests({1, 2, 3}, {{1}, {2}}), deps \in Requests({1, 3}, {{1}, {2}}),
       a \in {<<>>, 4 :> To(4, {1, 2})},
       rules \in {<<>>, <<[ancestors |-> <<[name |-> 2, req |-> R!NoReq]>>, package |-> 1, req |-> {1}, spec |-> To(1, {2})],
                         [ancestors |-> <<>>, package |-> 3, req |-> R!NoReq, spec |-> To(3, {2})]>>}}


(* Foreign locks: two names, two versions, edges between them; a third     *)
(* name for what only one package needs.                                   *)
Ids == {1, 2, 3} \X {1, 2}
Entry(deps, optional) == [deps |-> deps, optional |-> optional, file |-> FALSE]
Edges(names) == UNION {[chosen -> 1 .. 2] : chosen \in SUBSET names}
EdgesOf(names) == {[n \in DOMAIN e |-> <<n, e[n]>>] : e \in Edges(names)}
YarnLocks ==
    {[entries |-> [id \in Ids |->
         CASE id = <<1, 1>> -> Entry(a, {}) [] id = <<2, 1>> -> Entry(b, {3}) [] id = <<2, 2>> -> Entry(c, {})
           [] id = <<3, 1>> -> Entry(d, {}) [] OTHER -> Entry(<<>>, {})],
      declared |-> [n \in DOMAIN root |-> [id |-> <<n, root[n]>>, group |-> IF n = 1 THEN group ELSE "prod"]]] :
       a \in EdgesOf({2, 3}), b \in EdgesOf({1, 3}), c \in EdgesOf({1, 3}), d \in EdgesOf({1, 2}),
       root \in {(1 :> 1), (1 :> 1) @@ (2 :> 1), (1 :> 1) @@ (2 :> 2)}, group \in {"dev", "prod"}}
(* pnpm: an alias (4 is another name of 3), two peer variants, a member.   *)
PnpmDocs ==
    {[packages |-> {<<1, 1>>, <<2, 1>>, <<2, 2>>, <<3, 1>>},
      snapshots |-> <<[id |-> <<1, 1>>, deps |-> a, peers |-> peers, optional |-> {}],
                      [id |-> <<1, 1>>, deps |-> b, peers |-> <<>>, optional |-> {}],
                      [id |-> <<3, 1>>, deps |-> c, peers |-> <<>>, optional |-> {2}]>>,
      importers |-> <<[at |-> <<>>, linked |-> TRUE, deps |-> root],
                      [at |-> <<5>>, linked |-> linked, deps |-> member]>>] :
       a \in EdgesOf({2}) \cup {(4 :> <<3, 1>>)}, b \in EdgesOf({2, 3}), c \in EdgesOf({2}),
       peers \in {<<>>, 2 :> <<2, 1>>},
       root \in {n \in {1 :> [id |-> <<1, 1>>, group |-> g] : g \in {"prod", "dev", "optional"}} : TRUE}
                 \cup {(1 :> [id |-> <<1, 1>>, group |-> "prod"]) @@ (4 :> [id |-> <<3, 1>>, group |-> "prod"])},
       linked \in BOOLEAN,
       member \in {[n \in DOMAIN e |-> [id |-> e[n], group |-> "dev"]] : e \in EdgesOf({2, 3})}}
Fuel == 40

(* Overrides: version ranges of one comparator or two, and rules for two   *)
(* packages, flat and nested, with references to what the root declares.   *)
Versions == {<<a, b, c>> : a \in 0 .. 4, b \in 0 .. 3, c \in 0 .. 3}
Comparators == [op : {"=", ">", ">=", "<", "<=", "~", "^"}, v : {<<0, 1, 0>>, <<1, 0, -1>>, <<1, 2, 1>>, <<2, -1, -1>>}]
Ranges == {{a} : a \in Comparators} \cup {{a, b} : a \in {c \in Comparators : c.op \in {">", ">="}},
                                                b \in {c \in Comparators : c.op \in {"<", "<="}}}
Selector(name, req) == [name |-> name, req |-> req]
Values == {To(2, {1}), To(2, {2}), [kind |-> "ref", name |-> 1], [kind |-> "ref", name |-> 2], [kind |-> "empty"]}
OverrideEntries ==
    {<<>>} \cup {<<[selector |-> a, value |-> x]>> : a \in {Selector(n, r) : n \in {1, 2}, r \in {R!NoReq, {1}}},
                  x \in Values \cup {[kind |-> "object", entries |-> <<[selector |-> b, value |-> y]>>] :
                                     b \in {Selector(n, r) : n \in {R!Dot, 1, 2}, r \in {R!NoReq, {2}}},
                                     y \in Values \cup {[kind |-> "object", entries |-> <<>>]}}}
OverrideCases ==
    {[entries |-> e \o f, declared |-> d, ancestors |-> chain, requested |-> To(2, m)] :
       e \in OverrideEntries, f \in {g \in OverrideEntries : g = <<>> \/ g[1].selector = Selector(2, R!NoReq)},
       d \in {<<>>, 2 :> To(2, {1}), 1 :> To(1, {1})},
       chain \in {<<>>, <<[name |-> 1, version |-> 1]>>}, m \in {{1}, {1, 2}}}
-----------------------------------------------------------------------------
ResolutionInit ==
       \/ "plain" \in Families /\ \E w \in PlainWorlds : input = [of |-> "world", x |-> w]
       \/ "peers" \in Families /\ \E w \in PeerWorlds : input = [of |-> "world", x |-> w]
       \/ "members" \in Families /\ \E w \in MemberWorlds : input = [of |-> "world", x |-> w]
       \/ "yarn" \in Families /\ \E l \in YarnLocks : input = [of |-> "yarn", x |-> l]
       \/ "pnpm" \in Families /\ \E d \in PnpmDocs : input = [of |-> "pnpm", x |-> d]
       \/ "ranges" \in Families /\ \E a, b \in Ranges : input = [of |-> "ranges", x |-> <<a, b>>]
       \/ "overrides" \in Families /\ \E c \in OverrideCases : input = [of |-> "overrides", x |-> c]

Resolve == input.of = "world" /\ result' = R!ResolveManifest(input.x)
ImportYarn == input.of = "yarn" /\ result' = I!ImportYarn(input.x.entries, input.x.declared, Fuel)
ImportPnpm == input.of = "pnpm" /\ result' = I!ImportPnpm(input.x, Fuel)
Intersect == input.of = "ranges" /\ result' = R!RangesIntersect(input.x[1], input.x[2])
Normalize == input.of = "overrides" /\ result' = R!NormalizeRootOverrides(input.x.entries, input.x.declared)
ResolutionNext == Resolve \/ ImportYarn \/ ImportPnpm \/ Intersect \/ Normalize

A == INSTANCE Archive
H == INSTANCE HttpClient
G == INSTANCE GraphIdentity
T == INSTANCE TreeLink
L == INSTANCE LockFormat
C == INSTANCE NpmConfig
W == INSTANCE InstallRoutes
U == INSTANCE Patch

File(path, size) == [type |-> "file", path |-> path, size |-> size, target |-> <<>>]
Other(type, path, target) == [type |-> type, path |-> path, size |-> 0, target |-> target]
EntryPool ==
    {File(<<"package", "package.json">>, 1), File(<<"package", ".", "lib", "x">>, 2),
     File(<<"package", "lib", "x">>, 3), File(<<"repo", "package.json">>, 1),
     File(<<"repo", "lib">>, 1), File(<<"package.json">>, 1),
     Other("dir", <<"package", "lib">>, <<>>), Other("header", <<"pax_global_header">>, <<>>),
     Other("symlink", <<"repo", "l">>, <<"..", "x">>), Other("symlink", <<"repo", "l">>, <<"x">>),
     Other("symlink", <<"package", "l">>, <<"lib">>), File(<<"package", "l", "x">>, 1), File(<<"package", "lib">>, 1)}
Archives == UNION {[1 .. n -> EntryPool] : n \in 0 .. 3}
SmallLimits == [entries |-> 3, file |-> 2, total |-> 3]
WideLimits == [entries |-> 9, file |-> 9, total |-> 99]

Tree == [path : 1 .. 3, kind : {0, 1}, target : {5}, payload : {7}]
Trees == {t \in SUBSET Tree : \A x, y \in t : x.path = y.path => x = y}
Torn(whole) == {SubSeq(whole, 1, n) : n \in 0 .. Len(whole)} \cup {Append(whole, u) : u \in {0, 1}}

Urls == 0 .. 2
Answers == [kind : {"redirect"}, to : Urls] \cup
           [kind : {"ok", "busy", "lost", "refused", "misdirect"}, to : {0}]
Attempts == 2
MaxHops == 2
(* After a success nothing more is asked. *)
Scripts == {s \in [1 .. 6 -> Answers] : \A k \in 1 .. 5 : s[k].kind = "ok" => s[k + 1] = s[k]}
Networks == [min : {1, 3}, max : {5, 40}, factor : {1, 2, 3}, width : {4}]

(* Locks that share prefixes of their encodings; a patch is on or off.     *)
Texts == {<<>>, <<1>>}
PairLists == {<<>>, <<<<<<1>>, <<>>>>>>, <<<<<<1>>, <<1>>>>>>, <<<<<<>>, <<>>>>, <<<<1>>, <<>>>>>>}
Package(v, r, i, link, deps) ==
    [path |-> <<1>>, version |-> v, resolved |-> r, integrity |-> i, link |-> link, target |-> <<>>, dev |-> FALSE, bin |-> <<>>,
     dependencies |-> deps]
LinkTo(target, link) == [Package(<<1>>, <<>>, <<>>, link, <<>>) EXCEPT !.target = target]
Default == [omitDev |-> FALSE, production |-> FALSE]
Lock(root, target, packages, patches, names) ==
    [root |-> root, overrides |-> <<>>, target |-> target, packages |-> packages, patches |-> patches, names |-> names]
Installs ==
    {[lock |-> Lock(root, target, <<Package(<<1>>, r, i, FALSE, deps)>>, <<patch>>, <<>>), prepared |-> <<>>, profile |-> Default,
      ws |-> [patterns |-> <<>>, packages |-> <<>>], members |-> <<>>] :
       root \in PairLists, target \in {<<>>, <<<<1>>>>}, r \in Texts, i \in Texts, deps \in PairLists, patch \in {0, 1}}
    \cup {[lock |-> Lock(<<>>, <<>>, <<LinkTo(target, link)>>, <<0>>, <<>>), prepared |-> prepared, profile |-> Default,
           ws |-> [patterns |-> <<>>, packages |-> packages], members |-> members] :
       target \in {<<>>, <<1>>, <<2>>}, link \in BOOLEAN, prepared \in {<<>>, <<<<<<1>>, <<1>>>>>>},
       packages \in {<<>>, <<<<<<1>>, <<1>>>>>>}, members \in [{1, 2} -> {1, 2}]}
    \cup {[lock |-> Lock(<<>>, <<>>, packages, [k \in DOMAIN packages |-> 0], names), prepared |-> prepared, profile |-> profile, ws |-> ws,
           members |-> <<>>] :
       packages \in {<<>>, <<Package(<<1>>, <<>>, <<>>, FALSE, <<>>)>>}, names \in {<<>>, <<<<<<1>>, <<1>>>>>>}, prepared \in PairLists,
       profile \in {Default, [omitDev |-> TRUE, production |-> TRUE], [omitDev |-> FALSE, production |-> TRUE]},
       ws \in [patterns : {<<>>, <<<<1>>>>}, packages : PairLists]}
Paths == 1 .. 3
ResolvedGraphs == [edges : [Paths -> SUBSET Paths], version : {[p \in Paths |-> 1]}]
Changed(graph) ==
    {[graph EXCEPT !.version[p] = 2] : p \in Paths}
    \cup {[graph EXCEPT !.edges[p] = IF q \in @ THEN @ \ {q} ELSE @ \cup {q}] : p \in Paths, q \in Paths}
Disks ==
    [reflink : [T!Files -> {"ok", "unsupported", "broken"}], hardlink : [T!Files -> {"ok", "broken"}],
     copy : [T!Files -> {"ok", "broken"}], index : {"none", "valid", "corrupt"},
     platform : {"linux", "macos", "windows"}, target : {T!Nothing, [f \in T!Files |-> "copy"], T!Link}]

(* Tables of npm: two copies of b, the one at the top perhaps an alias.    *)
RawPackages(path) ==
    LET all == [name : {"", "b", "c"}, version : {1, 2}, integrity : {<<>>}, link : {FALSE}, inBundle : BOOLEAN,
                resolved : {<<>>, <<"git", "b", "x">>} \cup [1 .. 1 -> {"registry", "bundled"}]]
        raw == {[r EXCEPT !.resolved = IF Len(@) = 1 THEN <<@[1], "b", r.version>> ELSE @] : r \in all}
    IN  {r \in raw \cup {[q EXCEPT !.integrity = L!ResolvedUrl(path, q)] : q \in raw} :
            r.inBundle => L!InParentTarball(r.resolved)}
LinkRaw(target) ==
    [name |-> "", version |-> 1, resolved |-> target, integrity |-> <<>>, link |-> TRUE, inBundle |-> FALSE]
Tops == {<<>>, LinkRaw(<<>>), LinkRaw(<<"target", "w", 0>>), [LinkRaw(<<>>) EXCEPT !.link = FALSE]}
Served == {<<"registry", n, v>> : n \in {"a", "b", "c"}, v \in 1 .. 2} \cup {<<"tarball", "b", "x">>}
TableOf(top, nested, flat, member) ==
    [p \in {q \in L!Paths : <<top, nested, flat, member>>[q] # <<>>} |-> <<top, nested, flat, member>>[p]]

(* Locks of an upgrade: a and w are roots, b a dependency of either.       *)
LockOf(version, ofA, ofW) ==
    LET here == {1, 4} \cup ofA \cup ofW
        order == SelectSeq(<<1, 2, 3, 4>>, LAMBDA p : p \in here)
    IN  [version |-> 2, registryNames |-> <<>>,
         packages |-> [k \in DOMAIN order |->
             [path |-> order[k], name |-> L!PathName[order[k]], version |-> version, resolved |-> <<"registry", "b", 1>>,
              integrity |-> <<"registry", "b", 1>>, link |-> FALSE, target |-> <<>>]],
         resolution |-> [p \in here |-> [source |-> "registry", commit |-> "",
             targets |-> IF p = 1 THEN ofA ELSE IF p = 4 THEN ofW ELSE {}]]]
LocksAt(version) == {LockOf(version, x, y) : x \in SUBSET {2, 3}, y \in SUBSET {3}}

(* Locks of an install here, on linux.                                     *)
Constraints == {{}, {<<"not", "linux">>}, {<<"is", "any">>}, {<<"is", "darwin">>, <<"not", "linux">>}}
InstallLocks ==
    {[p \in L!Paths |-> [name |-> L!PathName[p], os |-> os[p], optional |-> p \in optional, integrity |-> TRUE,
                          dependencies |-> deps[p], needs |-> deps[p]]] :
       os \in {x \in [L!Paths -> Constraints] : x[1] # {<<"is", "any">>} /\ x[2] \in {{}, {<<"not", "linux">>}} /\ x[3] \in {{}, {<<"is", "any">>}}},
       optional \in {{2, 3, 4}, {1, 2, 3}, 1 .. 4, {1, 4}},
       deps \in {x \in [L!Paths -> SUBSET {"b", "w"}] : "w" \notin x[2] /\ "b" \notin x[3] /\ "w" \notin x[4] /\ x[2] = {}}}
PartlyRecorded(lock, p) == [lock EXCEPT ![p].dependencies = {}]

(* npmrc files: tokens of nested and of similarly named directories, and   *)
(* settings that contradict or mend one another.                           *)
UrlPaths == {<<"/">>, <<"/", "a">>, <<"/", "a", "/">>, <<"/", "a", "b">>, <<"/", "a", "b", "/">>, <<"/", "a", "/", "b">>,
             <<"/", "a", "/", "/">>, <<"/", "a", "/", "b", "/", "a">>}
Url(authority, path) == [scheme |-> "https", authority |-> authority, path |-> path, userinfo |-> FALSE, query |-> FALSE]
Text(n) == <<[var |-> FALSE, of |-> n]>>
Variable(n) == <<[var |-> TRUE, of |-> n]>>
Environment == [v \in {1} |-> 3]
TokenLines == [key : [is : {"token"}, authority : {"h", "g"}, path : UrlPaths], value : {Text(1), Text(2)}]
TokenFiles == {<<x, y>> : x \in TokenLines, y \in TokenLines}
SettingLines ==
    [key : [is : {"min", "max", "retries"}], value : {Text(0), Text(1), Text(6), Text(99), Variable(1), Variable(2)}]
    \cup {[key |-> [is |-> k], url |-> [Url("h", <<"/", "a">>) EXCEPT !.query = q]] : k \in {"registry"}, q \in BOOLEAN}
    \cup {[key |-> [is |-> "scope", scope |-> s, valid |-> TRUE], url |-> [Url("g", <<>>) EXCEPT !.userinfo = u]] :
              s \in {"s", "t"}, u \in BOOLEAN}
    \cup {[key |-> [is |-> k], value |-> <<>>] : k \in {"comment", "no equals"}}
SettingFiles == {<<>>} \cup {<<x>> : x \in SettingLines} \cup {<<x, y>> : x \in SettingLines, y \in SettingLines}

(* Projects whose manifest moved on from a lock, a plan and a snapshot, or *)
(* did not; d is a dev package, g comes from git, p is private.            *)
OldLock == [kind |-> "bpm", root |-> 1, packages |-> {"a", "d"}]
ProjectLocks == {W!None, OldLock, [OldLock EXCEPT !.kind = "npm"], [kind |-> "bpm", root |-> 2, packages |-> {"a", "d", "g"}]}
PlanOf(packages, profile) == [kind |-> "plan", graph |-> <<packages, profile>>, owned |-> packages]
ProjectPlans == {W!None, W!Torn, PlanOf({"a", "q"}, "default"), PlanOf({"a", "d", "g"}, "default"), PlanOf({"a", "g"}, "dev omitted")}
OldSnapshot == [kind |-> "json", key |-> <<2, FALSE, 0>>, at |-> 0, lock |-> [kind |-> "bpm", root |-> 2, packages |-> {"a", "d"}]]
ProjectStates ==
    [manifest : {2}, now : {2}, failed : {FALSE}, prior : {W!None}, all : {{"a", "d", "g", "p"}}, dev : {{"d"}}, git : {{"g"}}, patched : {{}},
     registry : {[k \in {2} \X BOOLEAN \X {0, 1} |-> {"a", "d"} \cup (IF k[2] THEN {} ELSE {"g"}) \cup (IF k[3] = 1 THEN {"p"} ELSE {})]},
     lock : ProjectLocks, plan : ProjectPlans, snapshots : {{}, {OldSnapshot}, {[OldSnapshot EXCEPT !.lock = W!Torn]}},
     store : {{}, {"a", "g"}}, volumes : {{}, {<<{"a", "d", "g"}, "default">>, <<{"a", "g"}, "dev omitted">>}},
     view : {{"a", "q", "x"}, {"a", "d", "g"}}]
PatchedStates == {[x EXCEPT !.patched = {"g"}] : x \in {y \in ProjectStates : y.store = {} /\ y.volumes = {} /\ "q" \in y.view}}
Options ==
    {[omitDev |-> p[1], production |-> p[2], includeDev |-> p[3], frozen |-> c = "frozen", stale |-> c = "stale",
      streaming |-> row[1], async |-> row[2], gitPrepare |-> git, legacyPeers |-> FALSE, account |-> 0] :
        p \in {<<FALSE, FALSE, FALSE>>, <<TRUE, FALSE, FALSE>>, <<FALSE, TRUE, TRUE>>}, c \in {"normal", "frozen", "stale"},
        row \in BOOLEAN \X BOOLEAN, git \in BOOLEAN}
OtherOptions(o) == {[o EXCEPT !.legacyPeers = l, !.account = a] : l \in BOOLEAN, a \in {0, 1}}
InstallFaults ==
    LET none == W!NoFaults
    IN  {none, [none EXCEPT !.unresolved = {"g"}], [none EXCEPT !.unfetched = {"g"}], [none EXCEPT !.unfetched = {"d"}],
         [none EXCEPT !.snapshot = TRUE], [none EXCEPT !.lockWrite = TRUE], [none EXCEPT !.plan = TRUE],
         [none EXCEPT !.reconcile = TRUE], [none EXCEPT !.reconcile = TRUE, !.plan = TRUE],
         [none EXCEPT !.reconcile = TRUE, !.finalize = "persist"],
         [none EXCEPT !.finalize = "attach"], [none EXCEPT !.finalize = "persist"], [none EXCEPT !.refresh = "error"],
         [none EXCEPT !.refresh = "missing", !.unfetched = {"a"}], [none EXCEPT !.refresh = "missing", !.finalize = "attach"]}
-----------------------------------------------------------------------------
(* Edits of a file of up to four lines, with fewer where they read like    *)
(* headers, and packages it may be part of: with a link and with files of  *)
(* the same name elsewhere.                                                *)
EditLines(texts) == [kind : {" ", "-", "+"}, value : texts]
EditText == <<"x">>
PlainTexts == {EditText, <<"y">>}
HeaderTexts == {<<"--", "i">>, <<"++", "i">>}
Edits == UNION {[1 .. n -> EditLines(PlainTexts)] : n \in 0 .. 4}
           \cup UNION {[1 .. n -> EditLines({EditText} \cup HeaderTexts)] : n \in 0 .. 3}
Contents(edit) ==
    LET lines == U!Before(edit)
    IN  {lines, Append(lines, U!EndedLine(EditText))} \cup
        IF lines = <<>> THEN {} ELSE {[lines EXCEPT ![Len(lines)].ended = FALSE], <<U!EndedLine(<<"y">>)>> \o Tail(lines)}
TarEntry(path, file, data) == [path |-> path, file |-> file, data |-> data]
Tarballs(edit) ==
    {<<TarEntry(<<"repo", "lib", "i">>, TRUE, <<U!EndedLine(EditText)>>), TarEntry(<<root, "l">>, FALSE, <<>>), TarEntry(<<root, "i">>, TRUE, data)>> :
       root \in {"package", "repo"}, data \in Contents(edit)}

ImagePaths == {<<1>>, <<2>>, <<1, 1>>}
ImageNodes ==
    {G!Node("dir", <<>>), G!Node("special", <<>>)} \cup {G!Node("file", b) : b \in {<<>>, <<3>>, <<3, 1, 2>>}}
    \cup {G!Node("link", b) : b \in {<<2>>, <<1>>, <<0, 1, 2>>, <<9, 2>>}}
ImageTrees ==
    {t \in UNION {[s -> ImageNodes] : s \in SUBSET ImagePaths} :
       <<1, 1>> \in DOMAIN t => <<1>> \in DOMAIN t /\ t[<<1>>].kind = "dir"}

Init ==
    /\ result = <<>>
    /\ done = FALSE
    /\ \/ ResolutionInit
       \/ "archive" \in Families /\ \E a \in Archives, l \in {SmallLimits, WideLimits} :
            input = [of |-> "archive", x |-> a, limits |-> l]
       \/ "image" \in Families /\ \E t \in Trees : \E s \in Torn(A!FromDirectoryIndex(t)) \cup Torn(A!Encode(t)) :
            input = [of |-> "image", x |-> t, stream |-> s]
       \/ "http" \in Families /\ \E s \in Scripts : input = [of |-> "http", x |-> s, url |-> 0]
       \/ "delay" \in Families /\ \E n \in Networks, r \in 0 .. 4, a \in {0, 3, 50} :
            input = [of |-> "delay", x |-> n, retry |-> r, after |-> a]
       \/ "tokens" \in Families /\ \E n \in [1 .. 4 -> 0 .. 4], f \in SUBSET (2 .. 4), m \in 1 .. 4 :
            input = [of |-> "tokens", x |-> n, foreign |-> f, pages |-> m]
       \/ "identity" \in Families /\ \E x \in Installs : input = [of |-> "identity", x |-> x]
       \/ "closure" \in Families /\ \E x \in ResolvedGraphs : \E y \in Changed(x) :
            input = [of |-> "closure", x |-> x, y |-> y]
       \/ "npm" \in Families /\ \E top \in Tops, nested \in RawPackages(2) \cup {<<>>}, flat \in RawPackages(3) \cup {<<>>},
              member \in {<<>>, [LinkRaw(<<>>) EXCEPT !.link = FALSE]}, served \in {{}, Served} :
            input = [of |-> "npm", x |-> TableOf(top, nested, flat, member), served |-> served]
       \/ "upgrade" \in Families /\ \E x \in LocksAt(1), y \in LocksAt(2) : input = [of |-> "upgrade", x |-> x, y |-> y]
       \/ "work" \in Families /\ \E x \in InstallLocks, root \in SUBSET {"a", "b", "w"} :
            input = [of |-> "work", x |-> x, root |-> root]
       \/ "partly" \in Families /\ \E x \in InstallLocks, root \in SUBSET {"a", "b", "w"}, p \in L!Paths :
            input = [of |-> "work", x |-> PartlyRecorded(x, p), root |-> root]
       \/ "auth" \in Families /\ \E x \in TokenFiles, path \in UrlPaths :
            input = [of |-> "auth", x |-> x, url |-> Url("h", path)]
       \/ "config" \in Families /\ \E x \in SettingFiles, y \in {<<>>} \cup {<<l>> : l \in SettingLines} :
            input = [of |-> "config", x |-> x, y |-> y]
       \/ "routes" \in Families /\ \E x \in ProjectStates \cup PatchedStates, o \in Options, f \in InstallFaults :
            /\ f # W!NoFaults => ~o.production /\ \A snapshot \in x.snapshots : snapshot.lock # W!Torn
            /\ input = [of |-> "routes", x |-> x, options |-> o, faults |-> f]
       \/ "patch" \in Families /\ \E e \in Edits, c \in {1, 2} : \E tarball \in Tarballs(e) :
            input = [of |-> "patch", x |-> e, context |-> c, tarball |-> tarball]
       \/ "bare" \in Families /\ \E e \in Edits : \E tarball \in Tarballs(e) :
            input = [of |-> "patch", x |-> e, context |-> 0, tarball |-> tarball]
       \/ "derived" \in Families /\ \E t \in ImageTrees : input = [of |-> "derived", x |-> t]
       \/ "link" \in Families /\ \E d \in Disks : input = [of |-> "link", x |-> d]

Extract == input.of = "archive" /\ result' = A!Extracted(input.x, input.limits)
DecodeIndex == input.of = "image" /\ result' = A!DecodeIndex(input.stream)
Get == input.of = "http" /\ result' = H!ExecuteGet(input.url, input.x, Attempts, MaxHops)
Wait == input.of = "delay" /\ result' = H!RetryDelay(input.x, input.retry, input.after)
ListTokens == input.of = "tokens" /\ result' = H!ListTokens(input.x, input.foreign, input.pages)
Name == input.of = "identity" /\ result' = <<G!VolumeId(input.x), G!PlanId(input.x)>>
DigestClosure == input.of = "closure" /\ result' = G!PackageClosureDigest(input.x, 1)
LinkImage == input.of = "link" /\ result' = T!LinkOneBackend(input.x, "Reflink")
ImportNpm == input.of = "npm" /\ result' = L!Import(input.x, input.served)
Upgrade == input.of = "upgrade" /\ result' = L!SelectiveUpgradeLock(input.x, input.y, {"a"})
PlanWork == input.of = "work" /\ result' = L!BuildInstallWork(input.x, input.root, "linux", FALSE)
Authorize == input.of = "auth" /\ result' = C!AuthTokenForUrl(C!LoadPaths(<<>>, input.x, Environment), input.url)
LoadConfig == input.of = "config" /\ result' = C!LoadPaths(input.x, input.y, Environment)
Install == input.of = "routes" /\ result' = W!Run(input.x, input.options, input.faults)
PatchPackage == input.of = "patch" /\ result' = U!Apply(input.tarball, U!Diff(input.x, input.context, <<"i">>))
DeriveImage == input.of = "derived" /\ result' = G!Published(input.x)
Next == /\ ~done /\ done' = TRUE /\ UNCHANGED input
        /\ ResolutionNext \/ Extract \/ DecodeIndex \/ Get \/ Wait \/ ListTokens \/ Name \/ DigestClosure \/ LinkImage \/ ImportNpm \/ Upgrade \/ PlanWork
           \/ Authorize \/ LoadConfig \/ Install \/ PatchPackage \/ DeriveImage
Spec == Init /\ [][Next]_vars
-----------------------------------------------------------------------------
Of(family) == done /\ input.of = family

(* resolve_dependency: recorded edges lead to versions they accept.        *)
TargetsSatisfyRequests == Of("world") => R!TargetsSatisfyRequests(input.x, result)

(* bind_peer_context and the repair loop: every required peer is bound,    *)
(* and every bound peer fits.                                              *)
PeersHold == Of("world") => R!PeersHold(input.x, result)

(* GraphResolver and its sink: what is placed or announced is needed.      *)
NothingExtraneous == Of("world") => R!NothingExtraneous(input.x, result)

(* project_lockfile_omitting_dev keeps what production roots need.         *)
OmitDevKeepsRuntime == Of("world") => R!OmitDevKeepsRuntime(input.x, result)

(* Claim of platform.rs: a required package has all that it requires.      *)
RequiredPathsComplete == Of("world") => R!RequiredPathsComplete(input.x, result)

(* Claim of placement.rs: backtracking tries candidates of the request.    *)
BacktrackingStaysInRange == Of("world") => R!BacktrackingStaysInRange(input.x, result)

(* The importers: every edge of a foreign lock that was walked finds, by   *)
(* Node's lookup from its place, the very version the lock resolved it to. *)
EveryEdgeExact ==
    /\ Of("yarn") => I!EveryEdgeExact(input.x.entries, result)
    /\ Of("pnpm") => I!EveryEdgeExact(I!PnpmEntries(input.x), result)

(* Claim of yarn_lock.rs: a dev-first discovery is not mislabeled.         *)
NotMislabeled == Of("yarn") => I!NotMislabeled(input.x.entries, input.x.declared, result)

(* Claim of pnpm_lock.rs: an alias places its package's dependencies.      *)
AliasesKeepEdges == Of("pnpm") => I!AliasesKeepEdges(input.x, result)

(* ranges_intersect is exact, partial lower bounds aside.                  *)
RangesIntersectExact == Of("ranges") => R!RangesIntersectExact(input.x[1], input.x[2], Versions)

(* Accepted overrides never change what the root declares, and the most    *)
(* specific rule decides below it.                                         *)
OverridesRespectRoot ==
    Of("overrides") => R!OverridesRespectRoot(input.x.entries, input.x.declared, input.x.ancestors, input.x.requested)

(* extract: the image is what the archive says, whatever its order, unless *)
(* something is packed below a link.                                       *)
ImageIsArchive == Of("archive") => A!ImageIsArchive(input.x, result)

(* extract_with_limits: no budget is exceeded, also not on a failed way.   *)
ImageWithinBudget == Of("archive") => A!ImageWithinBudget(input.x, input.limits, result)

(* decode_index: a torn or padded index is refused.                        *)
TornIndexRefused == Of("image") => A!TornIndexRefused(input.x, input.stream)

(* execute_get ends, repeats no url in an attempt and keeps the caller's   *)
(* headers at the first origin.                                            *)
GetEnds == Of("http") => H!GetEnds(input.url, input.x, Attempts, MaxHops)

(* request_json: a mutation that may not be repeated is sent once.         *)
MutationSentOnce ==
    Of("http") => \A retry \in BOOLEAN : H!MutationSentOnce(input.url, input.x, Attempts - 1, retry)

(* retry_delay honours the server and the maximum, overflow included.      *)
DelayWithinBounds == Of("delay") => H!DelayWithinBounds(input.x, input.retry, input.after)

(* list_tokens returns all pages of the registry or an error.              *)
TokenListComplete == Of("tokens") => H!TokenListComplete(input.x, input.foreign, input.pages)

(* graph_id: installs that link the same members share a volume or a plan  *)
(* only when they build one tree, however their fields are divided.        *)
SameIdSameTree == Of("identity") => \A y \in Installs : G!SameIdSameTree(input.x, y)

(* ensure_graph_volume reuses a volume under its id: the images are those  *)
(* this install would unpack.                                              *)
SameIdSameImages == Of("identity") => \A y \in Installs : G!SameIdSameImages(input.x, y)

(* graph_id_for_project: a changed member changes the ids.                 *)
MembersInvalidate == Of("identity") => \A y \in Installs : G!MembersInvalidate(input.x, y)

(* package_closure_digest changes exactly when the closure does.           *)
ClosureDigestExact == Of("closure") => G!ClosureDigestExact(input.x, input.y, 1)

(* link_one_backend: views share no inode with the store and are whole.    *)
ViewIsolated ==
    Of("link") => \A b \in {"Symlink", "Hardlink", "IsolatedCopy", "Reflink", "Auto", "preferred"} :
                     T!ViewIsolated(input.x, b)

(* link_tree: a corrupt index does not cost a project its view.            *)
CorruptIndexKeepsView == Of("link") => T!CorruptIndexKeepsView(input.x)

(* import writes a lock that from_json accepts and leaves as it is.        *)
ImportReadable == Of("npm") => L!ImportReadable(input.x, input.served)

(* export_v3 undoes import where no alias is involved.                     *)
ExportInverse == Of("npm") => L!ExportInverse(input.x, input.served)
ExportKeepsAliases == Of("npm") => L!ExportKeepsAliases(input.x, input.served)

(* import fills in the hash of the very artifact it will be checked on.    *)
FilledIntegrityRight == Of("npm") => L!FilledIntegrityRight(input.x, input.served)
FilledIntegrityAlwaysRight == Of("npm") => L!FilledIntegrityAlwaysRight(input.x, input.served)

(* selective_upgrade_lock moves the selection and nothing else.            *)
UpgradeMovesSelection == Of("upgrade") => L!UpgradeMovesSelection(input.x, input.y, {"a"})
UpgradeConsistent == Of("upgrade") => L!UpgradeConsistent(input.x, input.y, {"a"})

(* prune_unreachable_optionals keeps all that an installed package needs.  *)
NothingNeededPruned == Of("work") => L!NothingNeededPruned(input.x, input.root, "linux")

(* auth_token_for_url: a token goes where its key says and nowhere else.   *)
TokenScopeExact == Of("auth") => C!TokenScopeExact(input.x, Environment, input.url)

(* load_paths: the last line wins, and a contradiction is refused.         *)
LoadExact == Of("config") => C!LoadExact(input.x, input.y, Environment, "s")

(* run: the four rows of the matrix install the same project.              *)
RowsAgree == Of("routes") /\ input.faults = W!NoFaults => W!RowsAgree(input.x, input.options)

(* run again after a failed run gets where one clean run gets, but for     *)
(* stale entries whose removal was cut short.                              *)
RetryHeals == Of("routes") => W!RetryHeals(input.x, input.options, input.faults)

(* run: with dev packages omitted, none is fetched and the lock is whole.  *)
OmittedDevNeverFetched == Of("routes") => W!OmittedDevNeverFetched(input.x, input.options, input.faults)

(* run: a cached resolution replays the one it was made from, for the same *)
(* inputs only.                                                            *)
OfflineReplays ==
    Of("routes") /\ input.faults = W!NoFaults =>
        \A other \in OtherOptions(input.options) : W!OfflineReplays(input.x, input.options, other)

(* apply_unified_patch_to_tgz does what the diff says to the file it is of *)
(* and nothing else, and the reverse diff undoes it, unless a removed line *)
(* reads like a header.                                                    *)
PatchExact == Of("patch") => U!PatchExact(input.x, input.context, <<"i">>, input.tarball)

(* validate_published: a hit is what was published, nothing lost or        *)
(* altered since.                                                          *)
HitIsWhatWasPublished == Of("derived") => G!HitIsWhatWasPublished(input.x, ImagePaths, ImageNodes)

(* The resolver: recorded edges and bound peers lead to versions they      *)
(* accept, every required peer is bound, nothing is placed or announced    *)
(* that is not needed, omitting dev packages keeps what production roots   *)
(* need; ranges intersect exactly when a version is in both (partial lower *)
(* bounds aside), and overrides never change what the root declares.       *)
ResolutionSound ==
    /\ TargetsSatisfyRequests /\ PeersHold /\ NothingExtraneous /\ OmitDevKeepsRuntime
    /\ RangesIntersectExact /\ OverridesRespectRoot

(* Locks: an edge of a yarn or pnpm lock finds the very version it was     *)
(* resolved to; an imported npm lock is readable, exports back to what it  *)
(* was and has the right hashes; a named upgrade moves the selection and   *)
(* nothing else; nothing an installed package needs is pruned.             *)
LocksFaithful ==
    /\ EveryEdgeExact /\ ImportReadable /\ ExportInverse /\ FilledIntegrityRight
    /\ UpgradeMovesSelection /\ NothingNeededPruned

(* Packages: an image is what its archive says and within the budget, a    *)
(* torn index is refused and costs no view, views share nothing with the   *)
(* store, a patch does what its diff says, and a derived image that is hit *)
(* is what was published.                                                  *)
PackagesExact ==
    /\ ImageIsArchive /\ ImageWithinBudget /\ TornIndexRefused /\ ViewIsolated /\ CorruptIndexKeepsView
    /\ PatchExact /\ HitIsWhatWasPublished

(* Requests: a call ends, repeats no url and no mutation and waits within  *)
(* its bounds, a list of tokens is complete, a token goes only where its   *)
(* key says, and contradicting settings are refused.                       *)
RequestsSafe ==
    /\ GetEnds /\ MutationSentOnce /\ DelayWithinBounds /\ TokenListComplete
    /\ TokenScopeExact /\ LoadExact

(* Names: installs that link the same members share a volume or plan only  *)
(* when they build one tree, and a package's closure digest changes        *)
(* exactly when its closure does.                                          *)
IdentityExact == SameIdSameTree /\ ClosureDigestExact

(* Routes: the rows of the matrix install the same project, a run after a  *)
(* failed one gets where a clean one gets, omitted dev packages are never  *)
(* fetched, and a cached resolution is replayed for its own inputs only.   *)
RoutesAgree == RowsAgree /\ RetryHeals /\ OmittedDevNeverFetched /\ OfflineReplays
=============================================================================
