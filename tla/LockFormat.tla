------------------------------ MODULE LockFormat ------------------------------
(***************************************************************************)
(* src/lockfile.rs and src/npm_lock.rs: reading bpm.lock, importing npm's  *)
(* package-lock.json and exporting it again.                               *)
(*                                                                         *)
(* Paths are numbers in the order of their strings, with the name and the  *)
(* shape of each.  A url is <<kind, name, version or commit>>; <<>> stands *)
(* for a missing url or hash.  A hash is written as the url of the         *)
(* artifact it belongs to.                                                 *)
(***************************************************************************)
EXTENDS Naturals, Sequences, SequencesExt, Functions, FiniteSets

Paths == 1 .. 4
PathName == <<"a", "b", "b", "w">>    \* nm/a, nm/a/nm/b, nm/b, packages/w
InNodeModules(path) == path # 4
None == <<>>

PackageNameFromPath(path) == PathName[path]
DeriveRegistryUrl(name, version) == <<"registry", name, version>>

(* hosted_git_from_npm_resolved: a hosted repository at a full commit.     *)
HostedGit(url) == url # None /\ url[1] = "git"
TarballOf(url) == <<"tarball", url[2], url[3]>>

(* What an entry of npm's table is skipped for: a workspace's own record,  *)
(* a dependency that ships inside its parent's tarball.                    *)
InParentTarball(url) == url # None /\ url[1] = "bundled"
SkipsRaw(path, raw) ==
    \/ ~raw.link /\ ~InNodeModules(path)
    \/ raw.inBundle /\ InParentTarball(raw.resolved)

IsAlias(path, raw) == raw.name # "" /\ raw.name # PackageNameFromPath(path)

(* The tarball of an entry: derived when npm left it out, under the real   *)
(* name of an alias, of the pinned commit for git.                         *)
ResolvedUrl(path, raw) ==
    LET source == IF raw.name # "" THEN raw.name ELSE PackageNameFromPath(path)
        found == IF (raw.resolved = None \/ InParentTarball(raw.resolved)) /\ raw.version # 0
                 THEN DeriveRegistryUrl(source, raw.version) ELSE raw.resolved
        real == IF IsAlias(path, raw) /\ (found = None \/ found[2] # raw.name)
                THEN DeriveRegistryUrl(raw.name, raw.version) ELSE found
    IN  IF raw.link THEN None
        ELSE IF HostedGit(raw.resolved) THEN TarballOf(raw.resolved) ELSE real

ImportEntry(path, raw) ==
    [path |-> path, name |-> PackageNameFromPath(path), version |-> raw.version,
     resolved |-> ResolvedUrl(path, raw), integrity |-> raw.integrity,
     link |-> raw.link, target |-> IF raw.link THEN raw.resolved ELSE None]

(* Mutant: a hash is shared by name only. *)
FillIntegrityByName(packages) ==
    LET Donor(e) == SelectSeq(packages, LAMBDA d : ~d.link /\ d.integrity # None /\ d.name = e.name)
    IN  [k \in DOMAIN packages |->
            IF packages[k].integrity = None /\ ~packages[k].link /\ Donor(packages[k]) # <<>>
            THEN [packages[k] EXCEPT !.integrity = Last(Donor(packages[k])).integrity] ELSE packages[k]]

(* integrity_by_artifact: a hash recorded on any entry of one name and     *)
(* version fills the others.                                               *)
FillIntegrity(packages) ==
    LET Donor(e) == SelectSeq(packages, LAMBDA d :
                        ~d.link /\ d.integrity # None /\ d.name = e.name /\ d.version = e.version)
    IN  [k \in DOMAIN packages |->
            IF packages[k].integrity = None /\ ~packages[k].link /\ Donor(packages[k]) # <<>>
            THEN [packages[k] EXCEPT !.integrity = Last(Donor(packages[k])).integrity] ELSE packages[k]]

(* The rest is downloaded, where the server has it, and hashed.            *)
FetchIntegrity(packages, served) ==
    [k \in DOMAIN packages |->
        IF ~packages[k].link /\ packages[k].integrity = None /\ packages[k].resolved \in served
        THEN [packages[k] EXCEPT !.integrity = packages[k].resolved] ELSE packages[k]]

(* Mutant: every recorded name is an alias. *)
AliasNamesAll(table) == {path \in DOMAIN table : ~table[path].link /\ ~SkipsRaw(path, table[path]) /\ table[path].name # ""}

AliasNames(table) == {path \in DOMAIN table : ~table[path].link /\ ~SkipsRaw(path, table[path]) /\ IsAlias(path, table[path])}

(* import, of a table path -> entry.                                       *)
Import(table, served) ==
    LET kept == SelectSeq([p \in Paths |-> p], LAMBDA p : p \in DOMAIN table /\ ~SkipsRaw(p, table[p]))
        packages == [k \in DOMAIN kept |-> ImportEntry(kept[k], table[kept[k]])]
        git == {p \in Range(kept) : ~table[p].link /\ HostedGit(table[p].resolved)}
    IN  [version |-> 2,
         packages |-> FetchIntegrity(FillIntegrity(packages), served),
         registryNames |-> [p \in AliasNames(table) |-> table[p].name],
         resolution |-> [p \in git |-> [source |-> "git", commit |-> table[p].resolved[3], targets |-> {}]]]
-----------------------------------------------------------------------------
(* unsupported_reason                                                      *)
Unsupported(lock, e) ==
    IF e.link THEN e.target = None
    ELSE \/ e.resolved = None \/ e.integrity = None
         \/ e.path \in DOMAIN lock.resolution /\ lock.resolution[e.path].source # "registry"
         \/ e.path \notin DOMAIN lock.resolution /\ e.resolved[1] \notin {"registry", "tarball", "bundled"}

Exportable(lock) == \A k \in DOMAIN lock.packages : ~Unsupported(lock, lock.packages[k])

(* Mutant: a link is written with the url of a package. *)
ExportEntryPlain(e) ==
    [name |-> "", version |-> e.version, resolved |-> e.resolved,
     integrity |-> e.integrity, link |-> e.link, inBundle |-> FALSE]

(* export_v3: the entry of npm's table; it has no name of its own.         *)
ExportEntry(e) ==
    [name |-> "", version |-> e.version, resolved |-> IF e.link THEN e.target ELSE e.resolved,
     integrity |-> e.integrity, link |-> e.link, inBundle |-> FALSE]

ExportV3(lock) ==
    [p \in {lock.packages[k].path : k \in DOMAIN lock.packages} |->
        ExportEntry(lock.packages[CHOOSE k \in DOMAIN lock.packages : lock.packages[k].path = p])]
-----------------------------------------------------------------------------
(* validate_v2: paths unique and sorted, ...                               *)
PathsSorted(packages) == \A k \in 1 .. Len(packages) - 1 : packages[k].path < packages[k + 1].path

EntryAt(lock, path) == lock.packages[CHOOSE k \in DOMAIN lock.packages : lock.packages[k].path = path]
HasPath(lock, path) == \E k \in DOMAIN lock.packages : lock.packages[k].path = path

(* ... registry names only where they differ, ...                          *)
NamesValid(lock) ==
    \A p \in DOMAIN lock.registryNames :
        HasPath(lock, p) /\ lock.registryNames[p] \notin {"", EntryAt(lock, p).name}

(* ... what each source needs, ...                                         *)
SourceValid(lock, p) ==
    LET e == EntryAt(lock, p)
        s == lock.resolution[p]
    IN  CASE s.source \in {"registry", "patch"} -> e.resolved # None /\ e.integrity # None
          [] s.source \in {"workspace", "file"} -> e.link
          [] s.source = "git" -> e.resolved # None /\ s.commit # ""
          [] s.source = "tarball" -> e.resolved # None

(* ... and validate_targets.                                               *)
TargetsValid(lock, p) == \A t \in lock.resolution[p].targets : HasPath(lock, t)

ValidateV2(lock) ==
    /\ PathsSorted(lock.packages)
    /\ NamesValid(lock)
    /\ \A p \in DOMAIN lock.resolution : HasPath(lock, p) /\ SourceValid(lock, p) /\ TargetsValid(lock, p)

(* to_json sorts the packages; from_json drops what a legacy lock says of  *)
(* its resolution.                                                         *)
ToJson(lock) == [lock EXCEPT !.packages = SortSeq(@, LAMBDA x, y : x.path < y.path)]

Refused == [version |-> 0]
FromJson(json) ==
    CASE json.version = 1 -> [json EXCEPT !.version = 2, !.registryNames = <<>>, !.resolution = <<>>]
      [] json.version = 2 /\ ValidateV2(json) -> json
      [] OTHER -> Refused
-----------------------------------------------------------------------------
(* What bpm import writes, bpm reads back unchanged.                       *)
ImportReadable(table, served) == LET lock == Import(table, served) IN FromJson(ToJson(lock)) = lock

(* "The exporter is the inverse of import" for what it accepts; an alias   *)
(* is excepted.                                                            *)
ExportInverse(table, served) ==
    LET lock == Import(table, served)
    IN  (Exportable(lock) /\ AliasNames(table) = {}) => Import(ExportV3(lock), {}) = lock

(* The same, aliases included.                                             *)
ExportKeepsAliases(table, served) ==
    LET lock == Import(table, served) IN Exportable(lock) => Import(ExportV3(lock), {}) = lock

(* npm's own hashes are those of the entry they stand at.                  *)
TableHonest(table) ==
    \A p \in DOMAIN table : table[p].integrity \in {None, ResolvedUrl(p, table[p])} /\ (table[p].link => table[p].integrity = None)

IntegrityRight(lock) ==
    \A k \in DOMAIN lock.packages : lock.packages[k].integrity \in {None, lock.packages[k].resolved}

(* A hash that import fills in is that of the artifact it will verify, if  *)
(* the table holds neither aliases nor git dependencies.                   *)
FilledIntegrityRight(table, served) ==
    (TableHonest(table) /\ \A p \in DOMAIN table : ~IsAlias(p, table[p]) /\ ~HostedGit(table[p].resolved)) =>
        IntegrityRight(Import(table, served))

(* The comment at import: "The same name+version always resolves to the    *)
(* same registry artifact, so an integrity recorded on any placement fills *)
(* the rest".                                                              *)
FilledIntegrityAlwaysRight(table, served) == TableHonest(table) => IntegrityRight(Import(table, served))
-----------------------------------------------------------------------------
(***************************************************************************)
(* What the commands do with a lock: selective_upgrade_lock of             *)
(* src/cli/mutate.rs merges a fresh resolution into the lock for the named *)
(* packages; build_install_work of src/cli/install.rs decides which        *)
(* packages of a lock this platform installs.                              *)
(***************************************************************************)
(* matches_list: a matching negation wins, positives must match if any.    *)
MatchesList(value, declared) ==
    \/ declared = {} \/ declared = {<<"is", "any">>}
    \/ /\ <<"not", value>> \notin declared
       /\ (\A d \in declared : d[1] = "not") \/ <<"is", value>> \in declared

(* check_package_platform                                                  *)
PlatformDisposition(package, target) ==
    CASE MatchesList(target, package.os) -> "compatible"
      [] ~MatchesList(target, package.os) /\ package.optional -> "skip optional"
      [] OTHER -> "unsupported"

(* Who depends on a name, by the lock's dependency maps.                   *)
Declarers(lock, name) == {p \in DOMAIN lock : name \in lock[p].dependencies}

(* Mutant: one skipped declarer is enough. *)
UnreachableByOne(lock, root, dead, p) ==
    /\ lock[p].optional /\ p \notin dead /\ lock[p].name \notin root
    /\ \E d \in Declarers(lock, lock[p].name) : d \in dead

(* prune_unreachable_optionals: every declarer is gone, and there is one.  *)
Unreachable(lock, root, dead, p) ==
    /\ lock[p].optional /\ p \notin dead /\ lock[p].name \notin root
    /\ Declarers(lock, lock[p].name) # {} /\ Declarers(lock, lock[p].name) \subseteq dead

PruneUnreachableOptionals(lock, root, skipped) ==
    LET Round(dead, n) == dead \cup {p \in DOMAIN lock : Unreachable(lock, root, dead, p)}
    IN  FoldLeft(Round, skipped, [n \in 1 .. Cardinality(DOMAIN lock) |-> n]) \ skipped

Failed == <<0>>
(* build_install_work: the paths to fetch; a package that must run here    *)
(* and cannot, or has no hash in a frozen install, fails the install.      *)
BuildInstallWork(lock, root, target, frozen) ==
    LET Disposed(d) == {p \in DOMAIN lock : PlatformDisposition(lock[p], target) = d}
        skipped == Disposed("skip optional")
        work == DOMAIN lock \ (skipped \cup PruneUnreachableOptionals(lock, root, skipped))
    IN  IF Disposed("unsupported") # {} \/ (frozen /\ \E p \in work : ~lock[p].integrity)
        THEN {Failed} ELSE {<<p>> : p \in work}
-----------------------------------------------------------------------------
(* selected_root_paths: the top-level placement of each name.              *)
SelectedRootPaths(lock, selected) ==
    {lock.packages[k].path : k \in {j \in DOMAIN lock.packages :
        lock.packages[j].path # 2 /\ PathName[lock.packages[j].path] \in selected}}

TargetsOf(lock, p) == IF p \in DOMAIN lock.resolution THEN lock.resolution[p].targets ELSE {}

(* Mutant: the closure ends at the named packages. *)
LockClosureRoots(lock, roots) == roots

(* lock_closure                                                            *)
LockClosure(lock, roots) ==
    LET Round(seen, n) == seen \cup UNION {TargetsOf(lock, p) : p \in seen}
    IN  FoldLeft(Round, roots, [n \in Paths |-> n])

(* selective_upgrade_lock: the old closure out, the new one in.            *)
SelectiveUpgradeLock(prior, fresh, selected) ==
    LET old == LockClosure(prior, SelectedRootPaths(prior, selected))
        new == LockClosure(fresh, SelectedRootPaths(fresh, selected))
        Kept(e) == e.path \notin old
        Moved(e) == e.path \in new
        stay == DOMAIN prior.resolution \ old
        move == DOMAIN fresh.resolution \cap new
    IN  [prior EXCEPT !.packages = SelectSeq(prior.packages, Kept) \o SelectSeq(fresh.packages, Moved),
                      !.resolution = [p \in stay \cup move |->
                          IF p \in move THEN fresh.resolution[p] ELSE prior.resolution[p]]]
-----------------------------------------------------------------------------
(* Where a dependency of `from` is found: nested in it, or at the top.     *)
Resolves(lock, from, name) ==
    LET nested == {p \in DOMAIN lock : lock[p].name = name /\ p = 2 /\ from = 1}
    IN  IF nested # {} THEN nested ELSE {p \in DOMAIN lock : lock[p].name = name /\ p # 2}

RECURSIVE ReachedFrom(_, _, _)
ReachedFrom(lock, seen, target) ==
    LET live == {p \in seen : MatchesList(target, lock[p].os)}
        more == seen \cup UNION {Resolves(lock, p, n) : <<p, n>> \in
                    {<<p, n>> \in live \X {"a", "b", "w"} : n \in lock[p].needs}}
    IN  IF more = seen THEN seen ELSE ReachedFrom(lock, more, target)

(* The comment at prune_unreachable_optionals: "an incomplete dependency   *)
(* map must never prune a reachable package".  `needs` is what a package   *)
(* declares, `dependencies` what the lock records of it.                   *)
NothingNeededPruned(lock, root, target) ==
    LET work == BuildInstallWork(lock, root, target, FALSE)
        reached == ReachedFrom(lock, UNION {Resolves(lock, 0, n) : n \in root}, target)
    IN  work = {Failed} \/ \A p \in reached : <<p>> \in work \/ ~MatchesList(target, lock[p].os)

(* A named upgrade whose packages share nothing with the others moves them *)
(* to the fresh resolution, keeps the others, and writes a readable lock.  *)
UpgradeMovesSelection(prior, fresh, selected) ==
    LET result == SelectiveUpgradeLock(prior, fresh, selected)
        old == LockClosure(prior, SelectedRootPaths(prior, selected))
        new == LockClosure(fresh, SelectedRootPaths(fresh, selected))
        others == {prior.packages[k].path : k \in DOMAIN prior.packages} \ old
        shared == UNION {TargetsOf(prior, p) : p \in others} \cap old
    IN  (shared = {} /\ others \cap new = {}) =>
            /\ FromJson(ToJson(result)) # Refused
            /\ \A p \in others : EntryAt(result, p) = EntryAt(prior, p)
            /\ \A p \in new : EntryAt(result, p) = EntryAt(fresh, p)

(* The comment at run_upgrade: the graph "must stay globally consistent".  *)
UpgradeConsistent(prior, fresh, selected) ==
    FromJson(ToJson(SelectiveUpgradeLock(prior, fresh, selected))) # Refused
=============================================================================
