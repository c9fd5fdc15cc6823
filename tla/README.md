# A TLA+ verification of bpm

bpm is a package manager for JavaScript projects.  It keeps one global store of
downloaded artifacts, extracted images, derived (built) images and whole
dependency trees ("graph volumes"), and gives a project a `node_modules` that
points into that store or copies from it.  What makes it hard is that the store
is shared: several `bpm` processes install, repair and collect at once, each of
them with several threads, and any of them may be killed between two steps.

This directory holds TLA+ modules that model the program, configurations that
check them with TLC on small instances, and proofs that TLAPS checks for
instances of every size.  `PROJECT.json` lists the parts, the runs, the source
lines behind every definition, the findings, the hazards and the theorems.

Source paths below are relative to the crate's `src/` directory.

## 1. The system

### Components, their state and operations

| component | source | state | operations | modules |
|---|---|---|---|---|
| object locks | `store_lock.rs` | one lock file per store object | `acquire`, `acquire_all`, release by dropping guards | `StoreLocks`, `AtomicLocks` |
| artifact and image store | `store.rs`, `archive.rs`, `package_image.rs`, `remote_cache.rs` | `artifacts/`, `images/`, index sidecars, `tmp/` | `ensure_artifact*`, `ensure_image`, extraction, publication by rename | `ArtifactStore`, `Archive` |
| derived images | `derived/` | results of install scripts, keyed by their inputs | look up, build in a sandbox, seal, publish, attach, validate | `Lifecycle`, `GraphIdentity` |
| lifecycle runner | `lifecycle.rs` | staged packages, child processes | choose scripts, isolate, run, fail, time out, record paths | `Lifecycle` |
| graph volumes | `volume.rs` | one directory per graph with a marker, staging trees | reuse check, ensure, stage while downloading, publish, attach, reconcile | `GraphVolume`, `VolumeStager`, `ProjectView` |
| materializer | `materializer.rs` | a private tree, then `node_modules` | link trees in waves of threads, bins, members, fallbacks | `Materializer`, `TreeLink` |
| metadata index | `metadata/` | SQLite tables; registration files | record, lease, renew, register, refresh, repair, migrate | `StoreIndex`, `LeaseHeartbeat`, `ProjectRegistration`, `IndexSchema` |
| collector | `gc/`, `repository.rs` | none of its own | candidate query, protection, deletion in rank order | `StoreIndex`, `GraphVolume`, `ArtifactStore` |
| install | `cli/install.rs` | plan, lock, `node_modules` | choose a route, reuse, resolve, fetch, finalize, recover, global installs | `InstallRoutes`, `FetchPipeline`, `GraphVolume`, `StoreIndex`, `ProjectView`, `GlobalInstall` |
| resolver | `resolver/`, `async_resolver.rs` | nodes placed so far, flights, caches of git sources | placement, peers, overrides, prefetch, sources | `Placement`, `AsyncResolver`, `SourceCache` |
| locks and identities | `lockfile.rs`, `npm_lock.rs`, `pnpm_lock.rs`, `yarn_lock.rs`, `hoist.rs`, `graph.rs` | lock files | import, export, read, upgrade, prune, digest | `LockImport`, `LockFormat`, `GraphIdentity` |
| manifest transactions | `manifest_edit.rs`, `cli/mutate.rs`, `project_lock.rs` | `package.json`, the lock, spool files, the guard | prepare, publish, roll back | `Project` |
| developer links | `link_store.rs`, `cli/link.rs` | links by name, scope directories | register, unregister | `LinkStore` |
| registry client, HTTP | `registry/`, `http/`, `metadata_cache.rs` | in-flight table, prefetch pool, disk cache | fetch metadata, share one request, retry, redirect, write commands | `RegistryClient`, `RegistryControl`, `HttpClient` |
| configuration, patches, resolution cache | `config.rs`, `patch.rs`, `resolution_cache.rs` | files | load, authorize; apply; store and replay | `NpmConfig`, `Patch`, `InstallRoutes` |

Not modelled: local commands, benchmarks (section 6).

### How they interact

An install first picks a route (`InstallRoutes`): a plan it can reuse, a lock
that still fits the manifest, a cached resolution, or one of four combinations of
resolver and pipeline.  The resolver (`Placement`, or the same computation as
suspended tasks in `AsyncResolver`) announces packages to the fetch pipeline
(`FetchPipeline`), whose workers put archives and images into the store
(`ArtifactStore`) and clone them into a staging tree (`VolumeStager`).
`finalize_install` (`GraphVolume`) leases the objects in a helper thread while
the main thread ensures the volume, runs scripts in the staging tree
(`Lifecycle`), publishes by a rename, and attaches the project's view
(`ProjectView`) while the helper records the graph in the index (`StoreIndex`).
At the end the project is registered (`ProjectRegistration`).

The collector repairs the index, selects candidates, and for each takes its lock,
asks again whether it is protected, unlinks it and deletes its row.  File system
and index are two stores: nothing commits to both.  Object locks, the graph lock,
leases and references are what keeps them together.

Mutations (`Project`) edit the manifest, resolve, publish manifest and lock one
after the other under a guard, and install; they roll back when the second
publication fails.

### Which behaviours are hard

- The order of lock files, inside `acquire_all` and across the threads of an install.
- Decisions taken before a lock, an await or a process's death and used after it:
  the reuse check, the collector's candidates, stale rows, plans, cached bodies.
- `remove_dir_all` and `fs::write` are not atomic; markers survive part of a removal.
- A crash anywhere: lease rows outlive their owner, locks do not.
- Bounded channels, permits and slots between stages of which any may fail.
- Lost and late answers of a registry, and what may be repeated.
- Algorithms over graphs with cycles: placement, peers, hoisting, pruning, digests.

`PROJECT.json` lists each as a hazard at the line where it bites.

## 2. Modules

A module stands for one component.  Its comment at the top says what the state
stands for.  The main correspondences:

| module | state | actions or operators, and their code |
|---|---|---|
| `AtomicLocks`, `StoreLocks` | who holds and wants which keys | `Call`, `Acquire` (one lock file, smallest key first), `Abort`, `Release`; `StoreLocks` refines `AtomicLocks` |
| `GraphVolume` | one volume (`absent`, `whole`, `hollow`, `ruin`), its lock, the two threads of each install, leases, views, a collector | main thread `Open` ... `Finalize`, helper `LeaseLock` ... `ExtendVerify`, collector `GcChoose` ... `GcDies` |
| `ProjectView` | the project's tree, the volumes' trees, plan, registered graph | `AttachLocal`, relays and copies, `MakeReal`, `Reconcile`, user edits, crashes |
| `VolumeStager` | the stager's own record and the real tree | `Stage`, `Drain`, `Finish`, `Usable` |
| `Materializer`, `TreeLink` | paths of a tree being filled by threads; one package's files | `Waves`, three steps per package, `LinkBins`, overlays; reflink, copy and hard-link fallbacks |
| `StoreIndex` | file system, registration files, lock files; rows, edges, leases, references, access log | install `Refresh` ... `SetRef`, `Crash`, `Expire`; collector `Scan*` ... `Delete`; `Age` |
| `LeaseHeartbeat` | rows with their expiry on a clock, what the guard believes | insert, ask for a renewal, renew, miss, repair, `Judge`, `check` |
| `ProjectRegistration` | registration files, references, observation times | register, set reference, lose and rebuild the index |
| `IndexSchema` | version and objects of the database, connections | read version, migrate, verify |
| `ArtifactStore` | archives, images with sidecars, scratch files, locks | the steps of `ensure_artifact*` and `ensure_image`, the collector, crashes |
| `Archive` | operators | `extract` with limits and root detection; encoding and decoding of an image index |
| `Lifecycle` | staged trees, store images, derived images, their locks | `Look`, `Lock`, `Isolate`, `Finish`, `AttachDerived` and `CopyFile`, failures, kills; the collector's `Collect` and `RemoveFile` |
| `FetchPipeline` | channels, workers, governor, overflow | `Emit`, `Prefetch`, `Receive`, `AcquireSlot`, `Fetched`, `Send`, `Take`, `Extracted`, `StageNext`, `Join` |
| `Placement` | operators | `ResolveManifest` with `ResolveDependency`, `FindVisible`, `PlaceNode`, `BindPeerContext`; `NormalizeRootOverrides` |
| `AsyncResolver` | a stack of frames, prefetch tasks, flights, permits, cache | `Run`, `Fetch`, `Answer`, `Post`, `Proceed` |
| `SourceCache` | three caches with nested locks, scratch, a remote branch | steps of `resolve_git_source`, kills |
| `LockImport`, `LockFormat` | operators | yarn and pnpm hoisting; npm import, export, reading; named upgrade, platform pruning |
| `GraphIdentity` | operators | encodings behind graph ids, plan ids, closure digests and digests of derived trees |
| `RegistryClient` | slots of packages, prefetch pool, batch, disk cache | `Lookup`, `Claim`, `ReadCache`, `Parsed`, `Finish`, `Receive`, `Lookahead`, `DropPool` |
| `RegistryControl` | the registry, commands of maintainers, late requests | one request per attempt, `Settle`; the network loses and delays |
| `HttpClient`, `NpmConfig` | operators | one call against a script of answers; layers of npmrc and token scopes |
| `InstallRoutes` | operators on project and store | `Run` and its routes, `Rebuild`, `FinalizeInstall`, the resolution cache |
| `Project`, `LinkStore` | manifests, locks, spool files, guard, view; links | add, remove, upgrade, dedupe, link, install, ci, import, the user's saves; register, unregister |
| `GlobalInstall`, `Patch` | bin directory; operators | fetch, link bins; parse and apply a diff |
| `MC*` | | instances; some compose components that do not share state, so that one run looks at several (`part`, `world`, `scenario` picks one at the start) |
| `*Proofs` | | theorems and their proofs |

### Notes on faithfulness

- *GraphVolume.*  `hollow` is what `current_meta` cannot see: it reads the marker
  and the top-level names.  A removal goes through `hollow` to `absent` and can be
  cut short.
- *StoreIndex.*  A step changes the file system or commits one transaction; the
  one exception is the code's own: `collect` unlinks inside a transaction, and
  `Delete` has an outcome in which the file is gone and the transaction rolled
  back.  Time is two-valued (before and after the grace cutoff); `LeaseHeartbeat`
  has the clock.  The policy's arithmetic is a free choice of candidates.
- *LeaseHeartbeat.*  The clock is read before a transaction that may wait for the
  index up to `BUSY_TIMEOUT` (`BusyWait`, all the waits of one access), so rows are
  inserted and renewed from a time that is past, and `lost` is judged by it.  A row
  may hence be expired and unnoticed for a renewal period and three waits, and no
  less (`LossNoticed`).  That one failed renewal loses nothing (`OneMissTolerated`)
  is stated for waits below a quarter of the period (`Prompt`), as the defaults' 5 s
  and 30 s are: nothing in `validate_lease_options` relates the two.
- *FetchPipeline.*  Latency is not modelled: after a success the limit may stay,
  be halved down to the floor, or grow.  Workers do not panic.
- *AsyncResolver* is judged against `Placement`: both translate their own source,
  and `MatchesBlocking` compares graphs, flags, peers and failures.  A source
  (directory, tarball, git, patch) can be read or not, in both alike, and is read in
  one step: `SourceCache` has its steps.
- *Archive.*  Paths are opened as the system opens them: links on the way are followed.
  `EntryPool` has a link to a directory and a file packed below it.
- *InstallRoutes.*  What reconciliation and plan writing, which run side by side,
  leave when either fails or the process dies is a choice of the faults; `ProjectView`
  has their steps.
- *Operators* are translated from the code with its order and its early returns;
  the definitions they are compared with (in the same module, below the line)
  are written independently: Node's look-up for placements, sets of versions for
  ranges, the edit itself for diffs, and so on.
- *Digests* are modelled by their input; *bytes* by small numbers; *paths* by
  sequences of components.
- *Lifecycle.*  A derived image has one file per script that wrote to it; a copy and
  a removal take them one by one.  Removals hold the write transaction of the
  index, so one goes on at a time.
- *Project.*  Renames and writes may fail and processes may be killed between any
  two steps; the user may save either file at any time.

Definitions whose comment begins with "Mutant" are deliberate errors in the
operator that follows.  A property is kept only if such an error violates it.
Where a property is a conjunction, each part has a mutant of its own; the parts
and the mutants `PROJECT.json` does not name are in section 3.

## 3. Runs

| run | instance | shows |
|---|---|---|
| `locks` | 3 callers, 3 keys, fair | taking files one by one refines taking them at once, cannot deadlock, every call that does not fail returns |
| `volume` | 3 scriptless installs and 2 collections of one graph; one project moving between 3 graphs with 3 installs, one crash, one user edit | no reported success has an incomplete view; the view is the graph's, user entries stay, volumes are not written |
| `scripts` | 2 passes over 4 packages, 7 kinds of pass, 1 failure or kill, 1 collector; 2 scripted installs beside 2 collections, beside 1 that may be killed, or without collector and fair | images stay pristine, derived results are as if run, everything ends |
| `index` | 2 installs, 2 projects (one copied with its plan), 2 graphs sharing an artifact, 1 collection of any subset that may be killed | live leases are honoured; installed projects keep graph and inputs |
| `streaming` | 2 nested packages, 1 hint, 2 downloaders, 2 extractors, channels of one slot; 7 small worlds for the resolver and 12 with a source dependency (readable or not, patched or not), 2 permits, 1 failing request | outcomes are exact, adopted trees whole, the asynchronous graph is the blocking one except where a `patch:` dependency stops it, all ends |
| `store` | 2 processes, 1 archive, 3 calls, 1 crash, 1 collection | the store is content-addressed, a trusted image whole, no scratch left by what sources answer, calls return |
| `registry` | 1 caller, 1 batch, 1 prefetch worker, 2 packages in a cycle, 2 attempts; 2 maintainers with 2 commands each, 1 retry | one owner per flight, nothing stale served, commands took effect, tokens minted once, all ends |
| `operations` | 23 families of bounded inputs | the operators compute what their references say |
| `project` | 2 processes with 2 commands, 1 save, 2 faults; 2 link processes with 4 commands | manifest, lock and view agree, no edit lost, roll back exact, commands end |
| `metadata` | 3 connections; a clock to 26 with waits of 1; 2 projects, 4 registrations, 1 loss; 2 threads; 2 resolvers, 1 kill; 3 global installs | schema, leases, ownership, trees, sources and bins |
| `volume_stuck` | 2 installs, 1 collection, fair | violation: an install that waits for itself |
| `upgrade` | all pairs of small locks | violation: a merged lock with an edge that leads nowhere |

Conjunctions and their parts:

| property | parts (mutant of the part) |
|---|---|
| `ViewServesGraph` | `PublishedPackagesKept` (`MakeRealNot`), `StaleEntriesGone` (`ReconcileTop`), `PlanHitServesGraph` (`AttachLocalOnce`) |
| `DerivedAsIfRun` | `DerivedComplete` (`FinishEarly`), `EntriesAsIfRun` (`ValidatePublishedAny`), `DerivedPathsAgree` (`ReadScriptsAll`) |
| `ScriptedInstallsSound` | `ScriptsRan` (`ServesAnyPolicy`), `PublishersHoldFullLease` (`OpenIgnoringPolicy`) |
| `ScriptsEnd` | passes (`ScriptFailsHolding`), installs (`RecheckKeepsLock`) |
| `OutcomesExact` | `FailuresAreReal` (`FetchedHintsCount`), `NothingDropped` (`EmitLossy`) |
| `ResolutionMatches` | `MatchesBlocking` (`LoopDeaf`), `FailuresAreReal` (`ProceedAny`), `RequestsBounded` (`FetchUnbounded`) |
| `StreamingEnds` | pipeline (`FetchedLeakingSlot`), resolver (`PostOkOnly`) |
| `ArchivesSound` | `ArchivesVerified` (`RemoteFetchTrusting`), `DownloadsExclusive` (`LockArtifactUnlocked`), `NoScratchLeft` (`DownloadLittering`) |
| `CommandsSound` | `SuccessTookEffect` (`SettleHopeful`), `MintedOnce` (`TriesAll`), `ReadsOwnWrites` (`ReadRegistryOwn`) |
| `RegistryEnds` | client (`FinishSilently`), commands (`SettleRetrying`) |
| `ResolutionSound` | `TargetsSatisfyRequests` (`FindVisibleNearest`), `PeersHold` (`BindPeerContextSkipping`), `NothingExtraneous` (`PlaceNodeEager`), `OmitDevKeepsRuntime` (`ProjectLockfileOmittingDevByFlag`), `RangesIntersectExact` (`RangesIntersectBounds`), `OverridesRespectRoot` (`AddRuleAnyReference`) |
| `LocksFaithful` | `EveryEdgeExact` (`PlaceOutermost`), `ImportReadable` (`AliasNamesAll`), `ExportInverse` (`ExportEntryPlain`), `FilledIntegrityRight` (`FillIntegrityByName`), `UpgradeMovesSelection` (`LockClosureRoots`), `NothingNeededPruned` (`UnreachableByOne`) |
| `PackagesExact` | `ImageIsArchive` (`DetectCountingHeaders`), `ImageWithinBudget` (`PlaceUncharged`), `TornIndexRefused` (`DecodeEntriesLax`), `ViewIsolated` (`ReflinkOrHardlinkFile`), `CorruptIndexKeepsView` (`BadIndexAfterRemoval`), `PatchExact` (`HunkIndexPlain`), `HitIsWhatWasPublished` (`HashEntryFiles`) |
| `RequestsSafe` | `GetEnds` (`FollowForgetting`), `MutationSentOnce` (`JsonAttemptsTwice`), `DelayWithinBounds` (`RetryDelayUnclamped`), `TokenListComplete` (`ListTokensAnywhere`), `TokenScopeExact` (`ParseAuthScopeAsWritten`), `LoadExact` (`LoadPathsEach`) |
| `IdentityExact` | `SameIdSameTree` (`AppendInstallProfileOnce`), `ClosureDigestExact` (`ClosureDigestOnce`) |
| `RoutesAgree` | `RowsAgree` (`RunStreamingInstallAfresh`), `RetryHeals` (`FinalizeInstallPlanFirst`), `OmittedDevNeverFetched` (`RebuildWhole`), `OfflineReplays` (`KeyForAnyone`) |
| `ProjectConsistent` | `QuietPairAgrees` (`FoundLaxly`), `ViewIsLock` (`PublishManifestReleasing`), `NoLostEdit` (`AddDependencyAfresh`) |
| `IndexSound` | `OpenedSchemaWhole` (`VerifyTables`), `OneMissTolerated` (`ValidOptionsTwice`), `LossNoticed` (`JudgeHopeful`), `OwnerSurvives` (`CurrentByRef`) |
| `TreesAndBinsSound` | `TreeComplete` (`WavesOfTwo`), `BinsFirstDeclared` (`LinkBinsOver`), `LinkedBinsStay` (`SymlinkBinClearing`) |
| `SourcesSound` | `SourceWhole` (`CheckTreePresence`), `ScratchPrivate` (`GiveUpSourceLeaving`) |

### Bounds, and why they are enough to be interesting

Lock circles need two callers and two keys; three of each allow a circle of
three.  Every race found around a volume has at most two installs and one
collection; more let a volume be built, collected, built again and collected
again under a reader.  In the index the interesting object is one that two graphs
share while one is leased, the other referenced, and the collector between its
selection and its lock.  In the pipeline, channels of one slot make every send
meet a full channel, and two workers per stage reorder any two packages;
`Floor = 1` (4 in the code) lets the governor shrink with two workers.  A view
needs three graphs for a stale entry of a stale entry, a scope with a live
member, and a name that is a link in one graph and a package in another.  A pass
over scripts needs a package with two scripts (a kill between them), one that is
not placed, one that only has `prepare` and one that was not fetched.  Two
processes and one crash reach every pair of steps of `ensure_image`.  The operator
families are chosen so that each branch of the code is taken: cycles, conflicting
versions, optional and dev roots, peers that need two rounds of repair, members
that the root may shadow; locks with nested copies, aliases and links; scripts of
six answers for two attempts of two redirects; edits of up to four lines.

Named bounds: `MaxGc`, `MaxCalls`, `MaxCrashes`, `MaxCollections`, `MaxFaults`,
`MaxTroubles`, `MaxEdits`, `MaxCommands`, `MaxUnguarded`, `MaxLinks`, `MaxInstalls`, `MaxTime`, `BusyWait`,
`SymlinkLimit`, `MaxRegs`, `MaxLosses`, `MaxMoves`, `MaxKills`, `MaxDepth`, `MaxRevision`,
`Attempts`, `Retries`, `MaxHops`, `NumKeys`, `UnitCap`, `HandoffCap`, `Floor`, `Fuel`, and the
finite sets of actors, objects and names.

Deadlock checking is off where the system may stop (commands end);
`NoDeadlock` and the properties whose names end in `End`, `Ends` or `Returns` say
what is meant instead.

### Fairness

- `StoreLocks`, `GraphVolume`, `Lifecycle`: a caller waiting for a lock file is
  served if the file is free again and again (strong fairness; `flock` queues its
  waiters); threads run, and a collector goes on with a removal it began.  Errors, kills and new calls are never owed.
- `FetchPipeline`, `AsyncResolver`, `RegistryClient`, `RegistryControl`: each thread
  or task goes on when it can (weak fairness).  Requests end because the HTTP
  client has time-outs; hints and look-ahead are never owed, waking sleepers is
  `notify_all` itself and not fairness.
- `ArtifactStore`, `Project`, `SourceCache`: a process that can go on does.  git
  itself is assumed to end; the code gives it no time-out.
- The other modules are checked for safety only.

## 4. Findings

Two runs are violations; `PROJECT.json` quotes both sides.

1. `volume_stuck`: if a volume is collected between the reuse check and `ensure`,
   the install builds it while its lease thread, started for reuse, waits for the
   graph lock that the main thread holds; the main thread joins that thread.
2. `upgrade`: `selective_upgrade_lock` drops the whole old closure of the
   selection, also what a package that stays still requires.

More disagreements with comments of the repository were met while modelling.
Their claims are definitions of the modules and can be checked with the constants
named here; they are not runs.

| claim (module) | where it fails | how to see it |
|---|---|---|
| `InstalledViewIntact` (GraphVolume) | `volume.rs:631`: a scripted install replaces a scriptless volume that others have attached | one install in `Scripted`, one not, `MaxGc = 0` |
| `InstalledViewIntact` (GraphVolume) | `volume.rs:592`: a killed collector leaves a marker over a tree with holes | `GcMayDie = TRUE` |
| `InstalledViewIntact` (GraphVolume) | `metadata/repository.rs:1118`: the collector does not look at the age again under the lock, so a volume rebuilt since it was chosen is removed before its lease is extended; a third install publishes it again and the second reports a view with holes | all installs in `Scripted`, an old scriptless volume; or `GraceZero = TRUE` |
| `FreshObjectsKept` (StoreIndex) | `metadata/repository.rs:998`: `collect` leaves the access-log row of what it deletes | one install, two collections |
| `InstalledGraphPresent` (StoreIndex) | `cli/install.rs:434`: a failed refresh removes a volume that another project uses | both installs on one graph, one project copied |
| `InstalledGraphPresent` (StoreIndex) | `metadata/repository.rs:1118`: nothing keeps two collections apart. One selects an old volume; the other died after unlinking it, and its next repair sees the row without the volume; an install publishes and references it; the repair drops reference and row, and the first deletes it | two collectors, `GcMayDie = TRUE` |
| `InstalledGraphPresent` (StoreIndex) | `metadata/repository.rs:1636`: two installs of one project, which take no guard, end with the view of one graph and the reference of the other; the first graph is collected | both installs in one project |
| `AdoptedTreeWhole` (FetchPipeline) | `volume.rs:864`: packages below a workspace link are cloned in order of arrival | `Above` with a path outside `Units` |
| `DormantOnCacheHits` (FetchPipeline) | `cli/install.rs:1721`: `image.cached` is passed where `fresh` is expected | constants of `streaming` |
| `TrustedImageUsable` (ArtifactStore) | `store.rs:513`: a torn index is trusted, and `repository.rs:1127` removes the image without its sidecars | constants of `store` |
| `ScratchAlwaysRemoved` (ArtifactStore) | `store.rs:597`, `store.rs:561`: when the directory of the target cannot be made the scratch file or tree stays; so does a remote hit that cannot be hashed (`store.rs:290`) and a patch that cannot be written; nothing sweeps `tmp/` | constants of `store` |
| `SameIdSameImages` (MCOperations) | `graph.rs:267`, `cli/install.rs:2801`: a graph id does not cover patches | family `identity` |
| `FilledIntegrityAlwaysRight`, `ExportKeepsAliases` | `npm_lock.rs:484`, `npm_lock.rs:575` | family `npm` |
| `NothingNeededPruned` | `npm_lock.rs:459`, `cli/install.rs:2945`: a lock that records only part of the edges | family `partly` |
| `RequiredPathsComplete`, `BacktrackingStaysInRange` | `resolver/platform.rs:57`, `resolver/placement.rs:225` | families `plain`, `peers` |
| `NotMislabeled`, `AliasesKeepEdges` | `yarn_lock.rs:322`, `pnpm_lock.rs:505` | families `yarn`, `pnpm` |
| `PatchExact` | `patch.rs:241`: a diff without context inserts one line early | family `bare` |
| `AnyTextRemoved` (Patch) | `patch.rs:152`: a removed line whose text starts with `-- ` is read as the header of a file; the diff is refused, or, with an added `++ ` line right after it, its rest is taken for another file's | family `patch` |
| `LinksNotWrittenThrough` (Archive) | `archive.rs:297`, `archive.rs:363`: an entry packed below a link is written where the link leads, over another entry in `EntryPool`; `archive.rs:636` follows no link, so its verdict says nothing about such a path, also not that it stays below the root, which `archive.rs:12` promises | family `archive` |
| `MembersInvalidate` (MCOperations) | `volume.rs:690`, `graph.rs:267`: a linked member's files are copied into the volume and neither id covers them or where the link leads, although `graph.rs:416` says a changed workspace invalidates plan and volume | family `identity` |
| `SuccessMeansReconciled` (InstallRoutes) | `cli/install.rs:2730`: an error of the reconciliation is dropped where the comment above says "Propagate filesystem errors"; the plan written beside it no longer owns the entries that stay, so no later run removes them | family `routes` |
| `AllRowsAgree` (InstallRoutes) | as `LocksIdentical`: with a `patch:` dependency only the rows with the blocking resolver install | family `routes` |
| `StoreFailuresDegrade` (Lifecycle) | `lifecycle.rs:371` | constants of `scripts` |
| `AttachedWhole` (Lifecycle) | `lifecycle.rs:471`: a hit is copied after `ensure` gave its lock up, and `metadata/repository.rs:1118` asks under the lock neither for the age nor for the use of an image, so one that is being removed can be copied in part | constants of `scripts` |
| `VolumesNeverWritten` (ProjectView) | `volume.rs:1417`: reconciliation through a relay removes entries of the volume's own directories | constants of `volume` |
| `InlineRefetches` (AsyncResolver) | `async_resolver.rs:1323`: a waiter on a failed prefetch gets its error, although line 879 says it is fetched again | constants of `streaming` |
| `LocksIdentical` (AsyncResolver) | `async_resolver.rs:1707`, `resolver/sources.rs:88`: the asynchronous resolver refuses every `patch:` dependency, which `resolver/placement.rs:410` resolves, although `cli/install.rs:1850` promises the same lock from both | constants of `streaming` |
| `FailureLeavesOneVersion` (IndexSchema) | `metadata/schema.rs:286` | constants of `metadata` |
| `OwnerSurvives` (ProjectRegistration) | `metadata/repository.rs:1735`: two registrations in one millisecond | `SameMs = TRUE` |
| `TreeComplete` (Materializer) | `lifecycle.rs:818` (fully parallel strategy), `volume.rs:715` (members in scopes) | `Strategies = {"fully parallel"}`, `Layouts <- ScopedLayouts` |
| `ArchiveIsItsCommit` (SourceCache) | `resolver/sources.rs:427`: the archive is fetched by the branch's name | constants of `metadata` |
| `LockNeverTorn` (Project) | `lockfile.rs:352` | constants of `project` |
| `RefusedMeansUnchanged`, `ScopedReadsOwnWrites` (RegistryControl) | `http/mod.rs:189`: a repeated publish is refused for its own first attempt; `registry/mod.rs:837`: tags of scoped packages are written and read at different registries | constants of `registry` |

So some properties name an exception, and say what holds there instead: a `patch:`
dependency (`ResolutionMatches`, `RoutesAgree`), entries packed below a link and removed
lines that read like a header (`PackagesExact`), different contents of linked members
(`IdentityExact`), a reconciliation cut short (`RoutesAgree`), a directory that cannot be
made (`ArchivesSound`), an image copied while it is collected (`DerivedAsIfRun`).

And the passing runs assume: installs of a graph agree on `--ignore-scripts`
(`volume`, `scripts`), nothing is collected during an install (the liveness part
of `scripts`), each project has its own graph and a grace period is in force
(`index`), packages are nested in packages (`streaming`).

Observed, without a property:

- An import does not end when conflicting versions form a cycle (`hoist.rs:72`).
- Multi-file git diffs are refused, an empty line in a hunk panics, a file without
  a final newline never matches (`patch.rs:148-169`).
- An unreadable `package.json` is not drift although `cli/install.rs:1143` says so;
  drift of a member's manifest is never seen.
- `install` and `import` take no guard despite `cli/mutate.rs:168`.
- A workspace project's plan never hits: `cli/install.rs:2707` and `volume.rs:580`
  compute different ids.
- A torn plan file makes every later install fail; the plan's temporary name is
  the same for all processes.
- Repair deletes live lease rows, and the heartbeat renews the rest without
  noticing (`metadata/repository.rs:1466`).
- Global installs leave their image without a reference, so a collection leaves
  dangling bins; `link_bin` removes a user's own file.
- Concurrent installs of one project can end with a reference to the other's graph.
- Contents are hashed without their length in a derived tree (`derived/store.rs:545`).

## 5. Proofs

Proved for every value of the constants that satisfies the named assumptions.

**`MachineProofs`** is about what the processes on one machine share.  Of the lock
files (assumes `NumKeysAssumption`: `NumKeys` is a natural number; any set of
callers), the inductive invariant is `TypeOK`, which of `todo` and `held` is
empty in which state (`Shape`), `WaitsUpward` (a caller waits only for keys above
those it holds) and mutual exclusion.

- `TypeCorrect`, `Exclusion`.
- `DeadlockFreedom`: take the greatest key somebody waits for; whoever holds it
  waits for nothing, or for a greater key.
- `AcquireAllIsAtomic`: the last `Acquire` of a list maps to taking the set, an
  earlier one and `Abort` to stuttering; that the set is free at that moment is
  mutual exclusion.

Of the index and the sources (assumes `LeaseAssumption`: lease options are pairs of
numbers, also ones that `validate` refuses; `RegistrationAssumption`,
`SourceAssumption`: the marks for nothing and nobody are none of the real things), for
any number of connections, keys, projects, graphs and resolvers:

- `IndexStaysSound` (`IndexSound`) under the hypothesis `~SameMs`, that no two
  registrations fall into one millisecond: with it allowed, the older of two
  may win (section 4, `OwnerSurvives`).  Nothing drops an object of the schema, so
  what `verify` saw stays (`SchemaInv`).  For leases the invariant relates the clock,
  the rows and what the heartbeat knows: the expiry it knows is at most a wait later
  than that of any row, and how far away its next renewal can be follows from the
  renewals it has missed (`LeaseInv`; that one miss is tolerated then needs the
  bound on the period that `ValidOptions` checks, and waits below a quarter of it).
  For registrations no record, in a temporary file, a file or a row, is of the future, so the row that
  `finalize_project` commits is later than any that a rebuild could restore
  (`RegistrationInv`).
- `SourcesStaySound` (`SourcesSound`): no readable result is ever replaced, only the
  holder of its lock puts an archive where one was missing, what is cached is of
  its key while the branch stays, and scratch is in use only where it is about to be
  published (`SourceInv`).

**`StoreIndexProofs`** (assumes `ConfigAssumption`: the constants have their
types, installs and collectors are different processes).

- `TypeCorrect`.
- `LeasesHonoured`: whatever an unexpired lease row names, other than a graph, is
  in the store.  This is not inductive alone: between `Verify` and `Insert` no row
  protects the object.  What does is its lock.  So the invariant adds `LocksHeld`
  (an install between taking its locks and giving them back holds all of them) and
  `VerifiedPresent` (what it verified is still there when it inserts).  The only
  step that unlinks an input is `Delete`, which holds the lock and asks the index
  again.
- `InstalledGraphsStay` (`InstalledGraphPresent`) and `InstalledInputsStay`
  (`InstalledInputsKept`, with a grace period) under the hypothesis `OneEach`: the
  installs are of different projects and graphs, and there is one collector.  Each
  part is needed: section 4 has the three counterexamples.  Graphs may
  share inputs, and another project may have had the graph from the start.  That
  an installed graph is referenced is not invariant: a repair that looked before
  its publication may drop reference and row.  Then the collector has not
  selected the graph, cannot, as it has no row, and its next repair finds it
  (`Spared`, in `InstalledKept`).  To know which repairs can do that, the invariant
  (`KInv`) follows what a collector has observed and takes for missing
  (`CollectorShape`, `StaleGraphs`), and what an install may rely on at each of its
  steps (`ReusePresent`, `RecordedPresent`).

**`ArtifactStoreProofs`** (assumes `StoreAssumption`: the processes, the contents,
the collector and `NoOne` are different things, and the bounds are natural
numbers).  For any number of processes, contents, calls, kills and collections:

- `TypeCorrect`.
- `ContentAddressed` (`ArchivesSound`): whatever the origin and the remote cache
  answer, an archive is what its name says.  That needs to know what is in a
  scratch file at which step (`ScratchFits`: verified before it is published), and
  which call can be at which step (`StepsFit`).  That two downloads of an archive
  exclude one another needs `LocksHeld`, in both directions: who is at which step
  holds which lock, and who holds a lock is at one of these steps.  Scratch stays
  only after a call that ended for a file or directory of its own before the rename
  (the result `io`); removing scratch is assumed to succeed.
- `TrustIsEnough` (`TrustedImageWhole`): not inductive, because it speaks of images
  nobody works on.  `VersionVouches` says it of all images but the one a collector is
  removing; `ImageWork` says what a process has seen or made of the image whose
  lock it holds.  An image changes only under its lock (`ImageFrame`), so the other
  processes' knowledge stays true.  The exception for an image whose collector
  was killed is the code's: it removes the directory in place and the version file
  not at all (section 4, `TrustedImageUsable`).

**`RegistryClientProofs`** (assumes `ClientAssumption`: threads of different roles
are different, keys are natural numbers, dependencies are keys).  For any number of
callers, workers, packages, any dependency graph and any depth of the batch:

- `TypeCorrect`.
- `OneOwner` (`OneOwnerPerFlight`): the property counts the owners of a slot; the
  inductive form does not count.  It says that what is owned is in flight
  (`OwnedInFlight`), that what is in flight is owned (`FlightOwned`), and that no two
  of thread and queue position own the same slot (`OwnersDiffer`).  Ownership
  moves in five ways, one lemma each: `Keep`, `Take`, `Settle`, `QueueUp`, `Dequeue`;
  an action's proof names the way.
- `Revalidated` (`ServedIsRevalidated`): a body on its way (in a slot, in a thread
  that will settle one, with a caller) is confirmed by the registry or is known to be
  garbage or a failure (`BodiesFit`).

For the commands that write (assumes `ControlAssumption`: programs are sequences of
commands, `Retries` is a natural number), any number of maintainers, any programs:

- `CommandsStaySound` (`CommandsSound`): a request may be carried out now, later or
  never, whatever its client was told.  So the invariant (`ControlInv`) speaks of what the
  registry did and what is still on its way: nothing of a command before its turn, and nothing
  of a token's creation before its only attempt (`UnsentBefore`); what each outcome
  says of both (`OutcomesTrue`); and that nobody else's late request moves a tag only its
  owner writes (`TagSet`).

**`FetchPipelineProofs`** (assumes `PipelineAssumption`).  For any set of packages
and hints, any finite numbers of workers and any sizes of the channels:

- `Outcomes` (`OutcomesExact`): until an extractor gives up, every package is
  somewhere, in one of seven places from the resolver's list to the outcomes
  (`NothingLost`); a stage ends only after the one before it and with nothing left
  to take (`Drained`); a failure that was met is on its way or reported, and none
  is invented (`FaultsSeen`, `FaultsReal`).  At `Join` all places but the last are
  empty.
- `GovernorExact`: the counter of the download governor is the number of downloads
  under way, so slots are neither leaked nor invented while the limit moves.  No run
  states it; `StreamingEnds` would notice a leak.

- `AdoptedTreesWhole` (`AdoptedTreeWhole`) under the hypothesis `AncestorsPlaced`: all
  package paths above a placed package are placed packages.  Below a
  workspace link it fails (section 4).  Cloning a package removes what is nested
  in it, so a package cloned twice, or after its own descendants, leaves holes.  The
  first needs that nothing is on its way twice: a package is in one of the seven
  places, and there once (`NothingTwice`), so that the stager is handed every outcome
  once (`HandedOnce`).  The second is `Ordered`: no package is in the tree before those
  around it.  That nobody is left waiting when all have arrived is `NobodyStuck`: among the
  waiters take one with the fewest ancestors; all of them are in the tree, so its
  turn has come, but `drain` stops only when nobody's has (`Drains`).  Hence `finish`,
  which clones without looking, has nothing to clone.

The first two say nothing of the stager, which hangs on the end of the pipeline and
gives nothing back.  The loops of `drain` are recursive functions over the turns of
the loop.  `Runs` shows that such a function exists, `Climb` proves a fact of every turn
by taking the first turn for which it fails.

**`GraphVolumeProofs`** (assumes `PolicyAssumption`).  For any number of installs and
collections:

- `ViewsIntact` (`InstalledViewIntact`) under the hypothesis `Agreed`: the installs
  agree on scripts, and the volume that was found fits them; the collector has a
  grace period and is not killed while it removes.  Each part is needed,
  and TLC finds the counterexamples of section 4: a scripted install replaces the
  scriptless volume others are copying; a killed collector leaves a marker over a
  tree with holes, which is reused; and a collector that chose the old volume, or
  any with no grace period, removes a fresh one between its publication and the
  extension of its lease.  The run `volume` has the same hypothesis.
  The invariant says that only a volume that was old when the collector
  looked is ever collected (`OnlyOldCollected`), that who found the old volume
  leases it before it attaches (`OldReused`), that a row protects (`Protected`), and
  who is where while the lock is held (`LocksHeld`).
- `AllScriptsRan` (`ScriptsRan`) needs nothing of that, only that all installs run
  scripts: what one of them was served or has published has run them, and no step
  of anybody turns it into a volume without (`ScriptInv`).
- `PublishersLeaseInputs` (`PublishersHoldFullLease`) under `Agreed`, beside the
  collector: one that meant to reuse the volume and got its lease keeps the volume
  from being collected, so it does not build; one that did not get it may build
  when the volume is gone, but never passes the join of its lease thread, which is
  finding 1.  Who passes has decided against reuse and leased the inputs.

**`ProjectProofs`** (assumes `LinkAssumption`: `NoTarget` is not a directory that
registers itself; `ProjectAssumption`: commands and saves are of the kinds the code
has).  For any number of linkers, names, scopes and commands:

- `ScopesExact` (`ScopesHoldLinks`): the property speaks of moments without a running
  command.  The invariant says for every moment that each link is in a directory
  that exists, which `remove_dir` guards by refusing a directory that is not empty,
  and that an empty directory is answered for by a linker that will fill or
  prune it.  A linker about to remove a link does not count: it may find the link gone
  and end there, and then it is the one that removed it who prunes.

For any number of processes, commands, packages, saves by hand, faults and kills:

- `ProjectStaysConsistent` (`ProjectConsistent`) and `RollbacksExact` (`RolledBack`), from
  one invariant, `PInv`.  The guard orders the commands that take it, but `install`,
  `ci` and `import` do not, and an editor never does: of agreement and rollback
  something is promised only to a command that was alone since it began (`NoOverlap`).  Its
  files are those it began with, or what its rollback will make of them, and what
  it publishes was resolved from the manifest it leaves (`AloneFits`).  What a
  mutation is about to write differs from the manifest in its own name only
  (`EditsKept`).  What is owed holds while nobody is in between, and who is in
  between can go back to files for which it holds (`OwedHolds`).  The lock a
  command selected stays the selected one, since `package-lock.json` neither appears
  nor vanishes (`KindStays`).

**`LifecycleProofs`** (assumes `LockAssumption`, `JobsAssumption`: the lock is a list of
packages with lists of scripts, a pass is one of the modes of the code).  For any
lock file, any number of passes at a time, any environments, faults, kills and
collections:

- `TypeCorrect`, and `OneBuilder`: a pass holds the lock of a derived image exactly
  while it is inside `ensure` with that image's key.  No run states it; a lock that
  is kept makes `ScriptsEnd` fail.
- `ImagesUntouched` (`ImagesPristine`): the tree a script runs in is a copy
  (`Isolated`), at every step from `isolate_package` to the last script, so no mark
  goes through a hard link.
- `ScriptsAsIfRun` (`DerivedAsIfRun`): the property speaks of passes that are done.
  The invariant follows a pass through the lock file: the packages behind it are as
  if run and those ahead untouched (`EntriesInOrder`), paths are recorded up to where
  it is (`PathsInOrder`), the tree of its package bears the marks of the scripts that
  are over and none that is not due (`Isolated`), and each place of the code says
  which packages come there (`AtPackage`).  The middle one is weaker than one would
  expect: after a degraded `ensure` the scripts run in place over a tree that bears
  the marks of the build.  An attached image is read after the lock
  was given up, file by file.  What the copy meets is part of the marks of the key,
  whoever published or is removing it; that it meets all of them needs that no
  collector has begun since (`HitWhole`), which the history variable `raced` notes.
  The property makes that exception and no other; without it the claim
  `AttachedWhole` of section 4 fails.

The inductive invariants were checked with TLC on the runs' instances first.

Only model-checked:

- liveness (`EveryCallReturns`, `ScriptsEnd`, `StreamingEnds`, `RegistryEnds`,
  `CommandsEnd`, `SourcesEnd`), which is out of the prover's reach;
- what algorithms over whole graphs, locks and archives compute: `ResolutionMatches` and the
  properties of the run `operations`.  Their operators are recursive over the data
  (`Placement`, `LockImport`, `LockFormat`, `GraphIdentity`, `InstallRoutes` and
  others), which needs an induction the prover cannot do;
- `ViewServesGraph`, `UserEntriesKept` and `TreesAndBinsSound`: the writes of an attachment
  and of a reconciliation are folds over entries of which one may lead into the directory
  of another, and so are the bins of `Materializer` and `GlobalInstall`;
- `ScriptedInstallsSound` as such; it is a conjunction over two instances of `GraphVolume`,
  and its parts are proved for every instance (`AllScriptsRan`,
  `PublishersLeaseInputs`).

## 6. Not modelled

- Local commands (`cli/{exec,run,init,ls,why,args,fetch}.rs`, `doctor.rs`,
  `main.rs`): parsing, rendering and starting a child process.
- Benchmarks and metrics (`bench.rs`, `metrics.rs`, `parity_proxy.rs`).
- Read-only registry commands (`audit`, `view`, `outdated`).
- Text formats: tokenising of lock files and manifests, JSON, tar and gzip, URL
  building, version range parsing (a library's), environment substitution.
- The policy arithmetic of the collector: its candidates are any subset.
- `materializer/compatible.rs`, `resolver/prepare_graph.rs` (an install inside an
  install), `download.rs` beyond what `ArtifactStore` uses of it.
- Panics of threads, full disks other than as failing steps, clock jumps.
