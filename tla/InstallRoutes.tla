----------------------------- MODULE InstallRoutes -----------------------------
(***************************************************************************)
(* src/cli/install.rs: `run` picks one of the routes an install can take,  *)
(* from a lock, from a cached resolution or through one of the four rows   *)
(* of resolver and pipeline.  Every operator takes the state s of project  *)
(* and store to the state it leaves; an error leaves s as it is there and  *)
(* sets s.failed.                                                          *)
(*                                                                         *)
(* o holds the options, f the faults of this run.  A lock is the manifest  *)
(* it was resolved for and a set of packages; a plan is a graph id and the *)
(* entries it owns.  Placement, FetchPipeline, ProjectView and StoreIndex  *)
(* refine the steps that are single operators here.                        *)
(***************************************************************************)
EXTENDS Naturals, FiniteSets

None == [kind |-> "none"]
Torn == [kind |-> "torn"]

Stop(s) == [s EXCEPT !.failed = TRUE]
Guarded(s, ok, t) == IF s.failed THEN s ELSE IF ok THEN t ELSE Stop(s)

(* install_profile: the environment's production mode omits dev packages   *)
(* and marks a full tree built under it.                                   *)
InstallProfile(o) ==
    IF (o.omitDev \/ o.production) /\ ~o.includeDev THEN "dev omitted"
    ELSE IF o.production THEN "production full tree" ELSE "default"
OmitsDev(o) == InstallProfile(o) = "dev omitted"
-----------------------------------------------------------------------------
(* Mutant: one snapshot for all accounts. *)
KeyForAnyone(s, o) == <<s.manifest, o.legacyPeers>>

(* key_for: every input of the resolver that can change its result.        *)
KeyFor(s, o) == <<s.manifest, o.legacyPeers, o.account>>

Snapshots(s, key) == {x \in s.snapshots : x.kind = "json" /\ x.key = key}

(* load: a snapshot that cannot be read is a miss.                         *)
Load(s, key) == {x.lock : x \in Snapshots(s, key)} \ {Torn}

(* store: written beside its place and renamed into it; a failure leaves   *)
(* at most the temporary file and is only a warning to the caller.         *)
StoreSnapshot(s, key, lock, f) ==
    LET Of(kind, x) == [kind |-> kind, key |-> key, at |-> s.now, lock |-> x]
    IN  IF f.snapshot THEN [s EXCEPT !.snapshots = @ \cup {Of("tmp", Torn)}]
        ELSE [s EXCEPT !.snapshots = (@ \ Snapshots(s, key)) \cup {Of("json", lock)}]

(* prune_older_than: snapshots and abandoned temporaries of that age.      *)
PruneOlderThan(s, cutoff) ==
    [s EXCEPT !.snapshots = {x \in @ : x.kind \notin {"json", "tmp"} \/ x.at > cutoff}]
-----------------------------------------------------------------------------
(* What the registry gives for the resolver's inputs.  The asynchronous    *)
(* resolver gives nothing where a package comes by a patch: request, which *)
(* the blocking one resolves.                                              *)
Resolution(s, o) == s.registry[<<s.manifest, o.legacyPeers, o.account>>]
MeetsPatch(s, o) == Resolution(s, o) \cap s.patched # {}
Resolves(s, o, f) == Resolution(s, o) \cap f.unresolved = {} /\ ~(o.async /\ MeetsPatch(s, o))
LockFor(s, o) == [kind |-> "bpm", root |-> s.manifest, packages |-> Resolution(s, o)]

(* resolve_fresh_manifest_async: a whole resolution, then its snapshot.    *)
ResolveFreshManifest(s, o, f) ==
    Guarded(s, Resolves(s, o, f), StoreSnapshot(s, KeyFor(s, o), LockFor(s, o), f))

(* resolve_fresh_manifest_blocking                                         *)
ResolveFreshManifestBlocking(s, o, f) ==
    Guarded(s, Resolves(s, o, f), StoreSnapshot(s, KeyFor(s, o), LockFor(s, o), f))

(* The pipeline stores what it can fetch, and fails if it misses one.      *)
FetchAll(s, packages, f) ==
    LET stored == [s EXCEPT !.store = @ \cup (packages \ f.unfetched)]
    IN  IF s.failed THEN s ELSE IF packages \subseteq stored.store THEN stored ELSE Stop(stored)

(* assert_outcomes_complete: every package of the lock has an outcome.     *)
AssertOutcomesComplete(s, lock, outcomes) == Guarded(s, lock.packages \subseteq outcomes, s)

(* outcomes_to_artifact_ids: the packages of the lock with an artifact.    *)
OutcomesToArtifactIds(outcomes, lock) == outcomes \cap lock.packages

WriteLock(s, lock, f) == Guarded(s, ~f.lockWrite, [s EXCEPT !.lock = lock])
ReadPlan(s) == Guarded(s, s.plan # Torn, [s EXCEPT !.prior = s.plan])

GraphId(packages, o) == <<packages, InstallProfile(o)>>
Owned(plan) == IF plan = None THEN {} ELSE plan.owned

(* Mutant: the plan is written before the view is attached. *)
FinalizeInstallPlanFirst(s, o, packages, f) ==
    LET planned == [s EXCEPT !.plan = [kind |-> "plan", graph |-> GraphId(packages, o), owned |-> packages]]
    IN  Guarded(s, TRUE,
                IF f.finalize = "attach" THEN Stop(planned)
                ELSE [planned EXCEPT !.volumes = @ \cup {GraphId(packages, o)},
                                     !.view = (@ \ Owned(s.prior)) \cup packages])

(* finalize_install: the view of the graph is attached; what the prior     *)
(* plan owned and this one does not leaves it while a second thread writes *)
(* the plan, with a warning if it cannot; an error of the first is dropped *)
(* and the entries stay.  Last, ownership is made durable; a process that  *)
(* dies has done either, both or none.                                     *)
FinalizeInstall(s, o, packages, f) ==
    LET built == [s EXCEPT !.volumes = @ \cup {GraphId(packages, o)}]
        attached == [built EXCEPT !.view = @ \cup packages]
        reconciled == IF f.reconcile THEN attached ELSE [attached EXCEPT !.view = @ \ (Owned(s.prior) \ packages)]
        planned == IF f.plan THEN reconciled
                   ELSE [reconciled EXCEPT !.plan = [kind |-> "plan", graph |-> GraphId(packages, o), owned |-> packages]]
    IN  Guarded(s, TRUE, IF f.finalize = "attach" THEN Stop(built)
                         ELSE IF f.finalize = "persist" THEN Stop(planned) ELSE planned)
-----------------------------------------------------------------------------
(* While it resolves, a streaming row fetches every package it has placed. *)
Streamed(s, o, f) ==
    LET fetched == FetchAll(s, Resolution(s, o) \ (f.unresolved \cup IF o.async THEN s.patched ELSE {}), f)
    IN  IF Resolves(s, o, f) THEN fetched ELSE Stop(fetched)

(* run_streaming_async_install: the snapshot, the prior plan and the lock  *)
(* come after the last download.                                           *)
RunStreamingAsyncInstall(s, o, f) ==
    LET lock == LockFor(s, o)
        fetched == Streamed(s, o, f)
        complete == AssertOutcomesComplete(fetched, lock, fetched.store)
        snapped == IF complete.failed THEN complete ELSE StoreSnapshot(complete, KeyFor(s, o), lock, f)
    IN  FinalizeInstall(WriteLock(ReadPlan(snapped), lock, f), o, OutcomesToArtifactIds(fetched.store, lock), f)

(* Mutant: the prior plan is not read. *)
RunStreamingInstallAfresh(s, o, f) ==
    LET lock == LockFor(s, o)
        fetched == Streamed(s, o, f)
        snapped == IF fetched.failed THEN fetched ELSE StoreSnapshot(fetched, KeyFor(s, o), lock, f)
    IN  FinalizeInstall(WriteLock(snapped, lock, f), o, OutcomesToArtifactIds(fetched.store, lock), f)

(* run_streaming_install: the same row with the blocking resolver.         *)
RunStreamingInstall(s, o, f) ==
    LET lock == LockFor(s, o)
        fetched == Streamed(s, o, f)
        snapped == IF fetched.failed THEN fetched ELSE StoreSnapshot(fetched, KeyFor(s, o), lock, f)
    IN  FinalizeInstall(WriteLock(ReadPlan(snapped), lock, f), o, OutcomesToArtifactIds(fetched.store, lock), f)
-----------------------------------------------------------------------------
Projected(s, lock, o) == IF OmitsDev(o) THEN lock.packages \ s.dev ELSE lock.packages

(* validate_plan_with_profile and git preparation decide on a plan hit.    *)
PlanHit(s, packages, o) ==
    /\ ~(o.gitPrepare /\ packages \cap s.git # {})
    /\ s.prior # None /\ s.prior.graph = GraphId(packages, o)
    /\ s.prior.graph \in s.volumes /\ packages \subseteq s.view

(* Mutant: the whole lock is fetched, its projection installed. *)
RebuildWhole(s, packages, o, f) == FinalizeInstall(FetchAll(s, s.lock.packages, f), o, packages, f)

(* A hit whose ownership cannot be refreshed is installed again; the       *)
(* volume is cleared first when the index misses one of its objects.       *)
Rebuild(s, packages, o, f) ==
    LET left == IF PlanHit(s, packages, o) /\ f.refresh = "missing"
                THEN [s EXCEPT !.volumes = @ \ {GraphId(packages, o)}] ELSE s
    IN  FinalizeInstall(FetchAll(left, packages, f), o, packages, f)

(* install_resolved_lockfile                                               *)
InstallResolvedLockfile(s, o, f) ==
    LET accepted == Guarded(s, o.frozen => s.lock.root = s.manifest, s)
        packages == Projected(s, s.lock, o)
        planned == ReadPlan(accepted)
    IN  IF ~planned.failed /\ PlanHit(planned, packages, o) /\ f.refresh = "ok" THEN planned
        ELSE IF planned.failed THEN planned ELSE Rebuild(planned, packages, o, f)

(* The route of an install that has to resolve: dev packages that are to   *)
(* be left out must be known before anything is fetched.                   *)
Route(s, o) ==
    IF o.stale /\ Load(s, KeyFor(s, o)) # {} THEN "snapshot"
    ELSE IF ~OmitsDev(o) /\ o.streaming /\ o.async THEN "streaming async"
    ELSE IF ~OmitsDev(o) /\ o.streaming THEN "streaming"
    ELSE IF o.async THEN "async" ELSE "blocking"

ResolveAndInstall(s, o, f) ==
    CASE Route(s, o) = "snapshot" ->
           LET written == WriteLock(s, CHOOSE l \in Load(s, KeyFor(s, o)) : TRUE, f)
           IN  IF written.failed THEN written ELSE InstallResolvedLockfile(written, o, f)
      [] Route(s, o) = "streaming async" -> RunStreamingAsyncInstall(s, o, f)
      [] Route(s, o) = "streaming" -> RunStreamingInstall(s, o, f)
      [] OTHER ->
           LET resolved == IF o.async THEN ResolveFreshManifest(s, o, f) ELSE ResolveFreshManifestBlocking(s, o, f)
               written == WriteLock(resolved, LockFor(s, o), f)
           IN  IF written.failed THEN written ELSE InstallResolvedLockfile(written, o, f)

(* run: a bpm.lock that no longer fits package.json is resolved again; a   *)
(* frozen install never resolves.                                          *)
LockServes(s, o) == s.lock # None /\ (s.lock.kind = "bpm" /\ ~o.frozen => s.lock.root = s.manifest)
Run(s, o, f) ==
    IF LockServes(s, o) THEN InstallResolvedLockfile(s, o, f)
    ELSE IF o.frozen THEN Stop(s) ELSE ResolveAndInstall(s, o, f)
-----------------------------------------------------------------------------
NoFaults ==
    [unresolved |-> {}, unfetched |-> {}, snapshot |-> FALSE, lockWrite |-> FALSE, plan |-> FALSE, reconcile |-> FALSE,
     refresh |-> "ok", finalize |-> "ok"]
Rows(o) == {[o EXCEPT !.streaming = x, !.async = y] : x \in BOOLEAN, y \in BOOLEAN}
Installed(s) == <<s.lock, s.view, s.plan>>

(* The rows that resolve alike: all of them, unless the manifest must be   *)
(* resolved and asks for a patch.                                          *)
AlikeRows(s, o) ==
    {row \in Rows(o) : LockServes(s, o) \/ Route(s, o) = "snapshot" \/ ~MeetsPatch(s, o) \/ row.async = o.async}

(* The matrix in run: rows that resolve alike differ in when they fetch,   *)
(* never in what they leave behind.  (With a torn plan all fail, before or *)
(* after the lock is written.)                                             *)
RowsAgree(s, o) ==
    s.plan # Torn => \A row \in AlikeRows(s, o) :
        LET x == Run(s, o, NoFaults)
            y == Run(s, row, NoFaults)
        IN  Installed(x) = Installed(y) /\ x.snapshots = y.snapshots

(* An install that failed half-way, by whatever route, is made good by     *)
(* running it again, by whatever route.  Only when its reconciliation was  *)
(* cut short and its plan written does more stay in the view, and then     *)
(* nothing but entries that the plan it replaced owned.                    *)
RetryHeals(s, o, f) ==
    LET first == Run(s, o, f)
        clean == Run(s, o, NoFaults)
        forgotten == IF f.reconcile /\ first.plan # s.plan THEN Owned(s.plan) ELSE {}
    IN  s.plan # Torn => \A row \in AlikeRows(s, o) :
            LET again == Run([first EXCEPT !.failed = FALSE], row, NoFaults)
            IN  /\ again.failed = clean.failed /\ again.lock = clean.lock /\ again.plan = clean.plan
                /\ clean.view \subseteq again.view /\ again.view \ clean.view \subseteq forgotten

(* Claim: "Propagate filesystem errors": an install that reports success   *)
(* has the view of a clean one.                                            *)
SuccessMeansReconciled(s, o, f) ==
    LET after == Run(s, o, f)
    IN  ~after.failed => after.view = Run(s, o, NoFaults).view

(* Claim: the lock of one resolver is byte for byte the other's, so that   *)
(* the kill-switch changes no result.                                      *)
AllRowsAgree(s, o) ==
    s.plan # Torn => \A row \in Rows(o) : Installed(Run(s, o, NoFaults)) = Installed(Run(s, row, NoFaults))

(* "Omitted-dev installation must classify the complete resolved graph     *)
(* before any artifact is fetched": no dev package is fetched, also when   *)
(* the run fails, and the lock that is written is complete.                *)
OmittedDevNeverFetched(s, o, f) ==
    LET after == Run(s, o, f)
    IN  OmitsDev(o) => /\ after.store \cap s.dev \subseteq s.store
                       /\ after.lock \in {s.lock, LockFor(s, o)} \cup Load(s, KeyFor(s, o))

(* After an install that resolved, and a collection of older snapshots,    *)
(* an offline install without a lock gets the resolution of its own        *)
(* inputs; the same command succeeds with no network at all.               *)
OfflineReplays(s, o, other) ==
    LET first == Run([s EXCEPT !.lock = None], o, NoFaults)
        left == PruneOlderThan([first EXCEPT !.lock = None], s.now - 1)
        down == [NoFaults EXCEPT !.unresolved = s.all, !.unfetched = s.all]
        again == Run(left, [o EXCEPT !.stale = TRUE], down)
        others == Run(left, [other EXCEPT !.stale = TRUE], NoFaults)
    IN  (~first.failed /\ ~o.stale) =>
            /\ ~again.failed /\ Installed(again) = Installed(first)
            /\ others.failed \/ others.lock.packages = Resolution(s, other)
=============================================================================
