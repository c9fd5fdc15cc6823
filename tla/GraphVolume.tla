---------------------------- MODULE GraphVolume ----------------------------
(***************************************************************************)
(* src/volume.rs and the second half of src/cli/install.rs: how several    *)
(* installs of one dependency graph share one graph volume, and how the    *)
(* collector removes it.                                                   *)
(*                                                                         *)
(* An install runs two threads.  The main thread ensures the volume, runs  *)
(* the lifecycle scripts in the staging tree, publishes and attaches.  A   *)
(* helper thread takes the metadata lease while the main thread ensures    *)
(* the volume, and records the graph while the main thread attaches it;    *)
(* the main thread joins it each time.                                     *)
(*                                                                         *)
(* Removing a directory tree is not atomic: the marker (metadata.json and  *)
(* the top-level names it lists) can still be valid while files below it   *)
(* are gone ("hollow"); later the marker no longer validates ("ruin").     *)
(***************************************************************************)
EXTENDS Naturals

CONSTANTS
    Installs,     \* install processes, all of the same graph
    Scripted,     \* the ones that run lifecycle scripts (no --ignore-scripts)
    Relay,        \* the ones whose project view is relays; the others copy
    MaxGc,        \* how many times the collector picks the volume
    GraceZero,    \* the collector runs with no grace (bpm cache clean)
    GcMayDie      \* the collector may be killed inside remove_dir_all

ASSUME PolicyAssumption ==
    /\ Scripted \subseteq Installs
    /\ Relay \subseteq Installs
    /\ MaxGc \in Nat
    /\ GraceZero \in BOOLEAN /\ GcMayDie \in BOOLEAN

VARIABLES
    vol,        \* the volume directory: [state, scriptless]
    aged,       \* the volume was last used before the grace cutoff
    glock,      \* who has the lock file graph-<id>.lock
    pc, hpc,    \* main and helper thread of each install
    reuse,      \* reuse[i]: graph_volume_reuse_expected said yes
    stale,      \* stale[i]: the marker was read and did not serve i
    leased,     \* leased[i]: i's lease has a row for the graph
    ref,        \* ref[i]: i's project references the graph in the index
    view,       \* view[i]: what i's attachment copied or linked
    gpc, gcs    \* the collector, and how often it has picked the volume

vars == <<vol, aged, glock, pc, hpc, reuse, stale, leased, ref, view, gpc, gcs>>
installVars == <<reuse, stale, leased, ref, view>>
gcVars == <<gpc, gcs>>

Free == <<"nobody", "free">>
MainOf(i) == <<i, "main">>
HelperOf(i) == <<i, "helper">>
Collector == <<"gc", "gc">>

Absent == [state |-> "absent", scriptless |-> FALSE]

TypeOK ==
    /\ vol \in [state : {"absent", "whole", "hollow", "ruin"}, scriptless : BOOLEAN]
    /\ aged \in BOOLEAN
    /\ glock \in {Free, Collector} \cup (Installs \X {"main", "helper"})
    /\ pc \in [Installs -> {"start", "ensure", "wantlock", "recheck", "discard", "build",
                            "ready", "built", "failed", "lifecycle", "publish", "attach",
                            "attaching", "attached", "done", "error"}]
    /\ hpc \in [Installs -> {"none", "lease", "verify", "ok", "err",
                             "record", "extend", "extendVerify"}]
    /\ reuse \in [Installs -> BOOLEAN] /\ stale \in [Installs -> BOOLEAN]
    /\ leased \in [Installs -> BOOLEAN] /\ ref \in [Installs -> BOOLEAN]
    /\ view \in [Installs -> {"none", "clean", "noscripts", "broken"}]
    /\ gpc \in {"idle", "chosen", "locked", "removing"}
    /\ gcs \in 0 .. MaxGc

(* An earlier install may have left the volume, long ago or just now. *)
Init ==
    /\ vol \in {Absent} \cup [state : {"whole"}, scriptless : BOOLEAN]
    /\ aged \in BOOLEAN
    /\ glock = Free
    /\ pc = [i \in Installs |-> "start"]
    /\ hpc = [i \in Installs |-> "none"]
    /\ reuse = [i \in Installs |-> FALSE]
    /\ stale = [i \in Installs |-> FALSE]
    /\ leased = [i \in Installs |-> FALSE]
    /\ ref = [i \in Installs |-> FALSE]
    /\ view = [i \in Installs |-> "none"]
    /\ gpc = "idle"
    /\ gcs = 0

-----------------------------------------------------------------------------
(* current_meta: the marker parses, names this graph and layout, and lists *)
(* exactly the top-level entries; it does not look below them.             *)
MarkerValid == vol.state \in {"whole", "hollow"}

(* Mutant: the scripts policy of the volume is not compared. *)
ServesAnyPolicy(i) == MarkerValid

(* current_meta /\ scriptless_meta_serves. *)
Serves(i) == MarkerValid /\ (~vol.scriptless \/ i \notin Scripted)

(* is_published for a graph: the directory is there. *)
Published == vol.state # "absent"

(* remove_dir_all begins; a copy in progress now reads a tree with holes. *)
BeginRemove ==
    /\ vol' \in {[vol EXCEPT !.state = "hollow"], [vol EXCEPT !.state = "ruin"]}
    /\ view' = [j \in Installs |->
                  IF pc[j] = "attaching" /\ j \notin Relay THEN "broken" ELSE view[j]]

Goto(i, l) == pc' = [pc EXCEPT ![i] = l]
HelperGoto(i, l) == hpc' = [hpc EXCEPT ![i] = l]

(* Returning an error drops the pending volume (its staging tree and its   *)
(* lock) and the session (its lease rows).                                 *)
Fail(i) ==
    /\ Goto(i, "error")
    /\ glock' = IF glock = MainOf(i) THEN Free ELSE glock
    /\ leased' = [leased EXCEPT ![i] = FALSE]

-----------------------------------------------------------------------------
(* Mutant: the reuse check does not compare the scripts policy. *)
OpenIgnoringPolicy(i) ==
    /\ pc[i] = "start"
    /\ reuse' = [reuse EXCEPT ![i] = MarkerValid]
    /\ Goto(i, "ensure")
    /\ HelperGoto(i, "lease")
    /\ UNCHANGED <<vol, aged, glock, stale, leased, ref, view, gpc, gcs>>

(* finalize_install up to the spawn of the lease thread.                   *)
Open(i) ==
    /\ pc[i] = "start"
    /\ reuse' = [reuse EXCEPT ![i] = Serves(i)]
    /\ Goto(i, "ensure")
    /\ HelperGoto(i, "lease")
    /\ UNCHANGED <<vol, aged, glock, stale, leased, ref, view, gpc, gcs>>

(* ensure_graph_volume_with_prestaged, the check without the lock.  A      *)
(* marker that cannot be read at all does not make the volume stale.       *)
EnsureFast(i) ==
    /\ pc[i] = "ensure"
    /\ \/ /\ Serves(i)
          /\ Goto(i, "ready")
          /\ UNCHANGED stale
       \/ /\ ~Serves(i)
          /\ Goto(i, "wantlock")
          /\ \E s \in BOOLEAN :
                /\ MarkerValid => s
                /\ ~Published => ~s
                /\ stale' = [stale EXCEPT ![i] = s]
    /\ UNCHANGED <<vol, aged, glock, hpc, reuse, leased, ref, view, gpc, gcs>>

AcquireGraphLock(i) ==
    /\ pc[i] = "wantlock"
    /\ glock = Free
    /\ glock' = MainOf(i)
    /\ Goto(i, "recheck")
    /\ UNCHANGED <<vol, aged, hpc, reuse, stale, leased, ref, view, gpc, gcs>>

(* Mutant: the lock is kept when another builder has completed the volume. *)
RecheckKeepsLock(i) ==
    /\ pc[i] = "recheck"
    /\ \/ /\ Serves(i)
          /\ Goto(i, "ready")
          /\ UNCHANGED <<vol, view>>
       \/ /\ ~Serves(i)
          /\ stale[i] /\ Published
          /\ BeginRemove
          /\ Goto(i, "discard")
       \/ /\ ~Serves(i)
          /\ ~(stale[i] /\ Published)
          /\ Goto(i, "build")
          /\ UNCHANGED <<vol, view>>
    /\ UNCHANGED <<aged, glock, hpc, reuse, stale, leased, ref, gpc, gcs>>

(* The double check under the lock, and the removal of a stale volume. *)
Recheck(i) ==
    /\ pc[i] = "recheck"
    /\ \/ /\ Serves(i)
          /\ glock' = Free
          /\ Goto(i, "ready")
          /\ UNCHANGED <<vol, view>>
       \/ /\ ~Serves(i)
          /\ stale[i] /\ Published
          /\ BeginRemove
          /\ Goto(i, "discard")
          /\ UNCHANGED glock
       \/ /\ ~Serves(i)
          /\ ~(stale[i] /\ Published)
          /\ Goto(i, "build")
          /\ UNCHANGED <<vol, view, glock>>
    /\ UNCHANGED <<aged, hpc, reuse, stale, leased, ref, gpc, gcs>>

Discard(i) ==
    /\ pc[i] = "discard"
    /\ vol' = Absent
    /\ Goto(i, "build")
    /\ UNCHANGED <<aged, glock, hpc, reuse, stale, leased, ref, view, gpc, gcs>>

(* Materialize into staging; an error leaves nothing but the stale removal. *)
Build(i) ==
    /\ pc[i] = "build"
    /\ \/ Goto(i, "built") /\ UNCHANGED glock
       \/ Goto(i, "failed") /\ glock' = Free
    /\ UNCHANGED <<vol, aged, hpc, reuse, stale, leased, ref, view, gpc, gcs>>

(* run_lease.  A reuse install leases the graph object under its lock; any *)
(* other install leases artifacts, images and derived images, whose locks  *)
(* are not the graph's.                                                    *)
LeaseLock(i) ==
    /\ hpc[i] = "lease"
    /\ \/ /\ reuse[i]
          /\ glock = Free
          /\ glock' = HelperOf(i)
          /\ HelperGoto(i, "verify")
       \/ /\ ~reuse[i]
          /\ HelperGoto(i, "ok") \/ HelperGoto(i, "err")
          /\ UNCHANGED glock
    /\ UNCHANGED <<vol, aged, pc, installVars, gcVars>>

LeaseVerify(i) ==
    /\ hpc[i] = "verify"
    /\ leased' = [leased EXCEPT ![i] = Published]
    /\ HelperGoto(i, IF Published THEN "ok" ELSE "err")
    /\ glock' = Free
    /\ UNCHANGED <<vol, aged, pc, reuse, stale, ref, view, gcVars>>

(* The main thread joins the lease thread: `lease.0?` then `ensured?`.  On *)
(* a cached volume a scripted install only looks up which packages have    *)
(* scripts, which can fail as well.                                        *)
JoinLease(i) ==
    /\ pc[i] \in {"ready", "built", "failed"}
    /\ hpc[i] \in {"ok", "err"}
    /\ \/ /\ hpc[i] = "err" \/ pc[i] = "failed" \/ (pc[i] = "ready" /\ i \in Scripted)
          /\ Fail(i)
          /\ HelperGoto(i, "none")
       \/ /\ hpc[i] = "ok" /\ pc[i] = "ready"
          /\ Goto(i, "attach")
          /\ HelperGoto(i, "record")
          /\ UNCHANGED <<glock, leased>>
       \/ /\ hpc[i] = "ok" /\ pc[i] = "built"
          /\ Goto(i, "lifecycle")
          /\ HelperGoto(i, "none")
          /\ UNCHANGED <<glock, leased>>
    /\ UNCHANGED <<vol, aged, reuse, stale, ref, view, gcVars>>

(* Scripts run in the staging tree; a failing script ends the install. *)
Lifecycle(i) ==
    /\ pc[i] = "lifecycle"
    /\ \/ Goto(i, "publish") /\ UNCHANGED <<glock, leased>>
       \/ i \in Scripted /\ Fail(i)
    /\ UNCHANGED <<vol, aged, hpc, reuse, stale, ref, view, gcVars>>

(* PendingVolume::publish: write the marker into staging, remove what is   *)
(* at the final path, rename.  The pending volume, and its lock, are       *)
(* dropped on return.                                                      *)
Publish(i) ==
    /\ pc[i] = "publish"
    /\ vol' = [state |-> "whole", scriptless |-> i \notin Scripted]
    /\ view' = [j \in Installs |->
                  IF Published /\ pc[j] = "attaching" /\ j \notin Relay
                  THEN "broken" ELSE view[j]]
    /\ aged' = FALSE
    /\ glock' = Free
    /\ Goto(i, "attach")
    /\ HelperGoto(i, "record")
    /\ UNCHANGED <<reuse, stale, leased, ref, gcVars>>

(* attach_project reads the marker and lists the entries; the relay view   *)
(* only lists them.                                                        *)
AttachBegin(i) ==
    /\ pc[i] = "attach"
    /\ IF Published /\ (i \in Relay \/ MarkerValid)
       THEN /\ Goto(i, "attaching")
            /\ view' = [view EXCEPT ![i] =
                          IF vol.state # "whole" THEN "broken"
                          ELSE IF vol.scriptless THEN "noscripts" ELSE "clean"]
            /\ UNCHANGED <<hpc, glock, leased>>
       ELSE \* the error is returned after the record thread is joined
            /\ hpc[i] \in {"ok", "err"}
            /\ Fail(i)
            /\ HelperGoto(i, "none")
            /\ UNCHANGED view
    /\ UNCHANGED <<vol, aged, reuse, stale, ref, gcVars>>

(* The copy ends; a file that vanished under it may be an error or may     *)
(* simply not have been listed.                                            *)
AttachEnd(i) ==
    /\ pc[i] = "attaching"
    /\ \/ /\ Goto(i, "attached")
          /\ UNCHANGED <<hpc, glock, leased>>
       \/ /\ view[i] = "broken"
          /\ hpc[i] \in {"ok", "err"}
          /\ Fail(i)
          /\ HelperGoto(i, "none")
    /\ UNCHANGED <<vol, aged, reuse, stale, ref, view, gcVars>>

(* record_graph_with_size_hint: the graph must be published; its row is    *)
(* written and the lease is extended to it unless it covers it already.    *)
Record(i) ==
    /\ hpc[i] = "record"
    /\ HelperGoto(i, IF ~Published THEN "err" ELSE IF leased[i] THEN "ok" ELSE "extend")
    /\ UNCHANGED <<vol, aged, glock, pc, installVars, gcVars>>

ExtendLock(i) ==
    /\ hpc[i] = "extend"
    /\ glock = Free
    /\ glock' = HelperOf(i)
    /\ HelperGoto(i, "extendVerify")
    /\ UNCHANGED <<vol, aged, pc, installVars, gcVars>>

ExtendVerify(i) ==
    /\ hpc[i] = "extendVerify"
    /\ leased' = [leased EXCEPT ![i] = Published]
    /\ HelperGoto(i, IF Published THEN "ok" ELSE "err")
    /\ glock' = Free
    /\ UNCHANGED <<vol, aged, pc, reuse, stale, ref, view, gcVars>>

(* Join the record thread, reconcile, finalize_project: the registration   *)
(* and the project reference are written (the graph must be published),    *)
(* the install reports success and the session drops its lease.            *)
Finalize(i) ==
    /\ pc[i] = "attached"
    /\ hpc[i] \in {"ok", "err"}
    /\ HelperGoto(i, "none")
    /\ \/ /\ hpc[i] = "ok" /\ Published
          /\ Goto(i, "done")
          /\ ref' = [ref EXCEPT ![i] = TRUE]
          /\ leased' = [leased EXCEPT ![i] = FALSE]
          /\ UNCHANGED glock
       \/ /\ hpc[i] = "err" \/ ~Published
          /\ Fail(i)
          /\ UNCHANGED ref
    /\ UNCHANGED <<vol, aged, reuse, stale, view, gcVars>>

-----------------------------------------------------------------------------
(* collect, for the graph object alone.                                    *)
GcProtected == \E i \in Installs : leased[i] \/ ref[i]

(* The candidate query and the policy. *)
GcChoose ==
    /\ gpc = "idle"
    /\ gcs < MaxGc
    /\ Published
    /\ aged \/ GraceZero
    /\ ~GcProtected
    /\ gpc' = "chosen"
    /\ gcs' = gcs + 1
    /\ UNCHANGED <<vol, aged, glock, pc, hpc, installVars>>

GcLock ==
    /\ gpc = "chosen"
    /\ glock = Free
    /\ glock' = Collector
    /\ gpc' = "locked"
    /\ UNCHANGED <<vol, aged, pc, hpc, installVars, gcs>>

(* Mutant: protection is not looked at again under the lock. *)
GcDeleteUnchecked ==
    /\ gpc = "locked"
    /\ Published
    /\ BeginRemove
    /\ gpc' = "removing"
    /\ UNCHANGED <<aged, glock, pc, hpc, reuse, stale, leased, ref, gcs>>

(* is_published, protection_active, remove_dir_all begins. *)
GcDelete ==
    /\ gpc = "locked"
    /\ \/ /\ ~Published \/ GcProtected
          /\ glock' = Free
          /\ gpc' = "idle"
          /\ UNCHANGED <<vol, view>>
       \/ /\ Published /\ ~GcProtected
          /\ BeginRemove
          /\ gpc' = "removing"
          /\ UNCHANGED glock
    /\ UNCHANGED <<aged, pc, hpc, reuse, stale, leased, ref, gcs>>

GcDeleted ==
    /\ gpc = "removing"
    /\ vol' = Absent
    /\ glock' = Free
    /\ gpc' = "idle"
    /\ UNCHANGED <<aged, pc, hpc, installVars, gcs>>

(* The collector is killed; the operating system drops its lock. *)
GcDies ==
    /\ GcMayDie
    /\ gpc = "removing"
    /\ glock' = Free
    /\ gpc' = "idle"
    /\ UNCHANGED <<vol, aged, pc, hpc, installVars, gcs>>

-----------------------------------------------------------------------------
MainStep(i) ==
    \/ Open(i) \/ EnsureFast(i) \/ AcquireGraphLock(i) \/ Recheck(i)
    \/ Discard(i) \/ Build(i) \/ JoinLease(i) \/ Lifecycle(i) \/ Publish(i)
    \/ AttachBegin(i) \/ AttachEnd(i) \/ Finalize(i)

HelperStep(i) ==
    \/ LeaseLock(i) \/ LeaseVerify(i) \/ Record(i) \/ ExtendLock(i) \/ ExtendVerify(i)

GcStep == GcChoose \/ GcLock \/ GcDelete \/ GcDeleted \/ GcDies

Next == (\E i \in Installs : MainStep(i) \/ HelperStep(i)) \/ GcStep

Spec == Init /\ [][Next]_vars

(* Threads run; flock serves every waiter in its turn; a collector that    *)
(* holds the lock goes on (being killed is never owed).                    *)
Fairness ==
    /\ \A i \in Installs : SF_vars(MainStep(i)) /\ SF_vars(HelperStep(i))
    /\ SF_vars(GcLock) /\ WF_vars(GcDelete) /\ WF_vars(GcDeleted)

FairSpec == Spec /\ Fairness

-----------------------------------------------------------------------------
(* "No install ever succeeds with an unprotected graph" and the published  *)
(* graph is immutable: once an install has reported success, its project   *)
(* view is complete and stays so, whoever builds or collects meanwhile.    *)
InstalledViewIntact ==
    \A i \in Installs :
        pc[i] = "done" =>
            /\ view[i] # "broken"
            /\ i \in Relay => vol.state = "whole"

(* "A scriptless volume never ran postinstalls and must be rebuilt for a   *)
(* scripted install": no scripted install ends on a volume without them.   *)
ScriptsRan ==
    \A i \in Installs : pc[i] = "done" /\ i \in Scripted => view[i] # "noscripts"

(* "Any install that will (re)build the volume reads store images directly *)
(* and takes the full object lease": whoever runs scripts in a tree it has *)
(* built and publishes it did not settle for the lease on the graph alone, *)
(* also when the volume it had meant to reuse was collected before it      *)
(* looked again.                                                           *)
PublishersHoldFullLease ==
    \A i \in Installs : pc[i] \in {"lifecycle", "publish"} => ~reuse[i]

(* Every install comes to an end: no thread waits for ever for the graph   *)
(* lock or for the other thread of its own process.                        *)
EveryInstallEnds ==
    \A i \in Installs : <>(pc[i] \in {"done", "error"})
=============================================================================
