------------------------------ MODULE Lifecycle ------------------------------
(***************************************************************************)
(* src/lifecycle.rs and src/derived/: install scripts run over the         *)
(* packages of a volume's staging tree, whose files are hard links into    *)
(* the store, and images of what they produced, which other installs       *)
(* attach instead of running them.                                         *)
(*                                                                         *)
(* A tree is [shared, ran]: whether its files are still the store's, and   *)
(* which scripts have left their mark, each as <<phase, environment>>.     *)
(* Several passes run at once over different volumes, beside a collector;  *)
(* they meet at the images of the store and at the derived images.  A      *)
(* derived image has one file per mark; the collector removes it and a     *)
(* pass copies it file by file, the first under the image's lock and the   *)
(* second without.                                                         *)
(***************************************************************************)
EXTENDS Integers, Sequences, FiniteSets

CONSTANTS
    Passes,     \* the passes that run at the same time
    Packages,   \* the lock's packages: [fetched, placed, scripts, prepare]
    Jobs,       \* what a pass may be: [mode, volume, derived, env]
    MaxFaults,  \* operations that fail on their own
    MaxCrashes  \* passes that are killed and started again

Modes == {"run", "skip", "ignore", "prepare"}
Free == "free"
Collector == "collector"

ASSUME BoundsAssumption == MaxFaults \in Nat /\ MaxCrashes \in Nat
ASSUME LockAssumption ==
    Packages \in Seq([fetched : BOOLEAN, placed : BOOLEAN, scripts : Seq(STRING), prepare : Seq(STRING)])
ASSUME JobsAssumption ==
    /\ {Free, Collector} \cap Passes = {}
    /\ \A j \in Jobs : j.mode \in Modes /\ j.volume \in BOOLEAN /\ j.derived \in BOOLEAN

(* raced is a history variable: the packages of a pass whose derived image *)
(* a collector began to remove after the pass was told to attach it.       *)
VARIABLES job, pc, at, step, entry, work, paths, image, derived, lock, faults, crashes, excused, raced
vars == <<job, pc, at, step, entry, work, paths, image, derived, lock, faults, crashes, excused, raced>>

Absent == [state |-> "absent", ran |-> {}]
Pristine == [shared |-> TRUE, ran |-> {}]
Copy(tree) == [shared |-> FALSE, ran |-> tree.ran]

Key(i) == <<at[i], job[i].env, job[i].mode>>
Scripts(i, p) == IF job[i].mode = "prepare" THEN Packages[p].prepare ELSE Packages[p].scripts
InEntry(i) == job[i].volume /\ job[i].mode # "prepare"
Tree(i) == IF InEntry(i) THEN entry[i][at[i]] ELSE work[i]
Keys == (DOMAIN Packages) \X {j.env : j \in Jobs} \X {"run", "prepare"}
(* Only a pass over a volume looks for derived images of its packages.     *)
UsesDerived(i) == job[i].mode = "prepare" \/ (job[i].derived /\ job[i].volume /\ Packages[at[i]].placed)
(* Mutant: what stands at the image's path is taken for it.                *)
ValidatePublishedAny(key) == derived[key].state # "absent"
(* The digest of the image's tree is the one its metadata records.         *)
ValidatePublished(key) == derived[key].state = "sound"
SnapshotPkgTree(i) == Tree(i).ran
Sources(p) == {Packages[p].scripts[k] : k \in DOMAIN Packages[p].scripts}
Prepares(p) == {Packages[p].prepare[k] : k \in DOMAIN Packages[p].prepare}
Copying == {"hit", "copy"}
Marks(key) == (IF key[3] = "prepare" THEN Prepares(key[1]) ELSE Sources(key[1])) \X {key[2]}

(* A store image may have been lost to a collection since it was fetched.  *)
Init ==
    /\ job \in [Passes -> Jobs]
    /\ pc = [i \in Passes |-> "visit"]
    /\ at = [i \in Passes |-> 1]
    /\ step = [i \in Passes |-> 1]
    /\ entry = [i \in Passes |-> [p \in DOMAIN Packages |-> Pristine]]
    /\ work = [i \in Passes |-> Pristine]
    /\ paths = [i \in Passes |-> {}]
    /\ image \in {[p \in DOMAIN Packages |-> [present |-> p \notin lost, ran |-> {}]] : lost \in SUBSET {1}}
    /\ derived = [key \in Keys |-> Absent]
    /\ lock = [key \in Keys |-> Free]
    /\ faults = 0
    /\ crashes = 0
    /\ excused = {}
    /\ raced = {}

Goto(i, to) == pc' = [pc EXCEPT ![i] = to]
Next1(i) == Goto(i, "visit") /\ at' = [at EXCEPT ![i] = @ + 1] /\ step' = [step EXCEPT ![i] = 1]
Record(i) == paths' = [paths EXCEPT ![i] = @ \cup {at[i]}]
SetTree(i, tree) ==
    IF InEntry(i)
    THEN entry' = [entry EXCEPT ![i][at[i]] = tree] /\ UNCHANGED work
    ELSE work' = [work EXCEPT ![i] = tree] /\ UNCHANGED entry
Release(i) == lock' = [key \in Keys |-> IF lock[key] = i THEN Free ELSE lock[key]]
Fault == faults < MaxFaults /\ faults' = faults + 1
Excuse(i) == excused' = excused \cup {i}
-----------------------------------------------------------------------------
(* The loops of run_lifecycle_with_profile and prepare_git_packages: the   *)
(* packages that are passed over unread.                                   *)
Visit(i) ==
    /\ pc[i] = "visit"
    /\ IF job[i].mode = "ignore" \/ at[i] > Len(Packages) THEN Goto(i, "done") /\ UNCHANGED <<at, step>>
       ELSE LET p == Packages[at[i]]
            IN  IF ~p.fetched \/ (job[i].mode = "skip" /\ ~(job[i].volume /\ p.placed)) THEN Next1(i)
                ELSE Goto(i, "read") /\ UNCHANGED <<at, step>>
    /\ UNCHANGED <<job, entry, work, paths, image, derived, lock, faults, crashes, excused, raced>>

(* read_scripts: a manifest that cannot be read ends the pass, and so does *)
(* a missing image where preparation reads it, without healing.            *)
ReadFails(i) ==
    /\ pc[i] = "read"
    /\ \/ Fault
       \/ job[i].mode = "prepare" /\ ~image[at[i]].present /\ UNCHANGED faults
    /\ Excuse(i)
    /\ Goto(i, "failed")
    /\ UNCHANGED <<job, at, step, entry, work, paths, image, derived, lock, crashes, raced>>

(* Mutant: the packages of a cached volume are recorded without a look at  *)
(* their scripts.                                                          *)
ReadScriptsAll(i) ==
    /\ pc[i] = "read"
    /\ job[i].mode # "prepare" \/ image[at[i]].present
    /\ image' = [image EXCEPT ![at[i]].present = TRUE]
    /\ IF job[i].mode = "skip" THEN Next1(i) /\ Record(i)
       ELSE IF Scripts(i, at[i]) = <<>> THEN Next1(i) /\ UNCHANGED paths
       ELSE Goto(i, "place") /\ UNCHANGED <<at, step, paths>>
    /\ UNCHANGED <<job, entry, work, derived, lock, faults, crashes, excused, raced>>

(* read_scripts_healing: a missing image is extracted again.  A cached     *)
(* volume's packages are only recorded.                                    *)
ReadScripts(i) ==
    /\ pc[i] = "read"
    /\ job[i].mode # "prepare" \/ image[at[i]].present
    /\ image' = [image EXCEPT ![at[i]].present = TRUE]
    /\ IF Scripts(i, at[i]) = <<>> THEN Next1(i) /\ UNCHANGED paths
       ELSE IF job[i].mode = "skip" THEN Next1(i) /\ Record(i)
       ELSE /\ Goto(i, IF UsesDerived(i) THEN "lock" ELSE "place")
            /\ UNCHANGED <<at, step, paths>>
    /\ UNCHANGED <<job, entry, work, derived, lock, faults, crashes, excused, raced>>
-----------------------------------------------------------------------------
(* DerivedStore::ensure.  Its own failures leave an install to run the     *)
(* scripts in place; a preparation has nothing else and fails.             *)
Degrade(i) ==
    /\ Release(i)
    /\ Goto(i, IF job[i].mode = "prepare" THEN "failed" ELSE "place")
    /\ step' = [step EXCEPT ![i] = 1]

Lock(i) ==
    /\ pc[i] = "lock"
    /\ lock[Key(i)] = Free
    /\ lock' = [lock EXCEPT ![Key(i)] = i]
    /\ Goto(i, "look")
    /\ UNCHANGED <<job, at, step, entry, work, paths, image, derived, faults, crashes, excused, raced>>

EnsureFails(i) ==
    /\ pc[i] \in {"look", "publish", "publish metadata"}
    /\ Fault
    /\ Degrade(i)
    /\ Excuse(i)
    /\ UNCHANGED <<job, at, entry, work, paths, image, derived, crashes, raced>>

(* A published image is used when it is the one its metadata describes,    *)
(* and the lock is given up with it.                                       *)
Look(i) ==
    /\ pc[i] = "look"
    /\ CASE derived[Key(i)].state = "absent" ->
              /\ Goto(i, "isolate")
              /\ work' = [work EXCEPT ![i] = Copy(image[at[i]])]
              /\ UNCHANGED <<step, lock>>
         [] ValidatePublished(Key(i)) -> Goto(i, "hit") /\ Release(i) /\ UNCHANGED <<step, work>>
         [] OTHER -> Degrade(i) /\ UNCHANGED work
    /\ UNCHANGED <<job, at, entry, paths, image, derived, faults, crashes, excused, raced>>

(* Mutant: the scripts run on the links into the store. *)
IsolateNot(i) ==
    /\ pc[i] \in {"isolate", "place"}
    /\ Goto(i, IF pc[i] = "isolate" THEN "build" ELSE "in place")
    /\ UNCHANGED <<job, at, step, entry, work, paths, image, derived, lock, faults, crashes, excused, raced>>

(* same_file and isolate_package: an entry that still is the store's is    *)
(* made a copy.  Without a volume the pass works in a copy that it throws  *)
(* away, and what was not placed is passed over.                           *)
Isolate(i) ==
    /\ pc[i] \in {"isolate", "place"}
    /\ IF pc[i] = "place" /\ job[i].volume /\ ~Packages[at[i]].placed
       THEN Next1(i) /\ UNCHANGED <<entry, work, paths>>
       ELSE /\ Goto(i, IF pc[i] = "isolate" THEN "build" ELSE "in place")
            /\ IF InEntry(i)
               THEN SetTree(i, IF Tree(i).shared THEN Copy(image[at[i]]) ELSE Tree(i))
               ELSE SetTree(i, Copy(image[at[i]]))
            /\ IF pc[i] = "place" /\ job[i].volume THEN Record(i) ELSE UNCHANGED paths
            /\ UNCHANGED <<at, step>>
    /\ UNCHANGED <<job, image, derived, lock, faults, crashes, excused, raced>>

(* run_script, with the environment that is part of the key.  What it      *)
(* writes to a file that is the store's, the store has.                    *)
RunScript(i) ==
    /\ pc[i] \in {"build", "in place"}
    /\ step[i] <= Len(Scripts(i, at[i]))
    /\ LET mark == {<<Scripts(i, at[i])[step[i]], job[i].env>>}
       IN  /\ SetTree(i, [Tree(i) EXCEPT !.ran = @ \cup mark])
           /\ image' = IF Tree(i).shared THEN [image EXCEPT ![at[i]].ran = @ \cup mark] ELSE image
    /\ step' = [step EXCEPT ![i] = @ + 1]
    /\ UNCHANGED <<job, pc, at, paths, derived, lock, faults, crashes, excused, raced>>

(* Mutant: the lock outlives the failure. *)
ScriptFailsHolding(i) ==
    /\ pc[i] \in {"isolate", "build", "in place"}
    /\ Fault
    /\ Excuse(i)
    /\ Goto(i, "failed")
    /\ UNCHANGED <<job, at, step, entry, work, paths, image, derived, lock, crashes, raced>>

(* A script that fails ends the pass, in a sandbox as in place; so does a  *)
(* copy that fails under the sandbox.                                      *)
ScriptFails(i) ==
    /\ pc[i] \in {"isolate", "build", "in place"}
    /\ Fault
    /\ Excuse(i)
    /\ Release(i)
    /\ Goto(i, "failed")
    /\ UNCHANGED <<job, at, step, entry, work, paths, image, derived, crashes, raced>>

(* Mutant: the image is renamed into place before the scripts are over.    *)
FinishEarly(i) ==
    /\ pc[i] \in {"build", "in place"}
    /\ pc[i] = "in place" => step[i] > Len(Scripts(i, at[i]))
    /\ IF pc[i] = "build" THEN Goto(i, "publish") /\ UNCHANGED <<at, step>> ELSE Next1(i)
    /\ UNCHANGED <<job, entry, work, paths, image, derived, lock, faults, crashes, excused, raced>>

(* The phases of this package are over. *)
Finish(i) ==
    /\ pc[i] \in {"build", "in place"}
    /\ step[i] > Len(Scripts(i, at[i]))
    /\ IF pc[i] = "build" THEN Goto(i, "publish") /\ UNCHANGED <<at, step>> ELSE Next1(i)
    /\ UNCHANGED <<job, entry, work, paths, image, derived, lock, faults, crashes, excused, raced>>

(* snapshot_pkg_tree, write_metadata, seal and the rename of the staging.  *)
Publish(i) ==
    /\ pc[i] = "publish"
    /\ derived' = [derived EXCEPT ![Key(i)] = [state |-> "sound", ran |-> SnapshotPkgTree(i)]]
    /\ Goto(i, "publish metadata")
    /\ UNCHANGED <<job, at, step, entry, work, paths, image, lock, faults, crashes, excused, raced>>

PublishMetadata(i) ==
    /\ pc[i] = "publish metadata"
    /\ Release(i)
    /\ Next1(i)
    /\ Record(i)
    /\ UNCHANGED <<job, entry, work, image, derived, faults, crashes, excused, raced>>

(* attach_derived, after ensure has given the lock up: the package's files *)
(* are removed, and a failure of this or of what follows fails the pass.   *)
AttachDerived(i) ==
    /\ pc[i] = "hit"
    /\ IF job[i].mode = "prepare" THEN Next1(i) /\ Record(i) /\ UNCHANGED <<entry, work>>
       ELSE /\ Goto(i, "copy")
            /\ SetTree(i, [shared |-> FALSE, ran |-> {}])
            /\ UNCHANGED <<at, step, paths>>
    /\ UNCHANGED <<job, image, derived, lock, faults, crashes, excused, raced>>

(* mirror_tree copies what it meets in the image, one file after another.  *)
(* A file that is gone is not missed when its directory was read after it  *)
(* went.                                                                   *)
CopyFile(i) ==
    /\ pc[i] = "copy"
    /\ step[i] <= Len(Scripts(i, at[i]))
    /\ derived[Key(i)].state # "absent" \/ step[i] > 1
    /\ LET file == <<Scripts(i, at[i])[step[i]], job[i].env>>
       IN  SetTree(i, [Tree(i) EXCEPT !.ran = @ \cup ({file} \cap derived[Key(i)].ran)])
    /\ step' = [step EXCEPT ![i] = @ + 1]
    /\ UNCHANGED <<job, pc, at, paths, image, derived, lock, faults, crashes, excused, raced>>

(* It is missed when it was listed before it went, and the image's own     *)
(* directory is when it is gone; any other error of the copy ends the pass *)
(* as well.                                                                *)
CopyFails(i) ==
    /\ pc[i] = "copy"
    /\ \/ Fault
       \/ derived[Key(i)].state \in {"torn", "absent"} /\ UNCHANGED faults
    /\ Goto(i, "failed")
    /\ UNCHANGED <<job, at, step, entry, work, paths, image, derived, lock, crashes, excused, raced>>

Attached(i) ==
    /\ pc[i] = "copy"
    /\ step[i] > Len(Scripts(i, at[i]))
    /\ Next1(i)
    /\ Record(i)
    /\ UNCHANGED <<job, entry, work, image, derived, lock, faults, crashes, excused, raced>>
-----------------------------------------------------------------------------
(* A killed pass loses its locks; its staging tree is built anew.          *)
Crash(i) ==
    /\ pc[i] \notin {"done", "failed"}
    /\ crashes < MaxCrashes
    /\ crashes' = crashes + 1
    /\ Release(i)
    /\ Goto(i, "visit")
    /\ at' = [at EXCEPT ![i] = 1]
    /\ step' = [step EXCEPT ![i] = 1]
    /\ paths' = [paths EXCEPT ![i] = {}]
    /\ entry' = [entry EXCEPT ![i] = [p \in DOMAIN Packages |-> [shared |-> TRUE, ran |-> image[p].ran]]]
    /\ work' = [work EXCEPT ![i] = Pristine]
    /\ raced' = {r \in raced : r[1] # i}
    /\ UNCHANGED <<job, image, derived, faults, excused>>

(* The collector locks a derived image that no graph of a project names    *)
(* and that is not leased, which is all it asks again: that a pass has     *)
(* used the image since the candidates were chosen does not spare it.  It  *)
(* removes inside a write transaction of the index, so one at a time does. *)
Collect(key) ==
    /\ lock[key] = Free
    /\ \A other \in Keys : lock[other] # Collector
    /\ derived[key].state # "absent"
    /\ lock' = [lock EXCEPT ![key] = Collector]
    /\ derived' = [derived EXCEPT ![key].state = "torn"]
    /\ raced' = raced \cup {<<i, at[i]>> : i \in {j \in Passes : pc[j] \in Copying /\ Key(j) = key}}
    /\ UNCHANGED <<job, pc, at, step, entry, work, paths, image, faults, crashes, excused>>

(* remove_dir_all takes file after file, in the directory's order; what is *)
(* not a mark of a script goes before, between or after.                   *)
RemoveFile(key) ==
    /\ lock[key] = Collector
    /\ \E file \in derived[key].ran : derived' = [derived EXCEPT ![key].ran = @ \ {file}]
    /\ UNCHANGED <<job, pc, at, step, entry, work, paths, image, lock, faults, crashes, excused, raced>>
Removed(key) ==
    /\ lock[key] = Collector
    /\ derived[key].ran = {}
    /\ derived' = [derived EXCEPT ![key] = Absent]
    /\ lock' = [lock EXCEPT ![key] = Free]
    /\ UNCHANGED <<job, pc, at, step, entry, work, paths, image, faults, crashes, excused, raced>>

(* A removal that fails, or whose process is killed, leaves the rest.      *)
RemovalStops(key) ==
    /\ lock[key] = Collector
    /\ Fault
    /\ lock' = [lock EXCEPT ![key] = Free]
    /\ UNCHANGED <<job, pc, at, step, entry, work, paths, image, derived, crashes, excused, raced>>

(* An image that was altered since is found out by its digest.             *)
Alter(key) ==
    /\ derived[key].state = "sound"
    /\ Fault
    /\ derived' = [derived EXCEPT ![key].state = "altered"]
    /\ UNCHANGED <<job, pc, at, step, entry, work, paths, image, lock, crashes, excused, raced>>

Step(i) ==
    \/ Visit(i) \/ ReadFails(i) \/ ReadScripts(i) \/ Lock(i) \/ EnsureFails(i) \/ Look(i) \/ Isolate(i)
    \/ RunScript(i) \/ ScriptFails(i) \/ Finish(i) \/ Publish(i) \/ PublishMetadata(i) \/ AttachDerived(i)
    \/ CopyFile(i) \/ CopyFails(i) \/ Attached(i)
Removal(key) == RemoveFile(key) \/ Removed(key)
Next ==
    \/ \E i \in Passes : Step(i) \/ Crash(i)
    \/ \E key \in Keys : Collect(key) \/ Removal(key) \/ RemovalStops(key) \/ Alter(key)

(* Passes and collectors are scheduled, and a file lock that is given up   *)
(* often enough is had in the end.                                         *)
Fairness ==
    /\ \A i \in Passes : WF_vars(Step(i)) /\ SF_vars(Lock(i))
    /\ WF_vars(\E key \in Keys : Removal(key))
Spec == Init /\ [][Next]_vars /\ Fairness
-----------------------------------------------------------------------------
AllMarks == STRING \X {j.env : j \in Jobs}
Trees == [shared : BOOLEAN, ran : SUBSET AllMarks]
Ensuring == {"look", "isolate", "build", "publish", "publish metadata"}
States == {"absent", "sound", "altered", "torn"}
Places == Ensuring \cup Copying \cup {"visit", "read", "lock", "place", "in place", "done", "failed"}

TypeOK ==
    /\ job \in [Passes -> Jobs]
    /\ pc \in [Passes -> Places]
    /\ at \in [Passes -> Nat \ {0}] /\ step \in [Passes -> Nat \ {0}]
    /\ entry \in [Passes -> [DOMAIN Packages -> Trees]] /\ work \in [Passes -> Trees]
    /\ paths \in [Passes -> SUBSET DOMAIN Packages]
    /\ image \in [DOMAIN Packages -> [present : BOOLEAN, ran : SUBSET AllMarks]]
    /\ derived \in [Keys -> [state : States, ran : SUBSET AllMarks]]
    /\ lock \in [Keys -> Passes \cup {Free, Collector}]
    /\ faults \in 0 .. MaxFaults /\ crashes \in 0 .. MaxCrashes /\ excused \in SUBSET Passes
    /\ raced \in SUBSET (Passes \X Nat)

(* A derived image is built by at most one pass at a time, and whoever is  *)
(* done with it, in whatever way, has given its lock up.                   *)
LockedWhileEnsuring ==
    \A i \in Passes : \A key \in Keys : lock[key] = i <=> pc[i] \in Ensuring /\ key = Key(i)

(* "files a script writes persist in the volume ... mutations can never    *)
(* reach a store image": no script of any pass leaves its mark in the      *)
(* store's images.                                                         *)
ImagesPristine == \A p \in DOMAIN Packages : image[p].ran = {}

(* A derived image that ensure would attach bears exactly the marks of its *)
(* scripts in its environment, whoever was killed or failed while building *)
(* or removing it, and no image ever bears another.                        *)
DerivedComplete ==
    \A key \in Keys :
        /\ derived[key].ran \subseteq Marks(key)
        /\ derived[key].state \in {"sound", "altered"} => derived[key].ran = Marks(key)

(* A pass that succeeds leaves every package as if its scripts had run in  *)
(* its own environment, whether they ran or an image was attached.  Only   *)
(* where a collector began to remove the image while the pass attached it  *)
(* may files be missing, never others be there.                            *)
EntriesAsIfRun ==
    \A i \in Passes : pc[i] = "done" /\ job[i].mode = "run" /\ job[i].volume =>
        \A p \in DOMAIN Packages :
            LET due == IF Packages[p].fetched /\ Packages[p].placed THEN Marks(<<p, job[i].env, "run">>) ELSE {}
            IN  entry[i][p].ran \subseteq due /\ (<<i, p>> \notin raced => entry[i][p].ran = due)

(* "The predicate below mirrors the execution branch exactly": a pass over *)
(* a cached volume records the packages that the building pass recorded.   *)
DerivedPathsAgree ==
    \A i, j \in Passes :
        pc[i] = "done" /\ pc[j] = "done" /\ job[i].mode = "run" /\ job[j].mode = "skip" /\ job[i].volume /\ job[j].volume
          => paths[i] = paths[j]

(* Every pass ends: no lock is kept by one that failed or was killed.      *)
PassesEnd == \A i \in Passes : <>(pc[i] \in {"done", "failed"})

(* Claim: "Any store/sandbox failure degrades gracefully to the ordinary   *)
(* in-place execution below": a pass whose scripts and whose reads all     *)
(* went well does not fail.                                                *)
StoreFailuresDegrade == \A i \in Passes : pc[i] = "failed" => i \in excused \/ job[i].mode = "prepare"

(* Claim: ensure's "immutable, atomically published image" is attached     *)
(* whole or not at all: a pass does not succeed with files missing.        *)
AttachedWhole ==
    \A i \in Passes : pc[i] = "done" /\ job[i].mode = "run" /\ job[i].volume =>
        \A p \in DOMAIN Packages : Packages[p].fetched /\ Packages[p].placed =>
            entry[i][p].ran = Marks(<<p, job[i].env, "run">>)

(* What a derived image holds, what an attached package looks like and     *)
(* which paths a cached volume records are as if the scripts had run, but  *)
(* for the files of an image that was collected while it was attached.     *)
DerivedAsIfRun == DerivedComplete /\ EntriesAsIfRun /\ DerivedPathsAgree
=============================================================================
