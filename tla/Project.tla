------------------------------- MODULE Project -------------------------------
(***************************************************************************)
(* The two files a project's owner edits and the commands rewrite: the     *)
(* manifests (package.json, of the root and of a workspace member) and the *)
(* lock.  `add`, `remove`, `link`, `upgrade` and `dedupe` (cli/mutate.rs)  *)
(* hold the project's mutation guard from the first read to the end of the *)
(* installation, and publish manifest and lock through manifest_edit.rs.   *)
(* `install`, `ci` (cli/install.rs) and `import` (cli/import.rs) take no   *)
(* guard.  Editors save package.json whenever they like.  What a lock      *)
(* resolves to is reduced to the declarations it was resolved from and the *)
(* generation of the registry it saw.                                      *)
(***************************************************************************)
EXTENDS LinkStore

CONSTANTS
    Names,          \* the packages a manifest may declare
    Runners,        \* the processes that run commands in the project
    Commands,       \* the commands they may run
    Saves,          \* what an editor may save: a manifest and its new contents
    ForeignKinds,   \* which foreign lock the project starts with: "none", "npm" or "yarn"
    MaxCommands,    \* bound: commands run
    MaxUnguarded,   \* bound: commands without the guard running at once
    MaxEdits,       \* bound: edits made by hand
    MaxFaults       \* bound: file operations that fail, and kills

VARIABLES
    docs,           \* "root" and "member" -> the declarations its package.json holds
    locks,          \* "bpm", "npm" and "yarn" -> the lock in that file, or NoLock
    spool,          \* the sibling file `.bpm.lock.tmp` that Lockfile::write_to uses
    fd,             \* where the file a process has open for that is by now
    guard,          \* who holds the project mutation guard
    view,           \* the lock node_modules was last made from
    registry,       \* the registry's generation
    run,            \* each process's command and where it is in it
    left, edits, faults,
    settled,        \* which agreement of lock and root manifest is owed: see Owed
    shown,          \* the view is owed to be the lock's
    asked,          \* what the edits that went through say the manifests declare
    kept            \* no edit by hand, and no failed rollback, has interfered

ghosts == <<asked, kept>>
vars == <<docs, locks, spool, fd, guard, view, registry, run, left, edits, faults, settled, shown, ghosts>>

Sections == {"none", "prod", "dev", "optional"}
Broken == [n \in Names |-> "broken"]            \* a package.json that does not parse
Declarations == [Names -> Sections]
Readable(doc) == doc # Broken
Declared(doc) == {n \in Names : doc[n] # "none"}

Lock(root, member, full) == [root |-> root, member |-> member, seen |-> registry, full |-> full]
Locks == [root : Declarations, member : Declarations, seen : 0 .. 1, full : BOOLEAN]
NoLock == [root |-> Broken, member |-> Broken, seen |-> 0, full |-> FALSE]
Torn == [NoLock EXCEPT !.seen = 1]              \* a lock file that is only partly written

Nobody == "nobody"
Idle == [at |-> "idle"]
Is(p, place) == run[p].at = place
Active(p) == run[p].at # "idle"
Guarded == {"add", "remove", "link", "upgrade", "dedupe"}
Unguarded == {"install", "ci", "import"}
Cmd(p) == run[p].cmd
Op(p) == Cmd(p).op

(* Commands and editors name the files and packages of the project.        *)
ASSUME ProjectAssumption ==
    /\ Names # {} /\ Nobody \notin Runners
    /\ \A c \in Commands :
          /\ c.op \in Guarded \cup Unguarded /\ c.target \in {"root", "member"}
          /\ c.op \in {"add", "link", "remove"} => c.name \in Names
          /\ c.op \in {"add", "link"} => c.section \in Sections
    /\ \A s \in Saves : s.file \in {"root", "member"} /\ s.doc \in Declarations \cup {Broken}

(* find_project_lock: bpm.lock first, then package-lock.json, yarn.lock    *)
(* and pnpm-lock.yaml (the last two only beside a package.json).           *)
Kind ==
    IF locks.bpm # NoLock THEN "bpm" ELSE
    IF locks.npm # NoLock THEN "npm" ELSE
    IF locks.yarn # NoLock THEN "yarn" ELSE "none"

(* What loading the selected lock yields.  package-lock.json keeps its own *)
(* root declarations and takes the split into sections from package.json;  *)
(* yarn.lock and pnpm-lock.yaml have no declarations and take them all.    *)
Split(lock) ==
    [lock EXCEPT !.root = [n \in Names |->
        IF lock.root[n] = "none" THEN "none" ELSE
        IF docs.root[n] \in {"dev", "optional"} THEN docs.root[n] ELSE "prod"]]
Loaded(kind) ==
    CASE kind = "bpm" -> locks.bpm
      [] kind = "npm" -> Split(locks.npm)
      [] kind = "yarn" -> [locks.yarn EXCEPT !.root = docs.root]
      [] OTHER -> NoLock
Loads(kind) ==
    CASE kind = "bpm" -> locks.bpm # Torn
      [] kind = "npm" -> Readable(docs.root)
      [] kind = "yarn" -> Readable(docs.root) /\ Declared(docs.root) \subseteq Declared(locks.yarn.root)
      [] OTHER -> TRUE

(* serialize_lock: an npm project keeps its package-lock.json, every other *)
(* one gets a bpm.lock.                                                    *)
Slot(kind) == IF kind = "npm" THEN "npm" ELSE "bpm"

(* manifest_lock_drifted: the declared names and specifications, whatever  *)
(* section they are in.  A package.json that cannot be read is no drift.   *)
Drifted(lock) == Readable(docs.root) /\ Declared(docs.root) # Declared(lock.root)

(* enforce_frozen: the declarations and their sections.                    *)
FrozenAccepts(lock) == Readable(docs.root) /\ docs.root = lock.root

(* The agreement between the root manifest and the selected lock that the  *)
(* commands so far owe: none, the same names, or the same sections too.    *)
Owed == {"nothing", "names", "sections"}
PairAgrees ==
    LET lock == Loaded(Kind)
    IN  CASE settled = "nothing" -> TRUE
          [] settled = "names" -> Readable(docs.root) /\ Declared(docs.root) = Declared(lock.root)
          [] OTHER -> Readable(docs.root) /\ docs.root = lock.root

TypeOK ==
    /\ docs \in [{"root", "member"} -> Declarations \cup {Broken}]
    /\ locks \in [{"bpm", "npm", "yarn"} -> Locks \cup {NoLock, Torn}]
    /\ spool \in Locks \cup {NoLock, Torn}
    /\ guard \in Runners \cup {Nobody}
    /\ view \in Locks \cup {NoLock}
    /\ registry \in 0 .. 1
    /\ \A p \in Runners : fd[p] # "none" => Is(p, "fill")
    /\ left \in 0 .. MaxCommands /\ edits \in 0 .. MaxEdits /\ faults \in 0 .. MaxFaults
    /\ settled \in Owed /\ shown \in BOOLEAN /\ kept \in BOOLEAN
    /\ fd \in [Runners -> {"none", "spool", "lock", "gone"}]

Start(kind) ==
    LET first == [n \in Names |-> "none"]
        lock == [root |-> first, member |-> first, seen |-> 0, full |-> FALSE]
    IN  /\ docs = [d \in {"root", "member"} |-> first]
        /\ locks = [bpm |-> NoLock, npm |-> IF kind = "npm" THEN lock ELSE NoLock,
                    yarn |-> IF kind = "yarn" THEN lock ELSE NoLock]

ProjectInit(commands, saves, failures, generation) ==
    /\ \E kind \in ForeignKinds : Start(kind)
    /\ spool = NoLock /\ guard = Nobody /\ view = NoLock /\ registry = generation
    /\ run = [p \in Runners |-> Idle]
    /\ left = commands /\ edits = saves /\ faults = failures
    /\ settled = "nothing" /\ shown = FALSE
    /\ fd = [p \in Runners |-> "none"] /\ asked = docs /\ kept = TRUE

----------------------------------------------------------------------------
(* How a command moves and how it ends.  `alone` is kept while no edit and *)
(* no command without the guard overlaps it (an unguarded command: while   *)
(* nothing does): what a command owes is only owed then.                   *)
Move(p, place) == run' = [run EXCEPT ![p].at = place]
Fault == faults > 0 /\ faults' = faults - 1

End(p, owes, shows) ==
    /\ run' = [run EXCEPT ![p] = Idle]
    /\ guard' = IF guard = p THEN Nobody ELSE guard
    /\ settled' = IF run[p].alone THEN owes ELSE "nothing"
    /\ shown' = (run[p].alone /\ shows)

(* Mutant: the early returns forget to let go of the guard.                *)
RefuseHolding(p) ==
    /\ run' = [run EXCEPT ![p] = Idle]
    /\ UNCHANGED <<guard, settled, shown>>

(* A command that fails before it wrote anything leaves what was owed.     *)
Refuse(p) == End(p, settled, shown)

(* Starting: the lock is located (and, for an npm or yarn project, read)   *)
(* before the guard.  `link <name>` needs a registered link first.         *)
Begin(p, c) ==
    /\ ~Active(p) /\ left > 0 /\ left' = left - 1
    /\ c.op \in Unguarded => Cardinality({q \in Runners : Active(q) /\ Op(q) \in Unguarded}) < MaxUnguarded
    /\ Loads(Kind)
    /\ c.op = "link" => Resolved(c.name) # NoTarget
    /\ c.op = "import" => \E k \in {"npm", "yarn"} : locks[k] # NoLock
    /\ LET clash(q) == Active(q) /\ (c.op \in Unguarded \/ Op(q) \in Unguarded)
           place == IF c.op \in Guarded THEN "guard" ELSE
                    IF c.op = "import" THEN "import" ELSE "found"
       IN  run' = [q \in Runners |->
               IF q = p THEN [at |-> place, cmd |-> c, kind |-> Kind, lock |-> Loaded(Kind), doc |-> Broken,
                              docWas |-> Broken, lockWas |-> NoLock, began |-> <<>>,
                              alone |-> \A r \in Runners : ~clash(r)]
               ELSE IF clash(q) THEN [run[q] EXCEPT !.alone = FALSE] ELSE run[q]]
    /\ UNCHANGED <<docs, locks, spool, guard, view, registry, edits, faults, settled, shown, fd, ghosts>>

(* acquire_project_mutation_guard, after the targets of `add` have been    *)
(* resolved (which may fail and end the command).                          *)
Acquire(p) ==
    /\ Is(p, "guard") /\ guard = Nobody
    /\ guard' = p
    /\ run' = [run EXCEPT ![p].at = "edit", ![p].began = <<docs, locks>>]
    /\ UNCHANGED <<docs, locks, spool, view, registry, left, edits, faults, settled, shown, fd, ghosts>>

Unresolved(p) ==
    /\ Is(p, "guard") /\ Fault
    /\ Refuse(p)
    /\ UNCHANGED <<docs, locks, spool, view, registry, left, edits, fd, ghosts>>

(* Mutant: the section is created anew, without the entries it had.        *)
AddDependencyAfresh(doc, n, section) ==
    [m \in Names |-> IF m = n THEN section ELSE IF doc[m] = section THEN "none" ELSE doc[m]]

(* ManifestDocument::add_dependency: a name in `optionalDependencies` is   *)
(* ambiguous; adding to one of the other two sections leaves the other.    *)
Ambiguous(doc, n) == doc[n] = "optional"
AddDependency(doc, n, section) == [doc EXCEPT ![n] = section]
RemoveDependency(doc, n) == [doc EXCEPT ![n] = "none"]

Target(p) == Cmd(p).target
Was(p) == docs[Target(p)]
Edited(p) ==
    CASE Op(p) \in {"add", "link"} -> AddDependency(Was(p), Cmd(p).name, Cmd(p).section)
      [] Op(p) = "remove" -> RemoveDependency(Was(p), Cmd(p).name)
      [] OTHER -> Was(p)

(* When each command ends before it resolves anything: `add` and `remove`  *)
(* with nothing to change, an ambiguous name, and a named upgrade without  *)
(* a declared name or a lock with resolution data that matches.            *)
AddRefused(p) == Ambiguous(Was(p), Cmd(p).name) \/ Edited(p) = Was(p)
LinkRefused(p) == Ambiguous(Was(p), Cmd(p).name)
RemoveRefused(p) == Was(p)[Cmd(p).name] = "none"
Named(p) == Op(p) = "upgrade" /\ Cmd(p).name \in Names
UpgradeRefused(p) ==
    \/ ~Loads(Kind)
    \/ /\ Named(p)
       /\ LET lock == Loaded(Kind)
          IN  \/ docs.root[Cmd(p).name] = "none"
              \/ Kind = "none" \/ ~lock.full
              \/ Declared(lock.root) # Declared(docs.root)
DedupeRefused(p) == ~Loads(Kind)
Refused(p) ==
    \/ ~Readable(Was(p))
    \/ Op(p) = "add" /\ AddRefused(p)
    \/ Op(p) = "link" /\ LinkRefused(p)
    \/ Op(p) = "remove" /\ RemoveRefused(p)
    \/ Op(p) = "upgrade" /\ UpgradeRefused(p)
    \/ Op(p) = "dedupe" /\ DedupeRefused(p)

(* The manifest is read and edited in memory.                              *)
Edit(p) ==
    /\ Is(p, "edit")
    /\ IF Refused(p)
       THEN Refuse(p)
       ELSE /\ run' = [run EXCEPT ![p].at = "resolve", ![p].doc = Edited(p), ![p].lock = Loaded(Kind)]
            /\ UNCHANGED <<guard, settled, shown>>
    /\ UNCHANGED <<docs, locks, spool, view, registry, left, edits, faults, fd, ghosts>>

(* resolve_workspace_graph: an edited member is resolved in place of the   *)
(* one on disk, below the root manifest as it is on disk now.  A named     *)
(* upgrade keeps what the prior lock says of the members.                  *)
UpgradeLock(p, fresh) == IF Named(p) THEN [fresh EXCEPT !.member = run[p].lock.member] ELSE fresh
Resolve(p) ==
    /\ Is(p, "resolve")
    /\ LET member == Target(p) = "member"
           root == IF member THEN docs.root ELSE run[p].doc
           fresh == Lock(root, IF member THEN run[p].doc ELSE docs.member, TRUE)
           linked == Op(p) = "link" => Resolved(Cmd(p).name) # NoTarget
       IN  IF Readable(root) /\ Readable(docs.member) /\ linked
           THEN /\ run' = [run EXCEPT ![p].lock = UpgradeLock(p, fresh),
                                      ![p].at = IF Op(p) \in {"upgrade", "dedupe"} THEN "replace" ELSE "capture"]
                /\ UNCHANGED <<guard, settled, shown>>
           ELSE Refuse(p)
    /\ UNCHANGED <<docs, locks, spool, view, registry, left, edits, faults, fd, ghosts>>

(* Resolution, the export of package-lock.json, or the reading of the      *)
(* originals fails.                                                        *)
Unpublished(p) ==
    /\ run[p].at \in {"resolve", "capture", "replace"} /\ Fault
    /\ Refuse(p)
    /\ UNCHANGED <<docs, locks, spool, view, registry, left, edits, fd, ghosts>>

----------------------------------------------------------------------------
(* A lock file is replaced by a rename: a process still writing the old    *)
(* file writes one that has no name any more.                              *)
Replaced(q) == IF fd[q] = "lock" THEN "gone" ELSE fd[q]
Replaces(p, lock) ==
    /\ locks' = [locks EXCEPT ![Slot(run[p].kind)] = lock]
    /\ fd' = IF Slot(run[p].kind) = "bpm" THEN [q \in Runners |-> Replaced(q)] ELSE fd

(* manifest_edit::publish: both files as they were, two synchronised       *)
(* temporary files, the lock replaced, then the manifest.                  *)
Capture(p) ==
    /\ Is(p, "capture")
    /\ run' = [run EXCEPT ![p].at = "lock", ![p].docWas = docs[Target(p)],
                          ![p].lockWas = locks[Slot(run[p].kind)]]
    /\ UNCHANGED <<docs, locks, spool, guard, view, registry, left, edits, faults, settled, shown, fd, ghosts>>

PublishLock(p) ==
    /\ Is(p, "lock")
    /\ Replaces(p, run[p].lock)
    /\ \/ Move(p, "manifest") /\ UNCHANGED faults
       \/ Fault /\ Move(p, "restoreLock")       \* renamed, but the directory was not synchronised
    /\ UNCHANGED <<docs, spool, guard, view, registry, left, edits, settled, shown, ghosts>>

(* Mutant: the guard is let go once both files are published.              *)
PublishManifestReleasing(p) ==
    /\ Is(p, "manifest")
    /\ docs' = [docs EXCEPT ![Target(p)] = run[p].doc]
    /\ guard' = Nobody
    /\ Move(p, "materialize")
    /\ asked' = [asked EXCEPT ![Target(p)][Cmd(p).name] = run[p].doc[Cmd(p).name]]
    /\ UNCHANGED <<locks, spool, view, registry, left, edits, settled, shown, kept, fd, faults>>

PublishManifest(p) ==
    /\ Is(p, "manifest")
    /\ docs' = [docs EXCEPT ![Target(p)] = run[p].doc]
    /\ \/ /\ Move(p, "materialize")
          /\ asked' = [asked EXCEPT ![Target(p)][Cmd(p).name] = run[p].doc[Cmd(p).name]]
          /\ UNCHANGED faults
       \/ Fault /\ Move(p, "restoreLock") /\ UNCHANGED asked
    /\ UNCHANGED <<locks, spool, guard, view, registry, left, edits, settled, shown, kept, fd>>

(* A temporary file cannot be written or a rename fails: both files are    *)
(* restored, published or not.                                             *)
PublishFails(p) ==
    /\ run[p].at \in {"lock", "manifest"} /\ Fault
    /\ Move(p, "restoreLock")
    /\ UNCHANGED <<docs, locks, spool, guard, view, registry, left, edits, settled, shown, fd, ghosts>>

(* Mutant: the rollback forgets the lock.                                  *)
RestoreLockNot(p) ==
    /\ Is(p, "restoreLock")
    /\ Move(p, "restoreManifest")
    /\ UNCHANGED <<docs, locks, spool, guard, view, registry, left, edits, faults, settled, shown, fd, ghosts>>

RestoreLock(p) ==
    /\ Is(p, "restoreLock")
    /\ Replaces(p, run[p].lockWas)
    /\ Move(p, "restoreManifest")
    /\ UNCHANGED <<docs, spool, guard, view, registry, left, edits, faults, settled, shown, ghosts>>

(* The end of a complete rollback: what was owed before is owed again.     *)
RestoreManifest(p) ==
    /\ Is(p, "restoreManifest")
    /\ docs' = [docs EXCEPT ![Target(p)] = run[p].docWas]
    /\ Refuse(p)
    /\ UNCHANGED <<locks, spool, view, registry, left, edits, faults, fd, ghosts>>

(* One of the two restorations fails, and the error says so.               *)
RollbackFails(p) ==
    /\ run[p].at \in {"restoreLock", "restoreManifest"} /\ Fault
    /\ \/ /\ Is(p, "restoreLock")
          /\ Move(p, "restoreOther")
          /\ UNCHANGED <<guard, settled, shown, kept>>
       \/ /\ Is(p, "restoreManifest")
          /\ End(p, "nothing", FALSE)
          /\ kept' = FALSE
    /\ UNCHANGED <<docs, locks, spool, view, registry, left, edits, asked, fd>>

(* The manifest is restored all the same when the lock could not be.       *)
RestoreOther(p) ==
    /\ Is(p, "restoreOther")
    /\ docs' = [docs EXCEPT ![Target(p)] = run[p].docWas]
    /\ End(p, "nothing", FALSE)
    /\ UNCHANGED <<locks, spool, view, registry, left, edits, faults, fd, ghosts>>

(* upgrade and dedupe replace the lock alone (publish_bytes).  A failure   *)
(* after the rename is reported, and the new lock stays.                   *)
ReplaceLock(p) ==
    /\ Is(p, "replace")
    /\ Replaces(p, run[p].lock)
    /\ \/ Move(p, "materialize") /\ UNCHANGED <<guard, settled, shown, faults>>
       \/ Fault /\ End(p, "sections", FALSE)
    /\ UNCHANGED <<docs, spool, view, registry, left, edits, ghosts>>

----------------------------------------------------------------------------
(* install and ci: the located lock is replayed, unless a bpm.lock has     *)
(* drifted (install) or the sections disagree (ci, which refuses).         *)
(* Mutant: ci compares the names only.                                     *)
FoundLaxly(p) ==
    /\ Is(p, "found")
    /\ IF Op(p) = "ci" /\ (Drifted(run[p].lock) \/ run[p].kind = "none" \/ ~Readable(docs.root))
       THEN Refuse(p)
       ELSE /\ Move(p, IF Op(p) = "install" /\ run[p].kind \in {"bpm", "none"}
                          /\ (run[p].kind = "bpm" => Drifted(run[p].lock))
                       THEN "fresh" ELSE "materialize")
            /\ UNCHANGED <<guard, settled, shown>>
    /\ UNCHANGED <<docs, locks, spool, view, registry, left, edits, faults, fd, ghosts>>

Found(p) ==
    /\ Is(p, "found")
    /\ IF Op(p) = "ci" /\ (run[p].kind = "none" \/ ~FrozenAccepts(run[p].lock))
       THEN Refuse(p)
       ELSE /\ Move(p, IF Op(p) = "install" /\ run[p].kind \in {"bpm", "none"}
                          /\ (run[p].kind = "bpm" => Drifted(run[p].lock))
                       THEN "fresh" ELSE "materialize")
            /\ UNCHANGED <<guard, settled, shown>>
    /\ UNCHANGED <<docs, locks, spool, view, registry, left, edits, faults, fd, ghosts>>

(* The manifests are read and the whole graph resolved again.              *)
ResolveFresh(p) ==
    /\ Is(p, "fresh")
    /\ IF Readable(docs.root) /\ Readable(docs.member)
       THEN /\ run' = [run EXCEPT ![p].at = "spool", ![p].lock = Lock(docs.root, docs.member, TRUE)]
            /\ UNCHANGED <<guard, settled, shown>>
       ELSE Refuse(p)
    /\ UNCHANGED <<docs, locks, spool, view, registry, left, edits, faults, fd, ghosts>>

(* import converts the foreign lock into a bpm.lock without the resolution *)
(* data, whatever bpm.lock there is.                                       *)
Import(p) ==
    /\ Is(p, "import")
    /\ LET kind == IF locks.npm # NoLock THEN "npm" ELSE "yarn"
       IN  IF Loads(kind)
           THEN /\ run' = [run EXCEPT ![p].at = "spool", ![p].lock = [Loaded(kind) EXCEPT !.full = FALSE]]
                /\ UNCHANGED <<guard, settled, shown>>
           ELSE Refuse(p)
    /\ UNCHANGED <<docs, locks, spool, view, registry, left, edits, faults, fd, ghosts>>

(* Lockfile::write_to: a sibling file of a fixed name is opened and        *)
(* truncated, written, and renamed.  A file that another process renames   *)
(* while it is open is written where it is by then.                        *)
OpenSpool(p) ==
    /\ Is(p, "spool")
    /\ spool' = Torn
    /\ fd' = [fd EXCEPT ![p] = "spool"]
    /\ Move(p, "fill")
    /\ UNCHANGED <<docs, locks, guard, view, registry, left, edits, faults, settled, shown, ghosts>>

FillSpool(p) ==
    /\ Is(p, "fill")
    /\ spool' = IF fd[p] = "spool" THEN run[p].lock ELSE spool
    /\ locks' = IF fd[p] = "lock" THEN [locks EXCEPT !.bpm = run[p].lock] ELSE locks
    /\ fd' = [fd EXCEPT ![p] = "none"]
    /\ Move(p, "rename")
    /\ UNCHANGED <<docs, guard, view, registry, left, edits, faults, settled, shown, ghosts>>

(* The rename fails when another process has renamed the file first.       *)
RenameSpool(p) ==
    /\ Is(p, "rename")
    /\ IF spool = NoLock
       THEN End(p, "nothing", FALSE) /\ UNCHANGED <<spool, locks, fd>>
       ELSE /\ spool' = NoLock
            /\ locks' = [locks EXCEPT !.bpm = spool]
            /\ fd' = [q \in Runners |-> IF fd[q] = "spool" THEN "lock" ELSE Replaced(q)]
            /\ IF Op(p) = "import"
               THEN End(p, "nothing", FALSE)
               ELSE Move(p, "materialize") /\ UNCHANGED <<guard, settled, shown>>
    /\ UNCHANGED <<docs, view, registry, left, edits, faults, ghosts>>

SpoolFails(p) ==
    /\ run[p].at \in {"fresh", "spool", "fill", "rename"} /\ Fault
    /\ Refuse(p)
    /\ fd' = [fd EXCEPT ![p] = "none"]
    /\ UNCHANGED <<docs, locks, spool, view, registry, left, edits, ghosts>>

(* install_resolved_lockfile with the lock in memory.  A plain install of  *)
(* a foreign lock does not look at the manifest and owes no agreement.     *)
Owes(p) ==
    IF Op(p) \in Guarded \cup {"ci"} THEN "sections" ELSE
    IF run[p].kind \in {"bpm", "none"} /\ Readable(docs.root) THEN "names" ELSE "nothing"
Materialize(p) ==
    /\ Is(p, "materialize")
    /\ \/ view' = run[p].lock /\ End(p, Owes(p), TRUE) /\ UNCHANGED faults
       \/ Fault /\ End(p, Owes(p), FALSE) /\ UNCHANGED view
    /\ UNCHANGED <<docs, locks, spool, registry, left, edits, fd, ghosts>>

----------------------------------------------------------------------------
Restoring == {"restoreLock", "restoreManifest", "restoreOther"}
Kill(p) ==
    /\ Active(p) /\ Fault
    /\ End(p, "nothing", FALSE)
    /\ kept' = (kept /\ run[p].at \notin Restoring)
    /\ fd' = [fd EXCEPT ![p] = "none"]
    /\ UNCHANGED <<docs, locks, spool, view, registry, left, edits, asked>>

(* An editor saves one of the manifests, at any time.                      *)
Save(d, doc) ==
    /\ edits > 0 /\ edits' = edits - 1
    /\ docs' = [docs EXCEPT ![d] = doc]
    /\ run' = [q \in Runners |-> IF Active(q) THEN [run[q] EXCEPT !.alone = FALSE] ELSE run[q]]
    /\ settled' = "nothing" /\ shown' = FALSE
    /\ asked' = docs' /\ kept' = (kept /\ \A q \in Runners : ~Active(q))
    /\ UNCHANGED <<locks, spool, fd, guard, view, registry, left, faults>>

Advance ==
    /\ registry = 0 /\ registry' = 1
    /\ UNCHANGED <<docs, locks, spool, guard, view, run, left, edits, faults, settled, shown, fd, ghosts>>

Step(p) ==
    \/ Acquire(p) \/ Edit(p) \/ Resolve(p) \/ Capture(p)
    \/ PublishLock(p) \/ PublishManifest(p) \/ RestoreLock(p) \/ RestoreManifest(p) \/ RestoreOther(p) \/ ReplaceLock(p)
    \/ Found(p) \/ ResolveFresh(p) \/ Import(p) \/ OpenSpool(p) \/ FillSpool(p) \/ RenameSpool(p)
    \/ Materialize(p)
Trouble(p) ==
    Unresolved(p) \/ Unpublished(p) \/ PublishFails(p) \/ RollbackFails(p) \/ SpoolFails(p) \/ Kill(p)

ProjectNext ==
    \/ \E p \in Runners : (\E c \in Commands : Begin(p, c)) \/ Step(p) \/ Trouble(p)
    \/ \E s \in Saves : Save(s.file, s.doc)
    \/ Advance

(* Any number of commands, edits and faults, from any generation of the    *)
(* registry on, whatever is linked and unlinked meanwhile.                 *)
ProjectSpec ==
    /\ \E commands, saves, failures \in Nat, generation \in 0 .. 1 : ProjectInit(commands, saves, failures, generation)
    /\ [][ProjectNext]_vars

(***************************************************************************)
(* Correctness.                                                            *)
(***************************************************************************)
Quiet == \A p \in Runners : ~Active(p)

(* Once no command runs, package.json and the selected lock declare the    *)
(* same packages, after any command that ends without having been          *)
(* interfered with: after a mutation whose publication failed and was      *)
(* rolled back, after an `install` that found the pair torn by a kill      *)
(* between the two renames, and after a `ci`, which never accepts a lock   *)
(* whose sections differ.                                                  *)
QuietPairAgrees == Quiet => PairAgrees

(* Once no command runs, node_modules is what the selected lock says: an   *)
(* older graph never replaces a newer one in the view while the guard      *)
(* orders the commands.                                                    *)
ViewIsLock == Quiet /\ shown => view = Loaded(Kind)

(* No mutation's edit of package.json is lost: whatever the order in which *)
(* guarded commands run, fail and roll back, the manifests declare what    *)
(* the edits that went through asked for.                                  *)
NoLostEdit == kept /\ (\A p \in Runners : run[p].at \notin Restoring) => docs = asked

(* Commands that follow, fail and roll back beside one another leave       *)
(* manifest, lock and view in agreement and lose no edit.                  *)
ProjectConsistent == QuietPairAgrees /\ ViewIsLock /\ NoLostEdit

(* A publication that fails and reports "project files were restored" has  *)
(* put both files back as they were when the command took the guard.       *)
RolledBack ==
    [][\A p \in Runners : Is(p, "restoreManifest") /\ run[p].alone /\ RestoreManifest(p) => <<docs, locks>>' = run[p].began]_vars

(* Every command comes to an end, and lets the next one take the guard.    *)
CommandsEnd == \A p \in Runners : Active(p) ~> ~Active(p)

(* lockfile.rs promises that write_to is atomic: a reader never finds a    *)
(* partly written bpm.lock.                                                *)
LockNeverTorn == locks.bpm # Torn
=============================================================================
