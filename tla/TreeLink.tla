------------------------------- MODULE TreeLink -------------------------------
(***************************************************************************)
(* src/materializer.rs: one package image is made visible at a target by a *)
(* backend, file by file or as a whole, falling back when the file system  *)
(* cannot.  What a call of the system answers is part of the input:        *)
(*   disk.reflink, disk.hardlink, disk.copy : file -> "ok", "unsupported"  *)
(*   or "broken"; disk.index: "none", "valid" or "corrupt"; disk.platform; *)
(*   disk.target: what is at the target before.                            *)
(* A view gives each file as "alias" (one inode with the store), "clone",  *)
(* "copy" or "absent"; Link is the image behind a symbolic link.           *)
(***************************************************************************)
EXTENDS Naturals, Sequences, SequencesExt

Files == 1 .. 3
Link == [f \in Files |-> "through the link"]
Nothing == [f \in Files |-> "absent"]
Outcome(ok, view) == [ok |-> ok, view |-> view]

TryReflinkFile(disk, f) == IF disk.platform \in {"linux", "macos"} THEN disk.reflink[f] ELSE "unsupported"

CopyFilePreservingMtime(disk, f) == IF disk.copy[f] = "ok" THEN "copy" ELSE "absent"

HardlinkOrCopyFile(disk, f) == IF disk.hardlink[f] = "ok" THEN "alias" ELSE CopyFilePreservingMtime(disk, f)

(* Mutant: a file that cannot be cloned is linked. *)
ReflinkOrHardlinkFile(disk, f) ==
    CASE TryReflinkFile(disk, f) = "ok" -> "clone"
      [] TryReflinkFile(disk, f) = "unsupported" -> HardlinkOrCopyFile(disk, f)
      [] OTHER -> "absent"

(* reflink_or_fallback_file: only a file system without clones falls back. *)
ReflinkOrFallbackFile(disk, f) ==
    CASE TryReflinkFile(disk, f) = "ok" -> "clone"
      [] TryReflinkFile(disk, f) = "unsupported" -> CopyFilePreservingMtime(disk, f)
      [] OTHER -> "absent"

(* link_entries_from_index and link_tree_by_walking_directory: the first   *)
(* file that fails ends the call and leaves what was linked before it;     *)
(* linked[f] is what link_file makes of f, "absent" when it fails.         *)
LinkEntries(linked) ==
    LET Add(done, f) ==
            IF ~done.ok THEN done ELSE Outcome(linked[f] # "absent", [done.view EXCEPT ![f] = linked[f]])
    IN  FoldLeft(Add, Outcome(TRUE, Nothing), [f \in Files |-> f])

(* Mutant: the old view is removed before the index is read. *)
BadIndexAfterRemoval(disk) == Outcome(FALSE, Nothing)

(* link_tree decodes a sidecar index before it removes the target.         *)
BadIndex(disk) == Outcome(FALSE, disk.target)

LinkTree(disk, linked) == IF disk.index = "corrupt" THEN BadIndex(disk) ELSE LinkEntries(linked)

HardlinkTree(disk) == LinkTree(disk, [f \in Files |-> HardlinkOrCopyFile(disk, f)])

CopyTree(disk) == LinkEntries([f \in Files |-> CopyFilePreservingMtime(disk, f)])

(* clonefile_directory: one call, all or nothing; asked of file 1 here.    *)
ClonefileDirectory(disk) == TryReflinkFile(disk, 1)

(* reflink_tree; on macOS the target is gone before the index is read.     *)
ReflinkTree(disk) ==
    LET reflinked == [f \in Files |-> ReflinkOrFallbackFile(disk, f)] IN
    CASE disk.platform = "macos" ->
            (CASE ClonefileDirectory(disk) = "ok" -> Outcome(TRUE, [f \in Files |-> "clone"])
               [] ClonefileDirectory(disk) = "broken" -> Outcome(FALSE, Nothing)
               [] OTHER -> LinkTree([disk EXCEPT !.target = Nothing], reflinked))
      [] disk.platform = "linux" -> LinkTree(disk, reflinked)
      [] OTHER -> CopyTree(disk)

(* link_path: a directory at the link's place cannot be read as a link.    *)
LinkPath(disk) ==
    IF disk.platform = "windows" \/ disk.target \notin {Nothing, Link}
    THEN Outcome(FALSE, disk.target)
    ELSE Outcome(TRUE, Link)

(* link_one_backend                                                        *)
LinkOneBackend(disk, backend) ==
    CASE backend = "Symlink" -> LinkPath(disk)
      [] backend = "Hardlink" -> HardlinkTree(disk)
      [] backend = "IsolatedCopy" -> CopyTree(disk)
      [] backend = "Reflink" -> ReflinkTree(disk)
      [] backend = "Auto" -> IF disk.platform = "windows" /\ disk.target \in {Nothing, Link}
                             THEN CopyTree(disk) ELSE LinkPath(disk)

(* probe_fs_capabilities clones a file of its own; preferred_backend.      *)
ProbeFsCapabilities(disk) ==
    [hardlink |-> disk.hardlink[1] = "ok",
     reflink |-> disk.platform # "windows" /\ TryReflinkFile(disk, 1) = "ok"]
PreferredBackend(caps) == IF caps.reflink THEN "Reflink" ELSE "IsolatedCopy"
-----------------------------------------------------------------------------
(* A backend for project views never gives a project a writable alias of   *)
(* the store, also when it falls back for some files or stops half way,    *)
(* and what it calls a success has every file.                             *)
ViewIsolated(disk, asked) ==
    LET backend == IF asked = "preferred" THEN PreferredBackend(ProbeFsCapabilities(disk)) ELSE asked
        out == LinkOneBackend(disk, backend)
    IN  /\ (backend \in {"Reflink", "IsolatedCopy"} /\ out.view # disk.target) =>
               \A f \in Files : out.view[f] \in {"clone", "copy", "absent"}
        /\ out.ok => \A f \in Files : out.view[f] # "absent"

(* link_tree: a corrupt index leaves the view that is there, off macOS.    *)
CorruptIndexKeepsView(disk) ==
    (disk.index = "corrupt" /\ disk.platform = "linux") =>
        \A backend \in {"Hardlink", "Reflink"} : LinkOneBackend(disk, backend).view = disk.target
=============================================================================
