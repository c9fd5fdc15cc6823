----------------------------- MODULE SourceCache -----------------------------
(***************************************************************************)
(* src/resolver/sources.rs: processes resolve one git dependency through   *)
(* caches in the temporary directory that they share: normalised archives, *)
(* clones and extracted source trees, each under a key of url and commit.  *)
(* A key has a lock per cache; a result is built in a private scratch path *)
(* and renamed into place while the lock is held.                          *)
(*                                                                         *)
(* A cached result is the commit whose files it holds; Torn stands for one *)
(* without a readable manifest, which an earlier writer left behind.       *)
(***************************************************************************)
EXTENDS Naturals, FiniteSets

CONSTANTS
    Resolvers,    \* processes
    References,   \* subset of {"branch"} and the commits
    Remotes,      \* subset of {"hosted", "daemon", "directory"}
    MaxMoves,     \* pushes to the branch
    MaxKills,     \* processes killed
    Nobody, Torn

Commits == {"a", "b"}
Caches == {"archive", "clone", "source-tree"}
Missing == "absent"

ASSUME SourceAssumption ==
    References \subseteq {"branch"} \cup Commits /\ Torn \notin Commits /\ Nobody \notin Resolvers

VARIABLES remote, branch, moves, kills, cached, lock, scratch, at, reference, commit, content
sourceVars == <<remote, branch, moves, kills, cached, lock, scratch, at, reference, commit, content>>
world3 == <<remote, branch, moves, kills>>

SourceInit ==
    /\ remote \in Remotes
    /\ branch = "a" /\ moves = 0 /\ kills = 0
    /\ \E left \in {Missing, Torn} :
          cached = [k \in Caches |-> [c \in Commits |-> IF c = "a" THEN left ELSE Missing]]
    /\ lock = [k \in Caches |-> [c \in Commits |-> Nobody]]
    /\ scratch = [r \in Resolvers |-> "none"]
    /\ at = [r \in Resolvers |-> "start"]
    /\ reference \in [Resolvers -> References]
    /\ commit = [r \in Resolvers |-> Missing]
    /\ content = [r \in Resolvers |-> Missing]

(* The branch is external to the program.                                  *)
MoveBranch ==
    /\ moves < MaxMoves /\ moves' = moves + 1
    /\ branch' = "b"
    /\ UNCHANGED <<remote, kills, cached, lock, scratch, at, reference, commit, content>>

(* resolve_git_commit: a full commit is itself, a name is asked for.       *)
ResolveGitCommit(r) ==
    /\ at[r] = "start"
    /\ commit' = [commit EXCEPT ![r] = IF reference[r] = "branch" THEN branch ELSE reference[r]]
    /\ at' = [at EXCEPT ![r] = IF remote = "hosted" THEN "download" ELSE "lock archive"]
    /\ UNCHANGED <<world3, cached, lock, scratch, reference, content>>

(* hosted_git_tarball_url, read_source_bytes: the url names the commit.    *)
DownloadHosted(r) ==
    /\ at[r] = "download"
    /\ content' = [content EXCEPT ![r] = commit[r]]
    /\ at' = [at EXCEPT ![r] = "lock tree"]
    /\ UNCHANGED <<world3, cached, lock, scratch, reference, commit>>

(* source_lock                                                             *)
SourceLock(r, cache) ==
    /\ lock[cache][commit[r]] = Nobody
    /\ lock' = [lock EXCEPT ![cache][commit[r]] = r]

Freed(r) == [k \in Caches |-> [c \in Commits |-> IF lock[k][c] = r THEN Nobody ELSE lock[k][c]]]
FreedOf(r, cache) == [lock EXCEPT ![cache][commit[r]] = IF @ = r THEN Nobody ELSE @]

(* git_archive_tarball up to the git command: a cached file is validated   *)
(* under the lock, and removed when that fails.                            *)
OpenArchive(r) ==
    /\ at[r] = "lock archive"
    /\ SourceLock(r, "archive")
    /\ at' = [at EXCEPT ![r] = "check archive"]
    /\ UNCHANGED <<world3, cached, scratch, reference, commit, content>>

ValidateGitArchiveCache(r) == cached["archive"][commit[r]] \in Commits

CheckArchive(r) ==
    /\ at[r] = "check archive"
    /\ IF ValidateGitArchiveCache(r)
       THEN /\ at' = [at EXCEPT ![r] = "read archive"]
            /\ lock' = FreedOf(r, "archive")
            /\ UNCHANGED cached
       ELSE /\ at' = [at EXCEPT ![r] = "git archive"]
            /\ cached' = [cached EXCEPT !["archive"][commit[r]] = Missing]
            /\ UNCHANGED lock
    /\ UNCHANGED <<world3, scratch, reference, commit, content>>

(* git archive --remote takes the user's reference, not the commit.  The   *)
(* fallback is for a reference that is a commit; a local directory needs   *)
(* no clone.                                                               *)
GitArchive(r) ==
    /\ at[r] = "git archive"
    /\ \/ /\ content' = [content EXCEPT ![r] = IF reference[r] = "branch" THEN branch ELSE commit[r]]
          /\ at' = [at EXCEPT ![r] = "write archive"]
       \/ /\ reference[r] # "branch" /\ remote = "directory"
          /\ content' = [content EXCEPT ![r] = commit[r]]
          /\ at' = [at EXCEPT ![r] = "write archive"]
       \/ /\ reference[r] # "branch" /\ remote = "daemon"
          /\ at' = [at EXCEPT ![r] = "lock clone"]
          /\ UNCHANGED content
    /\ UNCHANGED <<world3, cached, lock, scratch, reference, commit>>

OpenClone(r) ==
    /\ at[r] = "lock clone"
    /\ SourceLock(r, "clone")
    /\ at' = [at EXCEPT ![r] = "clone"]
    /\ UNCHANGED <<world3, cached, scratch, reference, commit, content>>

(* archive_git_commit_locally: an unusable clone is removed, ...           *)
CloneRepository(r) ==
    /\ at[r] = "clone"
    /\ IF cached["clone"][commit[r]] \in Commits
       THEN at' = [at EXCEPT ![r] = "fetch"] /\ UNCHANGED <<cached, scratch>>
       ELSE /\ cached' = [cached EXCEPT !["clone"][commit[r]] = Missing]
            /\ scratch' = [scratch EXCEPT ![r] = "clone"]
            /\ at' = [at EXCEPT ![r] = "publish clone"]
    /\ UNCHANGED <<world3, lock, reference, commit, content>>

(* ... a rename onto a directory that is not empty fails.                  *)
PublishClone(r) ==
    /\ at[r] = "publish clone" /\ cached["clone"][commit[r]] = Missing
    /\ cached' = [cached EXCEPT !["clone"][commit[r]] = commit[r]]
    /\ scratch' = [scratch EXCEPT ![r] = "none"]
    /\ at' = [at EXCEPT ![r] = "fetch"]
    /\ UNCHANGED <<world3, lock, reference, commit, content>>

FetchCommit(r) ==
    /\ at[r] = "fetch"
    /\ content' = [content EXCEPT ![r] = commit[r]]
    /\ lock' = FreedOf(r, "clone")
    /\ at' = [at EXCEPT ![r] = "write archive"]
    /\ UNCHANGED <<world3, cached, scratch, reference, commit>>

WriteArchive(r) ==
    /\ at[r] = "write archive"
    /\ scratch' = [scratch EXCEPT ![r] = "archive"]
    /\ at' = [at EXCEPT ![r] = "publish archive"]
    /\ UNCHANGED <<world3, cached, lock, reference, commit, content>>

(* Mutant: the archive's guard is kept with the path it guards. *)
PublishArchiveKeeping(r) ==
    /\ at[r] = "publish archive"
    /\ cached' = [cached EXCEPT !["archive"][commit[r]] = content[r]]
    /\ scratch' = [scratch EXCEPT ![r] = "none"]
    /\ at' = [at EXCEPT ![r] = "read archive"]
    /\ UNCHANGED <<world3, lock, reference, commit, content>>

PublishArchive(r) ==
    /\ at[r] = "publish archive"
    /\ cached' = [cached EXCEPT !["archive"][commit[r]] = content[r]]
    /\ scratch' = [scratch EXCEPT ![r] = "none"]
    /\ lock' = FreedOf(r, "archive")
    /\ at' = [at EXCEPT ![r] = "read archive"]
    /\ UNCHANGED <<world3, reference, commit, content>>

(* resolve_git_source reads the file without its lock.                     *)
ReadArchive(r) ==
    /\ at[r] = "read archive" /\ ValidateGitArchiveCache(r)
    /\ content' = [content EXCEPT ![r] = cached["archive"][commit[r]]]
    /\ at' = [at EXCEPT ![r] = "lock tree"]
    /\ UNCHANGED <<world3, cached, lock, scratch, reference, commit>>

OpenTree(r) ==
    /\ at[r] = "lock tree"
    /\ SourceLock(r, "source-tree")
    /\ at' = [at EXCEPT ![r] = "check tree"]
    /\ UNCHANGED <<world3, cached, scratch, reference, commit, content>>

(* Mutant: any directory counts as a tree. *)
CheckTreePresence(r) ==
    /\ at[r] = "check tree"
    /\ IF cached["source-tree"][commit[r]] # Missing
       THEN /\ at' = [at EXCEPT ![r] = "done"]
            /\ lock' = FreedOf(r, "source-tree")
            /\ UNCHANGED <<cached, scratch>>
       ELSE /\ scratch' = [scratch EXCEPT ![r] = "source-tree"]
            /\ at' = [at EXCEPT ![r] = "publish tree"]
            /\ UNCHANGED <<cached, lock>>
    /\ UNCHANGED <<world3, reference, commit, content>>

(* cache_git_source_tree: a root with a manifest is used as it is.         *)
CheckTree(r) ==
    /\ at[r] = "check tree"
    /\ IF cached["source-tree"][commit[r]] \in Commits
       THEN /\ at' = [at EXCEPT ![r] = "done"]
            /\ lock' = FreedOf(r, "source-tree")
            /\ UNCHANGED <<cached, scratch>>
       ELSE /\ cached' = [cached EXCEPT !["source-tree"][commit[r]] = Missing]
            /\ scratch' = [scratch EXCEPT ![r] = "source-tree"]
            /\ at' = [at EXCEPT ![r] = "publish tree"]
            /\ UNCHANGED lock
    /\ UNCHANGED <<world3, reference, commit, content>>

PublishTree(r) ==
    /\ at[r] = "publish tree" /\ cached["source-tree"][commit[r]] = Missing
    /\ cached' = [cached EXCEPT !["source-tree"][commit[r]] = content[r]]
    /\ scratch' = [scratch EXCEPT ![r] = "none"]
    /\ lock' = FreedOf(r, "source-tree")
    /\ at' = [at EXCEPT ![r] = "done"]
    /\ UNCHANGED <<world3, reference, commit, content>>

Ended == {"done", "failed", "killed"}
Busy(r) == at[r] \notin Ended \cup {"start"}

(* Mutant: the guard is disarmed before the rename. *)
GiveUpSourceLeaving(r) ==
    /\ Busy(r)
    /\ lock' = Freed(r)
    /\ at' = [at EXCEPT ![r] = "failed"]
    /\ UNCHANGED <<world3, cached, scratch, reference, commit, content>>

(* Any git command, download, write or rename may fail: ScratchGuard and   *)
(* SourceLockGuard are dropped on the way out.                             *)
GiveUpSource(r) ==
    /\ Busy(r)
    /\ lock' = Freed(r)
    /\ scratch' = [scratch EXCEPT ![r] = "none"]
    /\ at' = [at EXCEPT ![r] = "failed"]
    /\ UNCHANGED <<world3, cached, reference, commit, content>>

(* The system releases a dead process's locks; its scratch stays.          *)
Kill(r) ==
    /\ Busy(r) /\ kills < MaxKills /\ kills' = kills + 1
    /\ lock' = Freed(r)
    /\ at' = [at EXCEPT ![r] = "killed"]
    /\ UNCHANGED <<remote, branch, moves, cached, scratch, reference, commit, content>>

ResolverStep(r) ==
    \/ ResolveGitCommit(r) \/ DownloadHosted(r)
    \/ OpenArchive(r) \/ CheckArchive(r) \/ GitArchive(r)
    \/ OpenClone(r) \/ CloneRepository(r) \/ PublishClone(r) \/ FetchCommit(r)
    \/ WriteArchive(r) \/ PublishArchive(r) \/ ReadArchive(r)
    \/ OpenTree(r) \/ CheckTree(r) \/ PublishTree(r)
SourceNext == MoveBranch \/ \E r \in Resolvers : ResolverStep(r) \/ GiveUpSource(r) \/ Kill(r)
-----------------------------------------------------------------------------
(* resolve_git_source returns what is cached: a readable archive and a     *)
(* source tree with a manifest, of one commit as long as the branch stays  *)
(* where it is, whatever an earlier or a killed process left.              *)
SourceWhole ==
    \A r \in Resolvers : at[r] = "done" =>
        /\ cached["source-tree"][commit[r]] \in Commits
        /\ remote # "hosted" => cached["archive"][commit[r]] = content[r]
        /\ moves = 0 => content[r] = commit[r] /\ cached["source-tree"][commit[r]] = content[r]

(* Only a killed process leaves scratch behind, and no two build one       *)
(* result at a time.                                                       *)
ScratchPrivate ==
    \A r \in Resolvers :
        /\ at[r] \in {"done", "failed"} => scratch[r] = "none"
        /\ \A s \in Resolvers \ {r} :
              (Busy(r) /\ Busy(s) /\ commit[r] = commit[s] /\ scratch[r] = scratch[s]) => scratch[r] = "none"

(* The locks of the three caches are nested one way: every resolution      *)
(* ends (git itself ends or fails).                                        *)
SourcesEnd == \A r \in Resolvers : (at[r] # "start") ~> (at[r] \in Ended)

(* The comment at resolve_git_source: the archive is keyed by the commit   *)
(* "so branch/tag aliases for the same commit share bytes".                *)
ArchiveIsItsCommit == \A c \in Commits : cached["archive"][c] \in {Missing, Torn, c}
=============================================================================
