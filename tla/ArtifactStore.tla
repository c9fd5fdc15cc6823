--------------------------- MODULE ArtifactStore ---------------------------
(***************************************************************************)
(* src/store.rs with src/download.rs and src/remote_cache.rs: how several  *)
(* processes and the collector share the content-addressed archives and    *)
(* the images extracted from them.                                         *)
(*                                                                         *)
(* Bytes are their own digest: an artifact id is the content it names, and *)
(* a source may answer with any content.  An image is a directory with two *)
(* sidecars beside it, the index and the layout version.  Removing a tree  *)
(* takes several steps ("holes" still has package.json, "headless" has     *)
(* not), and so does fs::write of a sidecar ("torn").                      *)
(***************************************************************************)
EXTENDS Naturals

CONSTANTS
    Procs,            \* processes that call the store
    Ids,              \* the contents that occur, each its own SHA-512
    Asked,            \* the ones callers and the collector name
    NoOne,            \* no content, no lock holder
    MaxCalls,         \* calls in all
    MaxCrashes,       \* processes killed in all
    MaxCollections    \* objects the collector deletes in all

ASSUME StoreAssumption ==
    /\ NoOne \notin Procs \cup Ids \cup {"gc"} /\ "gc" \notin Procs /\ Asked \subseteq Ids
    /\ {MaxCalls, MaxCrashes, MaxCollections} \subseteq Nat

VARIABLES
    art,      \* art[id]: the content of the archive file named id
    img,      \* img[id]: the image directory and its sidecars
    remote,   \* remote[id]: what the remote cache answers for id
    alock,    \* alock[id]: who holds locks/<id>.lock
    ilock,    \* ilock[id]: who holds locks/img-<id>.lock
    pc, call, \* each process: where it is, and the call it is in
    tmp,      \* tmp[p]: the content of p's scratch file
    last,     \* last[p]: how p's last call ended, if it is in none
    gc,       \* the collector: [at, id]
    orphan,   \* images whose removal a killed collector left unfinished
    spent     \* calls, crashes and collections so far

vars == <<art, img, remote, alock, ilock, pc, call, tmp, last, gc, orphan, spent>>

Content == Ids \cup {NoOne}
Holder == Procs \cup {"gc", NoOne}
Image == [dir : {"absent", "whole", "oldlayout", "holes", "headless"},
          version : {"none", "torn", "old", "current"},
          index : {"none", "torn", "whole"}]
NoImage == [dir |-> "absent", version |-> "none", index |-> "none"]
(* What is left of a tree some of whose files are gone. *)
Broken == {"holes", "headless"}
NoCall == [op |-> "none", id |-> NoOne]

Steps == {"idle", "want", "remote", "origin", "verify", "publish", "push", "reindex",
          "clear", "clearing", "extract", "rename", "index", "version", "stamped"}
Calls == {NoCall} \cup [op : {"known", "cached", "anonymous", "bytes", "image"}, id : Content]
(* How a call ended; "io": a file could not be read or written, or its     *)
(* directory not be made, before the rename was tried.                     *)
Results == {"none", "ok", "error", "io", "killed"}

TypeOK ==
    /\ art \in [Ids -> Content] /\ remote \in [Ids -> Content]
    /\ img \in [Ids -> Image]
    /\ alock \in [Ids -> Holder] /\ ilock \in [Ids -> Holder]
    /\ pc \in [Procs -> Steps] /\ call \in [Procs -> Calls]
    /\ tmp \in [Procs -> Content] /\ last \in [Procs -> Results]
    /\ gc \in [at : {"idle", "removing"}, id : Content]
    /\ orphan \subseteq Ids
    /\ spent \in [calls : 0 .. MaxCalls, crashes : 0 .. MaxCrashes,
                  collections : 0 .. MaxCollections]

(* An earlier bpm may have left archives and images, of this or an older   *)
(* layout; the remote cache may hold anything.                             *)
Init ==
    /\ \E kept \in SUBSET Asked : art = [id \in Ids |-> IF id \in kept THEN id ELSE NoOne]
    /\ img \in [Ids -> {NoImage, [dir |-> "oldlayout", version |-> "old", index |-> "whole"],
                        [dir |-> "whole", version |-> "current", index |-> "whole"]}]
    /\ remote \in [Ids -> Content]
    /\ \A id \in Ids \ Asked : img[id] = NoImage /\ remote[id] = NoOne
    /\ alock = [id \in Ids |-> NoOne] /\ ilock = [id \in Ids |-> NoOne]
    /\ pc = [p \in Procs |-> "idle"] /\ call = [p \in Procs |-> NoCall]
    /\ tmp = [p \in Procs |-> NoOne] /\ last = [p \in Procs |-> "none"]
    /\ gc = [at |-> "idle", id |-> NoOne] /\ orphan = {}
    /\ spent = [calls |-> 0, crashes |-> 0, collections |-> 0]

Goto(p, to) == pc' = [pc EXCEPT ![p] = to]
Scratch(p, content) == tmp' = [tmp EXCEPT ![p] = content]
SetImage(id, field, value) == img' = [img EXCEPT ![id][field] = value]

(* Dropping the FileGuard unlocks whatever p holds, when it returns and    *)
(* when the operating system closes the files of a killed process.         *)
Unlock(p) ==
    /\ alock' = [id \in Ids |-> IF alock[id] = p THEN NoOne ELSE alock[id]]
    /\ ilock' = [id \in Ids |-> IF ilock[id] = p THEN NoOne ELSE ilock[id]]

Return(p, how) ==
    /\ Goto(p, "idle") /\ call' = [call EXCEPT ![p] = NoCall]
    /\ last' = [last EXCEPT ![p] = how]
    /\ Unlock(p)

(* A call: an archive whose integrity is known, the same with a remote     *)
(* cache configured, a URL of unknown integrity, patched bytes, an image.  *)
Call(p) ==
    /\ pc[p] = "idle" /\ spent.calls < MaxCalls
    /\ spent' = [spent EXCEPT !.calls = @ + 1]
    /\ Scratch(p, NoOne)         \* every scratch name is new
    /\ last' = [last EXCEPT ![p] = "none"]
    /\ \/ \E op \in {"known", "cached", "bytes", "image"}, id \in Asked :
            call' = [call EXCEPT ![p] = [op |-> op, id |-> id]] /\ Goto(p, "want")
       \/ call' = [call EXCEPT ![p] = [op |-> "anonymous", id |-> NoOne]] /\ Goto(p, "origin")
    /\ UNCHANGED <<art, img, remote, alock, ilock, gc, orphan>>

-----------------------------------------------------------------------------
(* Archives. *)

(* Mutant: the archive's lock is not taken. *)
LockArtifactUnlocked(p) ==
    /\ pc[p] = "want" /\ call[p].op \in {"known", "cached", "bytes"}
    /\ IF art[call[p].id] # NoOne
         THEN Return(p, "ok") /\ UNCHANGED tmp
         ELSE /\ Goto(p, CASE call[p].op = "known" -> "origin"
                           [] call[p].op = "cached" -> "remote"
                           [] OTHER -> "verify")
              /\ Scratch(p, IF call[p].op = "bytes" THEN call[p].id ELSE NoOne)
              /\ UNCHANGED <<alock, ilock, call, last>>
    /\ UNCHANGED <<art, img, remote, gc, orphan, spent>>

(* Under the archive's lock an archive that exists is served as it is.     *)
LockArtifact(p) ==
    LET id == call[p].id IN
    /\ pc[p] = "want" /\ call[p].op \in {"known", "cached", "bytes"}
    /\ alock[id] = NoOne
    /\ IF art[id] # NoOne
         THEN Return(p, "ok") /\ UNCHANGED tmp
         ELSE /\ alock' = [alock EXCEPT ![id] = p]
              /\ Goto(p, CASE call[p].op = "known" -> "origin"
                           [] call[p].op = "cached" -> "remote"
                           [] OTHER -> "verify")
              /\ Scratch(p, IF call[p].op = "bytes" THEN id ELSE NoOne)
              /\ UNCHANGED <<ilock, call, last>>
    /\ UNCHANGED <<art, img, remote, gc, orphan, spent>>

(* Mutant: what the remote cache answers is published unhashed. *)
RemoteFetchTrusting(p) ==
    /\ pc[p] = "remote"
    /\ \/ Scratch(p, remote[call[p].id]) /\ remote[call[p].id] # NoOne /\ Goto(p, "publish")
       \/ Scratch(p, NoOne) /\ Goto(p, "origin")
    /\ UNCHANGED <<art, img, remote, alock, ilock, call, last, gc, orphan, spent>>

(* The remote cache: a hit with the right hash is published; a miss, an    *)
(* error or wrong bytes are forgotten and the origin is asked.  A hit that *)
(* cannot be read back for its hash ends the call, and stays.              *)
RemoteFetch(p) ==
    LET id == call[p].id IN
    /\ pc[p] = "remote"
    /\ \/ remote[id] = id /\ Scratch(p, id) /\ Goto(p, "publish") /\ UNCHANGED <<alock, ilock, call, last>>
       \/ Scratch(p, NoOne) /\ Goto(p, "origin") /\ UNCHANGED <<alock, ilock, call, last>>
       \/ remote[id] # NoOne /\ Scratch(p, remote[id]) /\ Return(p, "io")
    /\ UNCHANGED <<art, img, remote, gc, orphan, spent>>

(* Mutant: a failed download leaves its scratch file. *)
DownloadLittering(p) ==
    /\ pc[p] = "origin"
    /\ \/ \E got \in Ids : Scratch(p, got) /\ Goto(p, "verify") /\ UNCHANGED <<alock, ilock, call, last>>
       \/ \E got \in Ids : Return(p, "error") /\ Scratch(p, got)
    /\ UNCHANGED <<art, img, remote, gc, orphan, spent>>

(* The origin answers with some content, streamed to scratch and hashed,   *)
(* or fails (status, transport, more than MAX_ARTIFACT_BYTES): the partial *)
(* file is removed.                                                        *)
Download(p) ==
    /\ pc[p] = "origin"
    /\ \/ \E got \in Ids : Scratch(p, got) /\ Goto(p, "verify") /\ UNCHANGED <<alock, ilock, call, last>>
       \/ Return(p, "error") /\ Scratch(p, NoOne)
    /\ UNCHANGED <<art, img, remote, gc, orphan, spent>>

(* The digest is compared with the one asked for; a URL of unknown         *)
(* integrity is named by the digest it has, and served from the store if   *)
(* that exists.                                                            *)
Verify(p) ==
    LET id == call[p].id IN
    /\ pc[p] = "verify"
    /\ \/ /\ call[p].op = "anonymous" /\ art[tmp[p]] = NoOne
          /\ call' = [call EXCEPT ![p].id = tmp[p]] /\ Goto(p, "publish")
          /\ UNCHANGED <<tmp, alock, ilock, last>>
       \/ /\ call[p].op = "anonymous" /\ art[tmp[p]] # NoOne
          /\ Return(p, "ok") /\ Scratch(p, NoOne)
       \/ /\ call[p].op # "anonymous" /\ tmp[p] = id
          /\ Goto(p, "publish") /\ UNCHANGED <<tmp, alock, ilock, call, last>>
       \/ /\ call[p].op # "anonymous" /\ tmp[p] # id
          /\ Return(p, "error") /\ Scratch(p, NoOne)
       \/ /\ call[p].op = "bytes"   \* fs::write failed; the scratch file stays
          /\ Return(p, "io") /\ UNCHANGED tmp
    /\ UNCHANGED <<art, img, remote, gc, orphan, spent>>

(* Mutant: a rename that fails is tried again from the download. *)
PublishFileRetrying(p) ==
    /\ pc[p] = "publish"
    /\ Scratch(p, NoOne)
    /\ \/ art' = [art EXCEPT ![call[p].id] = tmp[p]] /\ Return(p, "ok")
       \/ Goto(p, "origin") /\ UNCHANGED <<art, alock, ilock, call, last>>
    /\ UNCHANGED <<img, remote, gc, orphan, spent>>

(* publish_file: one rename, which replaces what an unlocked publisher may *)
(* have put there; if it fails the archive is there after all, or not, and *)
(* the scratch file is removed.  It stays when the directory of the        *)
(* archive cannot be made.                                                 *)
PublishFile(p) ==
    LET id == call[p].id IN
    /\ pc[p] = "publish"
    /\ \/ /\ art' = [art EXCEPT ![id] = tmp[p]] /\ Scratch(p, NoOne)
          /\ IF call[p].op = "cached" /\ tmp[p] # remote[id]   \* else it came from there
               THEN Goto(p, "push") /\ UNCHANGED <<alock, ilock, call, last>>
               ELSE Return(p, "ok")
       \/ /\ Return(p, IF art[id] # NoOne THEN "ok" ELSE "error")
          /\ Scratch(p, NoOne) /\ UNCHANGED art
       \/ Return(p, "io") /\ UNCHANGED <<art, tmp>>
    /\ UNCHANGED <<img, remote, gc, orphan, spent>>

(* The best-effort upload, when enabled: its failure is no failure. *)
Push(p) ==
    LET id == call[p].id IN
    /\ pc[p] = "push"
    /\ \/ art[id] # NoOne /\ remote' = [remote EXCEPT ![id] = art[id]]
       \/ UNCHANGED remote
    /\ Return(p, "ok")
    /\ UNCHANGED <<art, img, tmp, gc, orphan, spent>>
-----------------------------------------------------------------------------
(* Images. *)

(* The test that lets an image be served without extraction. *)
Trusted(id) ==
    /\ img[id].dir \in {"whole", "oldlayout", "holes"}     \* has package.json
    /\ img[id].version = "current"

LockImage(p) ==
    LET id == call[p].id IN
    /\ pc[p] = "want" /\ call[p].op = "image"
    /\ ilock[id] = NoOne
    /\ \/ Trusted(id) /\ img[id].index # "none" /\ Return(p, "ok")
       \/ /\ ilock' = [ilock EXCEPT ![id] = p] /\ UNCHANGED <<alock, call, last>>
          /\ \/ Trusted(id) /\ img[id].index = "none" /\ Goto(p, "reindex")
             \/ ~Trusted(id) /\ img[id].dir # "absent" /\ Goto(p, "clear")
             \/ ~Trusted(id) /\ img[id].dir = "absent" /\ Goto(p, "extract")
    /\ UNCHANGED <<art, img, remote, tmp, gc, orphan, spent>>

(* A trusted image whose index is gone gets a new one, written in place.   *)
Reindex(p) ==
    LET id == call[p].id IN
    /\ pc[p] = "reindex"
    /\ \/ img[id].index = "none" /\ SetImage(id, "index", "torn")
          /\ UNCHANGED <<pc, call, last, alock, ilock>>
       \/ img[id].index = "torn" /\ SetImage(id, "index", "whole") /\ Return(p, "ok")
       \/ img[id].index = "torn" /\ Return(p, "error") /\ UNCHANGED img
    /\ UNCHANGED <<art, remote, tmp, gc, orphan, spent>>

(* An image that cannot be trusted is removed, then its sidecars, before   *)
(* it is extracted anew.  A sidecar that cannot be removed stays.          *)
ClearImage(p) ==
    LET id == call[p].id IN
    /\ pc[p] \in {"clear", "clearing"}
    /\ \/ /\ pc[p] = "clear" /\ Goto(p, "clearing") /\ UNCHANGED <<call, last, alock, ilock>>
          /\ \E left \in IF img[id].dir = "headless" THEN {"headless"} ELSE Broken :
                SetImage(id, "dir", left)
       \/ /\ pc[p] = "clearing"
          /\ \E index \in {"none", img[id].index}, version \in {"none", img[id].version} :
                img' = [img EXCEPT ![id] = [dir |-> "absent", version |-> version, index |-> index]]
          /\ Goto(p, "extract") /\ UNCHANGED <<call, last, alock, ilock>>
       \/ pc[p] = "clearing" /\ Return(p, "error") /\ UNCHANGED img
    /\ UNCHANGED <<art, remote, tmp, gc, orphan, spent>>

(* The archive is extracted into scratch; without the archive, or when it  *)
(* cannot be extracted, the scratch tree is removed and the call fails.    *)
Extract(p) ==
    LET id == call[p].id IN
    /\ pc[p] = "extract"
    /\ \/ /\ art[id] # NoOne /\ Scratch(p, art[id]) /\ Goto(p, "rename")
          /\ UNCHANGED <<call, last, alock, ilock>>
       \/ Return(p, "error") /\ Scratch(p, NoOne)
    /\ UNCHANGED <<art, img, remote, gc, orphan, spent>>

(* Mutant: the version is stamped before the tree is in place. *)
PlaceImageStampFirst(p) ==
    LET id == call[p].id IN
    /\ \/ pc[p] = "rename" /\ SetImage(id, "version", "current") /\ Goto(p, "index")
          /\ UNCHANGED tmp
       \/ pc[p] = "index" /\ \E d \in Broken : SetImage(id, "dir", d) /\ Goto(p, "version")
          /\ UNCHANGED tmp
       \/ pc[p] = "version" /\ SetImage(id, "dir", "whole") /\ Goto(p, "stamped")
          /\ Scratch(p, NoOne)
    /\ UNCHANGED <<art, remote, alock, ilock, call, last, gc, orphan, spent>>

(* One rename makes the tree visible; the index and, last of all, the      *)
(* version that vouches for both follow.                                   *)
PlaceImage(p) ==
    LET id == call[p].id IN
    /\ \/ /\ pc[p] = "rename" /\ SetImage(id, "dir", "whole") /\ Goto(p, "index")
          /\ Scratch(p, NoOne) /\ orphan' = orphan \ {id}
       \/ /\ pc[p] = "index" /\ SetImage(id, "index", "torn") /\ Goto(p, "version")
          /\ UNCHANGED <<tmp, orphan>>
       \/ /\ pc[p] = "version"
          /\ img' = [img EXCEPT ![id].index = "whole", ![id].version = "torn"]
          /\ Goto(p, "stamped") /\ UNCHANGED <<tmp, orphan>>
    /\ UNCHANGED <<art, remote, alock, ilock, call, last, gc, spent>>

StampImage(p) ==
    /\ pc[p] = "stamped"
    /\ SetImage(call[p].id, "version", "current")
    /\ Return(p, "ok")
    /\ UNCHANGED <<art, remote, tmp, gc, orphan, spent>>

(* The rename fails and the scratch tree is removed, or the making or      *)
(* writing of a sidecar does.  The tree stays when the directory of the    *)
(* images cannot be made.                                                  *)
PlaceFails(p) ==
    /\ pc[p] \in {"rename", "index", "version", "stamped"}
    /\ \/ Scratch(p, NoOne) /\ Return(p, "error")
       \/ pc[p] = "rename" /\ Return(p, "io") /\ UNCHANGED tmp
    /\ UNCHANGED <<art, img, remote, gc, orphan, spent>>
-----------------------------------------------------------------------------
(* Kills, and the collector (collect_with_pins in metadata/repository.rs), *)
(* which takes the same locks and removes the file or the directory only.  *)
Kill(p) ==
    /\ pc[p] # "idle" /\ spent.crashes < MaxCrashes
    /\ spent' = [spent EXCEPT !.crashes = @ + 1]
    /\ Scratch(p, NoOne)          \* stays in tmp/ under a name nobody uses
    /\ Return(p, "killed")
    /\ UNCHANGED <<art, img, remote, gc, orphan>>

CollectArtifact ==
    /\ gc.at = "idle" /\ spent.collections < MaxCollections
    /\ \E id \in Asked :
         /\ alock[id] = NoOne /\ art[id] # NoOne
         /\ art' = [art EXCEPT ![id] = NoOne]
    /\ spent' = [spent EXCEPT !.collections = @ + 1]
    /\ UNCHANGED <<img, remote, alock, ilock, pc, call, tmp, last, gc, orphan>>

CollectImage ==
    \/ /\ gc.at = "idle" /\ spent.collections < MaxCollections
       /\ \E id \in Asked :
            /\ ilock[id] = NoOne /\ img[id].dir # "absent"
            /\ ilock' = [ilock EXCEPT ![id] = "gc"]
            /\ gc' = [at |-> "removing", id |-> id]
            /\ \E left \in Broken : SetImage(id, "dir", left)
       /\ spent' = [spent EXCEPT !.collections = @ + 1]
       /\ UNCHANGED <<art, remote, alock, pc, call, tmp, last, orphan>>
    \/ /\ gc.at = "removing"
       /\ SetImage(gc.id, "dir", "absent")
       /\ ilock' = [ilock EXCEPT ![gc.id] = NoOne]
       /\ gc' = [at |-> "idle", id |-> NoOne]
       /\ UNCHANGED <<art, remote, alock, pc, call, tmp, last, orphan, spent>>

CollectorDies ==
    /\ gc.at = "removing"
    /\ orphan' = orphan \cup {gc.id}
    /\ ilock' = [ilock EXCEPT ![gc.id] = NoOne]
    /\ gc' = [at |-> "idle", id |-> NoOne]
    /\ UNCHANGED <<art, img, remote, alock, pc, call, tmp, last, spent>>

Step(p) ==
    \/ LockArtifact(p) \/ RemoteFetch(p) \/ Download(p) \/ Verify(p) \/ PublishFile(p) \/ Push(p)
    \/ LockImage(p) \/ Reindex(p) \/ ClearImage(p) \/ Extract(p) \/ PlaceImage(p)
    \/ StampImage(p) \/ PlaceFails(p)
Collect == CollectArtifact \/ CollectImage

Next ==
    \/ \E p \in Procs : Call(p) \/ Step(p) \/ Kill(p)
    \/ Collect \/ CollectorDies

(* A process that can go on does; the collector finishes what it began.    *)
Fairness ==
    /\ \A p \in Procs : WF_vars(Step(p))
    /\ WF_vars(Collect /\ gc.at = "removing")

Spec == Init /\ [][Next]_vars /\ Fairness
-----------------------------------------------------------------------------
(* What the store is trusted for (store.rs, "content-addressed"): an       *)
(* archive has the content its name says, whatever the origin and the      *)
(* remote cache answered and whoever published it, with or without the     *)
(* lock.                                                                   *)
ArchivesVerified == \A id \in Ids : art[id] \in {id, NoOne}

(* Downloads of one archive of known integrity never overlap: the lock is  *)
(* held from the test to the rename ("a per-digest lock protects the whole *)
(* step", store.rs).                                                       *)
DownloadsExclusive ==
    \A p, q \in Procs :
        /\ p # q /\ call[p].id = call[q].id
        /\ call[p].op \in {"known", "cached", "bytes"}
        /\ call[q].op \in {"known", "cached", "bytes"}
        => ~ (/\ pc[p] \in {"remote", "origin", "verify", "publish", "push"}
              /\ pc[q] \in {"remote", "origin", "verify", "publish", "push"})

(* The test ensure_image makes is enough: an image that nobody is working  *)
(* on and that the test would accept is a complete one of the current      *)
(* layout, whoever was killed at whatever step before, unless it was a     *)
(* collector inside remove_dir_all.                                        *)
TrustedImageWhole ==
    \A id \in Ids \ orphan : ilock[id] = NoOne /\ Trusted(id) => img[id].dir = "whole"

(* "an image without one was extracted unstripped by an older build (or    *)
(* truncated) and must heal rather than serve cached" (store.rs): no       *)
(* truncated image is served, and its index can be decoded, which          *)
(* link_tree does before it touches a view.                                *)
TrustedImageUsable ==
    \A id \in Ids :
        ilock[id] = NoOne /\ Trusted(id) => img[id].dir = "whole" /\ img[id].index # "torn"

(* "a retrieval error surfaced here must never leave a scratch file        *)
(* behind", "Any extraction failure ... must not leave a partial image"    *)
(* (store.rs): whatever the sources answered, the archive held and the     *)
(* rename did, a call leaves no scratch behind; only one that ended for a  *)
(* file or a directory of its own before the rename may.                   *)
NoScratchLeft ==
    \A p \in Procs : pc[p] = "idle" /\ last[p] # "io" => tmp[p] = NoOne

(* Claim: the same whatever made a call fail.  Nobody collects scratch.    *)
ScratchAlwaysRemoved == \A p \in Procs : pc[p] = "idle" => tmp[p] = NoOne

(* An archive is what its name says, is downloaded by one process at a     *)
(* time, and no refused or failed one is left in scratch files.            *)
ArchivesSound == ArchivesVerified /\ DownloadsExclusive /\ NoScratchLeft

(* Every call returns: the locks form no cycle and a killed holder frees   *)
(* the ones it had.                                                        *)
EveryCallReturns == \A p \in Procs : pc[p] # "idle" ~> pc[p] = "idle"
=============================================================================
