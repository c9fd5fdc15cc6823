------------------------ MODULE ArtifactStoreProofs ------------------------
(***************************************************************************)
(* Proofs about the archives and images for any number of processes, any   *)
(* contents and any number of crashes and collections: the store is        *)
(* content-addressed, downloads of one archive exclude one another, and    *)
(* the test ensure_image makes is enough.                                  *)
(***************************************************************************)
EXTENDS ArtifactStore, TLAPS

ArchiveOps == {"known", "cached", "bytes"}
ArchiveSteps == {"remote", "origin", "verify", "publish", "push"}
ImageSteps == {"reindex", "clear", "clearing", "extract", "rename", "index", "version", "stamped"}

(* Which call is in which step; only a URL of unknown integrity has no     *)
(* content yet, and only until it is hashed.                               *)
StepsFit ==
    \A p \in Procs :
        /\ pc[p] # "idle" => call[p].op # "none"
        /\ pc[p] = "want" => call[p].op # "anonymous"
        /\ pc[p] \in ArchiveSteps => call[p].op \in ArchiveOps \cup {"anonymous"}
        /\ pc[p] \in {"remote", "push"} => call[p].op = "cached"
        /\ pc[p] \in ImageSteps => call[p].op = "image"
        /\ pc[p] # "idle" /\ (call[p].op # "anonymous" \/ pc[p] = "publish") => call[p].id \in Ids

(* The lock of the object is held throughout, by this process alone.       *)
LocksHeld ==
    /\ \A p \in Procs :
        /\ pc[p] \in ArchiveSteps /\ call[p].op \in ArchiveOps => alock[call[p].id] = p
        /\ pc[p] \in ImageSteps => ilock[call[p].id] = p
    /\ \A id \in Ids, p \in Procs :
        /\ alock[id] = p => pc[p] \in ArchiveSteps /\ call[p].op \in ArchiveOps /\ call[p].id = id
        /\ ilock[id] = p => pc[p] \in ImageSteps /\ call[p].id = id
    /\ gc.at = "removing" => gc.id \in Ids /\ ilock[gc.id] = "gc"

(* The content of the scratch file: none where none has been opened yet or *)
(* any more, and the one asked for once it has been hashed.                *)
ScratchFits ==
    \A p \in Procs :
        /\ pc[p] \notin {"idle", "verify", "publish", "rename"} => tmp[p] = NoOne
        /\ pc[p] = "verify" => tmp[p] \in Ids
        /\ pc[p] = "publish" => tmp[p] = call[p].id

(* What a process has seen or made of an image stays so while it holds the *)
(* image's lock.                                                           *)
ImageWork ==
    \A p \in Procs :
        /\ pc[p] = "clear" => ~Trusted(call[p].id) /\ img[call[p].id].dir # "absent"
        /\ pc[p] \in {"index", "version", "stamped"} => img[call[p].id].dir = "whole"

(* A current version beside a directory with holes, or of another layout,  *)
(* exists only while the collector removes it and after its death.         *)
VersionVouches ==
    \A id \in Ids \ orphan :
        /\ img[id].version = "current"
        /\ ~ (gc.at = "removing" /\ gc.id = id)
        => img[id].dir \in {"whole", "absent", "headless"}

IInv ==
    /\ TypeOK /\ StepsFit /\ LocksHeld
    /\ ScratchFits /\ ArchivesVerified /\ NoScratchLeft
    /\ ImageWork /\ VersionVouches

USE StoreAssumption

(* The store as an earlier bpm left it, with archives and with images of   *)
(* this layout or an older one, beside a remote cache that may hold        *)
(* anything.                                                               *)
LEMMA InitIInv == Init => IInv
<1> SUFFICES ASSUME Init PROVE IInv
  OBVIOUS
<1> USE DEF Init
<1>1. TypeOK
  BY DEF TypeOK, Content, Holder, Image, NoImage, Steps, Calls, Results
<1>2. StepsFit /\ LocksHeld /\ ScratchFits /\ NoScratchLeft /\ ImageWork
  BY DEF StepsFit, LocksHeld, ScratchFits, NoScratchLeft, ImageWork, ArchiveSteps,
     ImageSteps
<1>3. ArchivesVerified /\ VersionVouches
  BY DEF ArchivesVerified, VersionVouches, NoImage
<1> QED BY <1>1, <1>2, <1>3 DEF IInv

(* Leaving a call, with or without an error, keeps the types: the guards   *)
(* that are dropped give their locks back to nobody.                       *)
LEMMA ReturnTypes ==
  ASSUME TypeOK, NEW p \in Procs, NEW how \in Results, Return(p, how)
  PROVE  /\ pc' \in [Procs -> Steps] /\ call' \in [Procs -> Calls] /\ last' \in [Procs -> Results]
         /\ alock' \in [Ids -> Holder] /\ ilock' \in [Ids -> Holder]
<1>1. pc' \in [Procs -> Steps]
  BY DEF TypeOK, Return, Goto, Steps
<1>2. call' \in [Procs -> Calls] /\ last' \in [Procs -> Results]
  BY DEF TypeOK, Return, Calls
<1>3. alock' \in [Ids -> Holder] /\ ilock' \in [Ids -> Holder]
  BY DEF TypeOK, Return, Unlock, Holder
<1> QED BY <1>1, <1>2, <1>3

(* Every write to the directory, the index or the version file of an image *)
(* leaves one of the states an image can be in.                            *)
LEMMA SetImageTypes ==
  ASSUME TypeOK, NEW id,
         \/ \E d \in {"absent", "whole", "holes", "headless"} : SetImage(id, "dir", d)
         \/ SetImage(id, "version", "current")
         \/ \E i \in {"torn", "whole"} : SetImage(id, "index", i)
         \/ img' = [img EXCEPT ![id].index = "whole", ![id].version = "torn"]
  PROVE  img' \in [Ids -> Image]
  BY DEF TypeOK, SetImage, Image

(* A call that returns drops its own guards and no others, so whoever is   *)
(* in the middle of another call keeps its locks.                          *)
LEMMA ReturnLocks ==
  ASSUME IInv, NEW p \in Procs, NEW how, Return(p, how), gc' = gc
  PROVE  StepsFit' /\ LocksHeld'
<1>1. StepsFit'
  BY DEF IInv, Return, Goto, TypeOK, StepsFit, ArchiveSteps, ImageSteps
<1>2. LocksHeld'
  <2>1. \A q \in Procs : q # p => pc'[q] = pc[q] /\ call'[q] = call[q]
    BY DEF Return, Goto
  <2>2. pc'[p] = "idle"
    BY DEF IInv, TypeOK, Return, Goto
  <2>3. \A id \in Ids :
          /\ alock'[id] = IF alock[id] = p THEN NoOne ELSE alock[id]
          /\ ilock'[id] = IF ilock[id] = p THEN NoOne ELSE ilock[id]
    BY DEF Return, Unlock
  <2> QED BY <2>1, <2>2, <2>3 DEF IInv, StepsFit, LocksHeld, ArchiveSteps, ImageSteps,
             ArchiveOps
<1> QED BY <1>1, <1>2

(* A step of one process leaves the position and the call of the others    *)
(* alone.                                                                  *)
LEMMA MovesOnly ==
  ASSUME TypeOK, NEW p \in Procs,
         \/ \E how : Return(p, how)
         \/ \E to : Goto(p, to) /\ UNCHANGED call
         \/ UNCHANGED <<pc, call>>
  PROVE  /\ \A q \in Procs : q # p => pc'[q] = pc[q] /\ call'[q] = call[q]
         /\ pc'[p] = "idle" \/ call'[p] = call[p]
  BY DEF TypeOK, Return, Goto

(* Only the holder of an image's lock changes the image, so what the other *)
(* processes have seen of their images stays true; what is left to show is *)
(* about the one image and the one process.                                *)
LEMMA ImageFrame ==
  ASSUME IInv, NEW p \in Procs, NEW id \in Ids, ilock[id] = p,
         \A x \in Ids : x # id => img'[x] = img[x] /\ (x \in orphan' <=> x \in orphan),
         \A q \in Procs : q # p => pc'[q] = pc[q] /\ call'[q] = call[q],
         gc' = gc,
         pc'[p] = "idle" \/ call'[p].id = id
  PROVE  /\ (/\ pc'[p] = "clear" => ~Trusted(id)' /\ img'[id].dir # "absent"
             /\ pc'[p] \in {"index", "version", "stamped"} => img'[id].dir = "whole")
            => ImageWork'
         /\ (id \notin orphan' /\ img'[id].version = "current"
             => img'[id].dir \in {"whole", "absent", "headless"})
            => VersionVouches'
<1>1. \A q \in Procs : q # p /\ pc[q] \in ImageSteps => call[q].id \in Ids /\ call[q].id # id
  BY DEF IInv, LocksHeld, StepsFit, ImageSteps
<1>2. \A x \in Ids : x # id => Trusted(x)' = Trusted(x)
  BY DEF Trusted
<1>3. ASSUME pc'[p] = "clear" => ~Trusted(id)' /\ img'[id].dir # "absent",
             pc'[p] \in {"index", "version", "stamped"} => img'[id].dir = "whole"
      PROVE  ImageWork'
  BY <1>1, <1>2, <1>3 DEF IInv, ImageWork, ImageSteps
<1>4. ASSUME id \notin orphan' /\ img'[id].version = "current"
             => img'[id].dir \in {"whole", "absent", "headless"}
      PROVE  VersionVouches'
  BY <1>4 DEF IInv, VersionVouches
<1> QED BY <1>3, <1>4

(* The steps of ensure_artifact do not touch an image. *)
LEMMA NoImageChanged ==
  ASSUME IInv, NEW p \in Procs, UNCHANGED <<img, gc, orphan>>,
         \A q \in Procs : q # p => pc'[q] = pc[q] /\ call'[q] = call[q],
         pc'[p] \notin {"clear", "index", "version", "stamped"}
  PROVE  ImageWork' /\ VersionVouches'
  BY DEF IInv, ImageWork, VersionVouches, Trusted

(* ensure_artifact_using: the lock, then the second look that returns at   *)
(* once when somebody else has published the archive.                      *)
LEMMA LockArtifactInv == ASSUME IInv, NEW p \in Procs, LockArtifact(p) PROVE IInv'
<1> USE DEF IInv, LockArtifact, Goto, Scratch
<1>1. TypeOK'
  <2>1. call[p].id \in Ids /\ p \in Holder /\ NoOne \in Content /\ call[p].id \in Content
    BY DEF StepsFit, Holder, Content
  <2>2. CASE art[call[p].id] # NoOne
    <3>1. Return(p, "ok") /\ UNCHANGED <<tmp, art, img, remote, gc, orphan, spent>>
      BY <2>2
    <3>2. "ok" \in Results
      BY DEF Results
    <3> QED BY <3>1, <3>2, ReturnTypes DEF TypeOK
  <2>3. CASE art[call[p].id] = NoOne
    <3>1. pc' \in [Procs -> Steps]
      BY <2>3 DEF TypeOK, Steps
    <3> QED BY <2>1, <2>3, <3>1 DEF TypeOK
  <2> QED BY <2>2, <2>3
<1>2. StepsFit'
  BY DEF TypeOK, StepsFit, ArchiveOps, ArchiveSteps, ImageSteps, Return
<1>3. LocksHeld'
  BY ReturnLocks DEF TypeOK, StepsFit, LocksHeld, ArchiveOps, ArchiveSteps, ImageSteps
<1>4. ScratchFits'
  BY DEF Return, TypeOK, StepsFit, ScratchFits
<1>5. ArchivesVerified'
  BY DEF ArchivesVerified
<1>6. NoScratchLeft'
  BY DEF TypeOK, ScratchFits, NoScratchLeft, Return
<1>7. ImageWork' /\ VersionVouches'
  <2>1. \A q \in Procs : q # p => pc'[q] = pc[q] /\ call'[q] = call[q]
    BY MovesOnly
  <2>2. pc'[p] \in {"idle", "origin", "remote", "verify"}
    BY DEF TypeOK, Return
  <2> QED BY <2>1, <2>2, NoImageChanged
<1> QED BY <1>1, <1>2, <1>3, <1>4, <1>5, <1>6, <1>7

(* The remote cache may hold anything: a hit with the right hash goes on   *)
(* to be published, everything else is forgotten and the origin is asked,  *)
(* unless the hit cannot be read back.                                     *)
LEMMA RemoteFetchInv == ASSUME IInv, NEW p \in Procs, RemoteFetch(p) PROVE IInv'
<1> USE DEF IInv, RemoteFetch, Goto, Scratch
<1>0. /\ call[p].id \in Ids
      /\ \/ Return(p, "io")
         \/ /\ \/ remote[call[p].id] = call[p].id /\ Scratch(p, call[p].id) /\ Goto(p, "publish")
               \/ Scratch(p, NoOne) /\ Goto(p, "origin")
            /\ UNCHANGED <<alock, ilock, call, last>>
  BY DEF StepsFit, ArchiveSteps
<1>1. TypeOK'
  <2>1. tmp' \in [Procs -> Content]
    BY <1>0 DEF TypeOK, Content
  <2>2. CASE Return(p, "io")
    BY <2>1, <2>2, ReturnTypes DEF TypeOK, Results
  <2>3. CASE UNCHANGED <<alock, ilock, call, last>> /\ (Goto(p, "publish") \/ Goto(p, "origin"))
    BY <2>1, <2>3 DEF TypeOK, Steps
  <2> QED BY <1>0, <2>2, <2>3
<1>2. StepsFit'
  BY <1>0 DEF TypeOK, StepsFit, ArchiveOps, ArchiveSteps, ImageSteps, Return
<1>3. LocksHeld'
  BY <1>0, ReturnLocks DEF TypeOK, LocksHeld, ArchiveSteps, ImageSteps
<1>4. ScratchFits'
  BY <1>0 DEF Return, TypeOK, ScratchFits
<1>5. ArchivesVerified'
  BY DEF ArchivesVerified
<1>6. NoScratchLeft'
  BY <1>0 DEF TypeOK, NoScratchLeft, Return
<1>7. ImageWork' /\ VersionVouches'
  <2>1. \A q \in Procs : q # p => pc'[q] = pc[q] /\ call'[q] = call[q]
    BY <1>0, MovesOnly
  <2>2. pc'[p] \in {"publish", "origin", "idle"}
    BY <1>0 DEF TypeOK, Return
  <2> QED BY <2>1, <2>2, NoImageChanged
<1> QED BY <1>1, <1>2, <1>3, <1>4, <1>5, <1>6, <1>7

(* The origin may send anything as well: it reaches the scratch file only. *)
LEMMA DownloadInv == ASSUME IInv, NEW p \in Procs, Download(p) PROVE IInv'
<1> USE DEF IInv, Download, Goto, Scratch
<1>1. TypeOK'
  <2>1. CASE Return(p, "error") /\ Scratch(p, NoOne)
    BY <2>1, ReturnTypes DEF TypeOK, Results, Content
  <2>2. CASE \E got \in Ids : Scratch(p, got) /\ Goto(p, "verify") /\ UNCHANGED <<alock, ilock, call, last>>
    BY <2>2 DEF TypeOK, Steps, Content
  <2> QED BY <2>1, <2>2
<1>2. StepsFit'
  BY DEF TypeOK, StepsFit, ArchiveSteps, ImageSteps, Return
<1>3. LocksHeld'
  BY ReturnLocks DEF TypeOK, LocksHeld, ArchiveSteps, ImageSteps
<1>4. ScratchFits'
  BY DEF Return, TypeOK, ScratchFits
<1>5. ArchivesVerified'
  BY DEF ArchivesVerified
<1>6. NoScratchLeft'
  BY DEF TypeOK, NoScratchLeft, Return
<1>7. ImageWork' /\ VersionVouches'
  <2>1. \A q \in Procs : q # p => pc'[q] = pc[q] /\ call'[q] = call[q]
    BY MovesOnly
  <2>2. pc'[p] \in {"idle", "verify"}
    BY DEF TypeOK, Return
  <2> QED BY <2>1, <2>2, NoImageChanged
<1> QED BY <1>1, <1>2, <1>3, <1>4, <1>5, <1>6, <1>7

(* The hash is compared before the archive gets its name; a URL without an *)
(* integrity gets the name of its own hash.                                *)
LEMMA VerifyInv == ASSUME IInv, NEW p \in Procs, Verify(p) PROVE IInv'
<1> USE DEF IInv, Verify, Goto, Scratch
<1> DEFINE Hashed ==
        /\ \/ call[p].op = "anonymous" /\ call' = [call EXCEPT ![p].id = tmp[p]]
           \/ call[p].op # "anonymous" /\ tmp[p] = call[p].id /\ UNCHANGED call
        /\ Goto(p, "publish") /\ UNCHANGED <<tmp, alock, ilock, last>>
<1>1. TypeOK'
  <2>1. {"ok", "error", "io"} \subseteq Results /\ "publish" \in Steps /\ NoOne \in Content
    BY DEF Results, Steps, Content
  <2>2. CASE \E how \in {"ok", "error", "io"} : Return(p, how)
    BY <2>1, <2>2, ReturnTypes DEF TypeOK
  <2>3. CASE Hashed
    <3>1. call' \in [Procs -> Calls]
      BY <2>3 DEF TypeOK, Calls, NoCall
    <3> QED BY <2>1, <2>3, <3>1 DEF TypeOK
  <2> QED BY <2>2, <2>3
<1>2. StepsFit'
  <2>1. CASE \E how \in {"ok", "error", "io"} : Return(p, how)
    BY <2>1, ReturnLocks
  <2>2. CASE Hashed
    BY <2>2 DEF TypeOK, StepsFit, ScratchFits, Calls, NoCall, ArchiveSteps, ImageSteps
  <2> QED BY <2>1, <2>2
<1>3. LocksHeld'
  <2>1. CASE \E how \in {"ok", "error", "io"} : Return(p, how)
    BY <2>1, ReturnLocks
  <2>2. CASE Hashed
    <3>1. /\ \A q \in Procs : call'[q].op = call[q].op /\ (q # p => pc'[q] = pc[q] /\ call'[q] = call[q])
          /\ pc'[p] = "publish" /\ (call[p].op # "anonymous" => call'[p] = call[p])
      BY <2>2 DEF TypeOK, Calls, NoCall
    <3> QED BY <2>2, <3>1 DEF LocksHeld, ArchiveOps, ArchiveSteps, ImageSteps
  <2> QED BY <2>1, <2>2
<1>4. ScratchFits'
  <2>1. CASE \E how \in {"ok", "error", "io"} : Return(p, how)
    BY <2>1 DEF Return, TypeOK, ScratchFits
  <2>2. CASE Hashed
    <3>1. /\ \A q \in Procs : q # p => pc'[q] = pc[q] /\ call'[q] = call[q]
          /\ pc'[p] = "publish" /\ call'[p].id = tmp[p]
      BY <2>2 DEF TypeOK, Calls, NoCall
    <3> QED BY <2>2, <3>1 DEF ScratchFits
  <2> QED BY <2>1, <2>2
<1>5. ArchivesVerified'
  BY DEF ArchivesVerified
<1>6. NoScratchLeft'
  BY DEF TypeOK, NoScratchLeft, Return
<1>7. ImageWork' /\ VersionVouches'
  <2>1. \A q \in Procs : q # p => pc'[q] = pc[q] /\ call'[q] = call[q]
    BY MovesOnly DEF TypeOK
  <2>2. pc'[p] \in {"idle", "publish"}
    BY DEF TypeOK, Return
  <2> QED BY <2>1, <2>2, NoImageChanged
<1> QED BY <1>1, <1>2, <1>3, <1>4, <1>5, <1>6, <1>7

(* publish_file renames a verified scratch file, under the lock of its     *)
(* name unless the name was not known before.                              *)
LEMMA PublishFileInv == ASSUME IInv, NEW p \in Procs, PublishFile(p) PROVE IInv'
<1> USE DEF IInv, PublishFile, Goto, Scratch
<1>1. TypeOK'
  <2>1. art' \in [Ids -> Content] /\ tmp' \in [Procs -> Content]
    BY DEF TypeOK, Content
  <2>2. {"ok", "error", "io"} \subseteq Results /\ "push" \in Steps
    BY DEF Results, Steps
  <2>3. \/ \E how \in {"ok", "error", "io"} : Return(p, how)
        \/ Goto(p, "push") /\ UNCHANGED <<alock, ilock, call, last>>
    BY Zenon
  <2> QED BY <2>1, <2>2, <2>3, ReturnTypes DEF TypeOK
<1>2. StepsFit'
  BY DEF TypeOK, StepsFit, ArchiveSteps, ImageSteps, Return
<1>3. LocksHeld'
  BY ReturnLocks DEF TypeOK, LocksHeld, ArchiveSteps, ImageSteps
<1>4. ScratchFits'
  BY DEF Return, TypeOK, ScratchFits
<1>5. ArchivesVerified'
  BY DEF TypeOK, ScratchFits, ArchivesVerified
<1>6. NoScratchLeft'
  BY DEF TypeOK, NoScratchLeft, Return
<1>7. ImageWork' /\ VersionVouches'
  <2>1. \A q \in Procs : q # p => pc'[q] = pc[q] /\ call'[q] = call[q]
    BY MovesOnly
  <2>2. pc'[p] \in {"idle", "push"}
    BY DEF TypeOK, Return
  <2> QED BY <2>1, <2>2, NoImageChanged
<1> QED BY <1>1, <1>2, <1>3, <1>4, <1>5, <1>6, <1>7

(* A push writes the remote cache only, and its failure does not fail the  *)
(* call.                                                                   *)
LEMMA PushInv == ASSUME IInv, NEW p \in Procs, Push(p) PROVE IInv'
<1> USE DEF IInv, Push, Goto, Scratch
<1>1. TypeOK'
  BY ReturnTypes, SetImageTypes DEF TypeOK, Results
<1>2. StepsFit'
  BY DEF TypeOK, StepsFit, ArchiveSteps, ImageSteps, Return
<1>3. LocksHeld'
  BY ReturnLocks
<1>4. ScratchFits'
  BY DEF Return, ScratchFits
<1>5. ArchivesVerified'
  BY DEF ArchivesVerified
<1>6. NoScratchLeft'
  BY DEF ScratchFits, NoScratchLeft, Return
<1>7. ImageWork' /\ VersionVouches'
  <2>1. \A q \in Procs : q # p => pc'[q] = pc[q] /\ call'[q] = call[q]
    BY MovesOnly
  <2>2. pc'[p] \in {"idle"}
    BY DEF TypeOK, Return
  <2> QED BY <2>1, <2>2, NoImageChanged
<1> QED BY <1>1, <1>2, <1>3, <1>4, <1>5, <1>6, <1>7

(* ensure_image: the lock, and the second test of the version file. *)
LEMMA LockImageInv == ASSUME IInv, NEW p \in Procs, LockImage(p) PROVE IInv'
<1> USE DEF IInv, LockImage, Goto, Scratch
<1>1. TypeOK'
  <2>1. CASE Return(p, "ok")
    BY <2>1, ReturnTypes DEF TypeOK, Results
  <2>2. CASE \E to \in {"reindex", "clear", "extract"} :
               Goto(p, to) /\ ilock' = [ilock EXCEPT ![call[p].id] = p] /\ UNCHANGED <<alock, call, last>>
    <3>1. pc' \in [Procs -> Steps]
      BY <2>2 DEF TypeOK, Steps
    <3>2. ilock \in [Ids -> Holder] /\ p \in Holder
      BY DEF TypeOK, Holder
    <3>3. ilock' \in [Ids -> Holder]
      BY <2>2, <3>2
    <3> QED BY <2>2, <3>1, <3>3 DEF TypeOK
  <2> QED BY <2>1, <2>2
<1>2. StepsFit'
  BY DEF TypeOK, StepsFit, ArchiveSteps, ImageSteps, Return
<1>3. LocksHeld'
  BY ReturnLocks DEF TypeOK, StepsFit, LocksHeld, ArchiveOps, ImageSteps
<1>4. ScratchFits'
  BY DEF Return, TypeOK, ScratchFits
<1>5. ArchivesVerified'
  BY DEF ArchivesVerified
<1>6. NoScratchLeft'
  BY DEF TypeOK, ScratchFits, NoScratchLeft, Return
<1>7. ImageWork'
  BY DEF TypeOK, ImageWork, ImageSteps, Trusted, Image, Holder, Return, Unlock, NoCall
<1>8. VersionVouches'
  BY DEF VersionVouches
<1> QED BY <1>1, <1>2, <1>3, <1>4, <1>5, <1>6, <1>7, <1>8

(* A trusted image whose index is gone gets a new one, written in place:   *)
(* its directory and its version file are not touched.                     *)
LEMMA ReindexInv == ASSUME IInv, NEW p \in Procs, Reindex(p) PROVE IInv'
<1> USE DEF IInv, Reindex, Goto, Scratch
<1>1. TypeOK'
  BY ReturnTypes, SetImageTypes DEF TypeOK, Results
<1>2. StepsFit'
  BY DEF TypeOK, StepsFit, ArchiveSteps, ImageSteps, Return
<1>3. LocksHeld'
  BY ReturnLocks DEF LocksHeld
<1>4. ScratchFits'
  BY DEF Return, TypeOK, ScratchFits
<1>5. ArchivesVerified'
  BY DEF ArchivesVerified
<1>6. NoScratchLeft'
  BY DEF TypeOK, ScratchFits, NoScratchLeft, Return
<1>7. ImageWork'
  <2>1. /\ \A x \in Ids : x # call[p].id => img'[x] = img[x]
        /\ img'[call[p].id].dir = img[call[p].id].dir
        /\ img'[call[p].id].version = img[call[p].id].version
    BY DEF TypeOK, Image, SetImage
  <2>2. /\ \A q \in Procs : q # p => pc'[q] = pc[q] /\ call'[q] = call[q]
        /\ pc'[p] = "idle" \/ call'[p] = call[p]
    BY MovesOnly
  <2>4. pc'[p] \in {"idle", "reindex"}
    BY DEF TypeOK, Return
  <2>3. call[p].id \in Ids /\ ilock[call[p].id] = p
    BY DEF StepsFit, LocksHeld, ImageSteps
  <2> QED BY <2>1, <2>2, <2>3, <2>4, ImageFrame
<1>8. VersionVouches'
  <2>1. /\ \A x \in Ids : x # call[p].id => img'[x] = img[x]
        /\ img'[call[p].id].dir = img[call[p].id].dir
        /\ img'[call[p].id].version = img[call[p].id].version
    BY DEF TypeOK, Image, SetImage
  <2>3. call[p].id \in Ids /\ ilock[call[p].id] = p
    BY DEF StepsFit, LocksHeld, ImageSteps
  <2> QED BY <2>1, <2>3 DEF VersionVouches
<1> QED BY <1>1, <1>2, <1>3, <1>4, <1>5, <1>6, <1>7, <1>8

(* What cannot be trusted is removed, the directory first, then the files  *)
(* beside it; one that cannot be removed stays.                            *)
LEMMA ClearImageInv == ASSUME IInv, NEW p \in Procs, ClearImage(p) PROVE IInv'
<1> USE DEF IInv, ClearImage, Goto, Scratch
<1>1. TypeOK'
  <2>1. img' \in [Ids -> Image]
    <3>1. CASE pc[p] = "clear"
      <4>1. \E left \in {"holes", "headless"} : SetImage(call[p].id, "dir", left)
        BY <3>1 DEF Broken
      <4> QED BY <4>1, SetImageTypes
    <3>2. CASE \E index \in {"none", img[call[p].id].index}, version \in {"none", img[call[p].id].version} :
             img' = [img EXCEPT ![call[p].id] = [dir |-> "absent", version |-> version, index |-> index]]
      <4>1. img \in [Ids -> Image] /\ call[p].id \in Ids
        BY DEF TypeOK, StepsFit, ImageSteps
      <4>2. PICK index \in {"none", img[call[p].id].index}, version \in {"none",
      img[call[p].id].version} :
              img' = [img EXCEPT ![call[p].id] = [dir |-> "absent", version |-> version, index |-> index]]
        BY <3>2
      <4>3. [dir |-> "absent", version |-> version, index |-> index] \in Image
        BY <4>1 DEF Image
      <4> QED BY <4>1, <4>2, <4>3
    <3> QED BY <3>1, <3>2 DEF TypeOK
  <2>2. CASE Return(p, "error")
    BY <2>1, <2>2, ReturnTypes DEF TypeOK, Results
  <2>3. CASE \E to \in {"clearing", "extract"} : Goto(p, to) /\ UNCHANGED <<call, last, alock, ilock>>
    BY <2>1, <2>3 DEF TypeOK, Steps
  <2> QED BY <2>2, <2>3
<1>2. StepsFit'
  BY DEF TypeOK, StepsFit, ArchiveSteps, ImageSteps, Return
<1>3. LocksHeld'
  BY ReturnLocks DEF TypeOK, StepsFit, LocksHeld, ArchiveOps, ImageSteps
<1>4. ScratchFits'
  BY DEF Return, TypeOK, ScratchFits
<1>5. ArchivesVerified'
  BY DEF ArchivesVerified
<1>6. NoScratchLeft'
  BY DEF TypeOK, ScratchFits, NoScratchLeft, Return
<1>7. ImageWork'
  <2>1. \A x \in Ids : x # call[p].id => img'[x] = img[x]
    BY DEF TypeOK, SetImage
  <2>2. /\ \A q \in Procs : q # p => pc'[q] = pc[q] /\ call'[q] = call[q]
        /\ pc'[p] = "idle" \/ call'[p] = call[p]
    BY MovesOnly
  <2>4. pc'[p] \in {"idle", "clearing", "extract"}
    BY DEF TypeOK, Return
  <2>3. call[p].id \in Ids /\ ilock[call[p].id] = p
    BY DEF StepsFit, LocksHeld, ImageSteps
  <2> QED BY <2>1, <2>2, <2>3, <2>4, ImageFrame
<1>8. VersionVouches'
  <2>1. \A x \in Ids : x # call[p].id => img'[x] = img[x]
    BY DEF TypeOK, SetImage
  <2>3. call[p].id \in Ids /\ ilock[call[p].id] = p
    BY DEF StepsFit, LocksHeld, ImageSteps
  <2>4. CASE UNCHANGED img
    BY <2>4 DEF VersionVouches
  <2>5. CASE pc[p] = "clear"
    <3>1. PICK left \in IF img[call[p].id].dir = "headless" THEN {"headless"} ELSE Broken :
             SetImage(call[p].id, "dir", left)
      BY <2>5
    <3>2. img'[call[p].id].dir = left /\ img'[call[p].id].version = img[call[p].id].version
      BY <2>3, <3>1 DEF TypeOK, SetImage, Image
    <3>3. ~Trusted(call[p].id) /\ img[call[p].id].dir # "absent"
      BY <2>5 DEF ImageWork
    <3>4. img[call[p].id].version = "current" => left = "headless"
      BY <2>3, <3>1, <3>3 DEF TypeOK, Image, Trusted
    <3> QED BY <2>1, <2>3, <3>1, <3>2, <3>4 DEF VersionVouches
  <2>6. CASE pc[p] = "clearing" /\ img'[call[p].id].dir = "absent"
    BY <2>1, <2>3, <2>6 DEF VersionVouches
  <2> QED BY <2>4, <2>5, <2>6, <2>3 DEF TypeOK
<1> QED BY <1>1, <1>2, <1>3, <1>4, <1>5, <1>6, <1>7, <1>8

(* Extraction writes below the scratch directory only. *)
LEMMA ExtractInv == ASSUME IInv, NEW p \in Procs, Extract(p) PROVE IInv'
<1> USE DEF IInv, Extract, Goto, Scratch
<1>1. TypeOK'
  <2>1. CASE Return(p, "error") /\ Scratch(p, NoOne)
    BY <2>1, ReturnTypes DEF TypeOK, Results, Content
  <2>2. CASE Scratch(p, art[call[p].id]) /\ Goto(p, "rename") /\ UNCHANGED <<call, last, alock, ilock>>
    <3>1. tmp' \in [Procs -> Content]
      BY <2>2 DEF TypeOK, StepsFit, ImageSteps
    <3> QED BY <2>2, <3>1 DEF TypeOK, Steps
  <2> QED BY <2>1, <2>2
<1>2. StepsFit'
  BY DEF TypeOK, StepsFit, ArchiveSteps, ImageSteps, Return
<1>3. LocksHeld'
  BY ReturnLocks DEF TypeOK, StepsFit, LocksHeld, ArchiveOps, ArchiveSteps, ImageSteps,
     Holder
<1>4. ScratchFits'
  BY DEF Return, TypeOK, ScratchFits
<1>5. ArchivesVerified'
  BY DEF ArchivesVerified
<1>6. NoScratchLeft'
  BY DEF TypeOK, NoScratchLeft, Return
<1>7. ImageWork' /\ VersionVouches'
  <2>1. \A q \in Procs : q # p => pc'[q] = pc[q] /\ call'[q] = call[q]
    BY MovesOnly
  <2>2. pc'[p] \in {"idle", "rename"}
    BY DEF TypeOK, Return
  <2> QED BY <2>1, <2>2, NoImageChanged
<1> QED BY <1>1, <1>2, <1>3, <1>4, <1>5, <1>6, <1>7

(* One rename makes the tree visible, whole at once; index and version     *)
(* file follow, and each is torn before it is written.                     *)
LEMMA PlaceImageInv == ASSUME IInv, NEW p \in Procs, PlaceImage(p) PROVE IInv'
<1> USE DEF IInv, PlaceImage, Goto, Scratch
<1>1. TypeOK'
  BY ReturnTypes, SetImageTypes DEF TypeOK, Steps, Content
<1>2. StepsFit'
  BY DEF TypeOK, StepsFit, ArchiveSteps, ImageSteps
<1>3. LocksHeld'
  BY ReturnLocks DEF TypeOK, StepsFit, LocksHeld, ArchiveOps, ArchiveSteps, ImageSteps
<1>4. ScratchFits'
  BY DEF TypeOK, ScratchFits
<1>5. ArchivesVerified'
  BY DEF ArchivesVerified
<1>6. NoScratchLeft'
  BY DEF TypeOK, NoScratchLeft
<1>7. ImageWork'
  <2>1. \A x \in Ids : x # call[p].id => img'[x] = img[x] /\ (x \in orphan' <=> x \in orphan)
    BY DEF TypeOK, SetImage
  <2>2. /\ \A q \in Procs : q # p => pc'[q] = pc[q] /\ call'[q] = call[q]
        /\ pc'[p] = "idle" \/ call'[p] = call[p]
    BY MovesOnly
  <2>3. call[p].id \in Ids /\ ilock[call[p].id] = p
    BY DEF StepsFit, LocksHeld, ImageSteps
  <2>4. pc'[p] \in {"index", "version", "stamped"} /\ img'[call[p].id].dir = "whole"
    BY <2>3 DEF TypeOK, ImageWork, SetImage, Image
  <2> QED BY <2>1, <2>2, <2>3, <2>4, ImageFrame
<1>8. VersionVouches'
  BY DEF TypeOK, StepsFit, LocksHeld, ImageWork, VersionVouches, ImageSteps, Trusted, Image,
     Holder, SetImage
<1> QED BY <1>1, <1>2, <1>3, <1>4, <1>5, <1>6, <1>7, <1>8

(* The version file is completed last, when the directory it vouches for   *)
(* is whole.                                                               *)
LEMMA StampImageInv == ASSUME IInv, NEW p \in Procs, StampImage(p) PROVE IInv'
<1> USE DEF IInv, StampImage, Goto, Scratch
<1>1. TypeOK'
  BY ReturnTypes, SetImageTypes DEF TypeOK, Results
<1>2. StepsFit'
  BY DEF TypeOK, StepsFit, ArchiveSteps, ImageSteps, Return
<1>3. LocksHeld'
  BY ReturnLocks
<1>4. ScratchFits'
  BY DEF Return, ScratchFits
<1>5. ArchivesVerified'
  BY DEF ArchivesVerified
<1>6. NoScratchLeft'
  BY DEF ScratchFits, NoScratchLeft, Return
<1>7. ImageWork'
  BY DEF TypeOK, LocksHeld, ImageWork, ImageSteps, Trusted, Return, SetImage
<1>8. VersionVouches'
  BY DEF ImageWork, VersionVouches, SetImage
<1> QED BY <1>1, <1>2, <1>3, <1>4, <1>5, <1>6, <1>7, <1>8

(* A failing rename or write after extraction returns an error with the    *)
(* image unstamped.                                                        *)
LEMMA PlaceFailsInv == ASSUME IInv, NEW p \in Procs, PlaceFails(p) PROVE IInv'
<1> USE DEF IInv, PlaceFails, Goto, Scratch
<1>1. TypeOK'
  BY ReturnTypes, SetImageTypes DEF TypeOK, Results, Content
<1>2. StepsFit'
  BY DEF TypeOK, StepsFit, ArchiveSteps, ImageSteps, Return
<1>3. LocksHeld'
  BY ReturnLocks
<1>4. ScratchFits'
  <2>1. /\ \A q \in Procs : q # p => pc'[q] = pc[q] /\ call'[q] = call[q] /\ tmp'[q] = tmp[q]
        /\ pc'[p] = "idle"
    BY DEF TypeOK, Return
  <2> QED BY <2>1 DEF ScratchFits
<1>5. ArchivesVerified'
  BY DEF ArchivesVerified
<1>6. NoScratchLeft'
  BY DEF TypeOK, NoScratchLeft, Return
<1>7. ImageWork' /\ VersionVouches'
  <2>1. \A q \in Procs : q # p => pc'[q] = pc[q] /\ call'[q] = call[q]
    BY MovesOnly
  <2>2. pc'[p] \in {"idle"}
    BY DEF TypeOK, Return
  <2> QED BY <2>1, <2>2, NoImageChanged
<1> QED BY <1>1, <1>2, <1>3, <1>4, <1>5, <1>6, <1>7

(* A killed process loses its locks, and its scratch files stay under      *)
(* names nobody uses: nothing it had not finished has a current version    *)
(* file.                                                                   *)
LEMMA KillInv == ASSUME IInv, NEW p \in Procs, Kill(p) PROVE IInv'
<1> USE DEF IInv, Kill, Goto, Scratch
<1>1. TypeOK'
  <2>1. "killed" \in Results /\ NoOne \in Content
    BY DEF Results, Content
  <2>2. spent' \in [calls : 0 .. MaxCalls, crashes : 0 .. MaxCrashes, collections : 0 .. MaxCollections]
    BY DEF TypeOK
  <2> QED BY <2>1, <2>2, ReturnTypes DEF TypeOK
<1>2. StepsFit'
  BY DEF TypeOK, StepsFit, ArchiveSteps, ImageSteps, Return
<1>3. LocksHeld'
  BY ReturnLocks
<1>4. ScratchFits'
  BY DEF Return, TypeOK, ScratchFits
<1>5. ArchivesVerified'
  BY DEF ArchivesVerified
<1>6. NoScratchLeft'
  BY DEF TypeOK, NoScratchLeft, Return
<1>7. ImageWork' /\ VersionVouches'
  <2>1. \A q \in Procs : q # p => pc'[q] = pc[q] /\ call'[q] = call[q]
    BY MovesOnly
  <2>2. pc'[p] \in {"idle"}
    BY DEF TypeOK, Return
  <2> QED BY <2>1, <2>2, NoImageChanged
<1> QED BY <1>1, <1>2, <1>3, <1>4, <1>5, <1>6, <1>7

(* A new call begins without a lock and without a scratch file. *)
LEMMA CallInv == ASSUME IInv, NEW p \in Procs, Call(p) PROVE IInv'
<1> USE DEF IInv, Call, Goto, Scratch
<1>1. TypeOK'
  <2>1. spent' \in [calls : 0 .. MaxCalls, crashes : 0 .. MaxCrashes, collections : 0 .. MaxCollections]
    BY DEF TypeOK
  <2>2. call' \in [Procs -> Calls]
    BY DEF TypeOK, Calls, Content
  <2>3. pc' \in [Procs -> Steps] /\ tmp' \in [Procs -> Content] /\ last' \in [Procs -> Results]
    BY DEF TypeOK, Steps, Content, Results
  <2> QED BY <2>1, <2>2, <2>3 DEF TypeOK
<1>2. StepsFit'
  BY DEF TypeOK, StepsFit, ArchiveSteps, ImageSteps
<1>3. LocksHeld'
  BY ReturnLocks DEF TypeOK, StepsFit, LocksHeld, ArchiveOps, ArchiveSteps, ImageSteps,
     Holder
<1>4. ScratchFits'
  BY DEF TypeOK, ScratchFits
<1>5. ArchivesVerified'
  BY DEF ArchivesVerified
<1>6. NoScratchLeft'
  BY DEF TypeOK, NoScratchLeft
<1>7. ImageWork'
  BY DEF TypeOK, ImageWork, Trusted
<1>8. VersionVouches'
  BY DEF VersionVouches
<1> QED BY <1>1, <1>2, <1>3, <1>4, <1>5, <1>6, <1>7, <1>8

(* The collector takes the object's lock before it removes anything; if it *)
(* dies in the middle of an image, the directory is an orphan with holes.  *)
LEMMA CollectInv == ASSUME IInv, Collect \/ CollectorDies PROVE IInv'
<1> USE DEF IInv
<1>1. CASE CollectArtifact
  <2>1. PICK id \in Asked : alock[id] = NoOne /\ art' = [art EXCEPT ![id] = NoOne]
    BY <1>1 DEF CollectArtifact
  <2>2. TypeOK'
    <3>1. spent' \in [calls : 0 .. MaxCalls, crashes : 0 .. MaxCrashes, collections : 0 .. MaxCollections]
      BY <1>1 DEF CollectArtifact, TypeOK
    <3> QED BY <1>1, <2>1, <3>1 DEF CollectArtifact, TypeOK, Content
  <2>3. ArchivesVerified'
    BY <2>1 DEF ArchivesVerified
  <2>4. StepsFit' /\ LocksHeld' /\ ScratchFits' /\ NoScratchLeft'
    BY <1>1 DEF CollectArtifact, StepsFit, LocksHeld, ScratchFits, NoScratchLeft
  <2>5. ImageWork' /\ VersionVouches'
    BY <1>1 DEF CollectArtifact, ImageWork, VersionVouches, Trusted
  <2> QED BY <2>2, <2>3, <2>4, <2>5
<1>2. CASE CollectImage \/ CollectorDies
  <2>1. UNCHANGED <<art, remote, alock, pc, call, tmp, last>>
    BY <1>2 DEF CollectImage, CollectorDies
  <2>2. StepsFit' /\ ScratchFits' /\ ArchivesVerified' /\ NoScratchLeft'
    BY <2>1 DEF StepsFit, ScratchFits, ArchivesVerified, NoScratchLeft
  <2>3. CASE gc.at = "idle" /\ CollectImage
    <3>1. PICK id \in Asked, left \in Broken :
            /\ ilock[id] = NoOne /\ ilock' = [ilock EXCEPT ![id] = "gc"]
            /\ gc' = [at |-> "removing", id |-> id]
            /\ SetImage(id, "dir", left)
      BY <2>3 DEF CollectImage
    <3>2. /\ spent' \in [calls : 0 .. MaxCalls, crashes : 0 .. MaxCrashes, collections : 0 .. MaxCollections]
          /\ orphan' = orphan
      BY <2>3 DEF CollectImage, TypeOK
    <3>3. TypeOK'
      <4>1. img' \in [Ids -> Image]
        BY <3>1, SetImageTypes DEF Broken
      <4> QED BY <2>1, <3>1, <3>2, <4>1 DEF TypeOK, Holder, Content
    <3>4. LocksHeld'
      BY <2>1, <3>1 DEF TypeOK, LocksHeld
    <3>5. \A x \in Ids : x # id => img'[x] = img[x]
      BY <3>1 DEF SetImage
    <3>6. ImageWork'
      BY <2>1, <3>1, <3>5 DEF StepsFit, LocksHeld, ImageSteps, ImageWork, Trusted
    <3>7. VersionVouches'
      BY <2>3, <3>1, <3>2, <3>5 DEF VersionVouches
    <3> QED BY <2>2, <3>3, <3>4, <3>6, <3>7
  <2>4. CASE gc.at = "removing"
    <3>1. /\ gc' = [at |-> "idle", id |-> NoOne] /\ ilock' = [ilock EXCEPT ![gc.id] = NoOne]
          /\ UNCHANGED spent
          /\ \/ SetImage(gc.id, "dir", "absent") /\ UNCHANGED orphan
             \/ orphan' = orphan \cup {gc.id} /\ UNCHANGED img
      BY <1>2, <2>4 DEF CollectImage, CollectorDies
    <3>2. gc.id \in Ids /\ ilock[gc.id] = "gc"
      BY <2>4 DEF LocksHeld
    <3>3. TypeOK'
      <4>1. img' \in [Ids -> Image]
        BY <3>1, SetImageTypes DEF TypeOK
      <4> QED BY <2>1, <3>1, <3>2, <4>1 DEF TypeOK, Holder, Content
    <3>4. LocksHeld'
      BY <2>1, <3>1, <3>2 DEF LocksHeld
    <3>5. /\ \A x \in Ids : x # gc.id => img'[x] = img[x] /\ (x \in orphan' <=> x \in orphan)
          /\ gc.id \in orphan' \/ img'[gc.id].dir = "absent"
      BY <3>1, <3>2 DEF TypeOK, SetImage, Image
    <3>6. ImageWork'
      <4>1. \A q \in Procs : pc[q] \in ImageSteps => call[q].id \in Ids /\ call[q].id # gc.id
        BY <3>2 DEF StepsFit, LocksHeld, ImageSteps
      <4> QED BY <2>1, <4>1, <3>5 DEF ImageSteps, ImageWork, Trusted
    <3>7. VersionVouches'
      BY <2>4, <3>1, <3>2, <3>5 DEF VersionVouches
    <3> QED BY <2>2, <3>3, <3>4, <3>6, <3>7
  <2> QED BY <1>2, <2>3, <2>4 DEF CollectImage, CollectorDies
<1> QED BY <1>1, <1>2 DEF Collect

(* Every step keeps the invariant. *)
LEMMA NextIInv == IInv /\ [Next]_vars => IInv'
<1> SUFFICES ASSUME IInv, [Next]_vars PROVE IInv'
  OBVIOUS
<1>1. ASSUME NEW p \in Procs, Step(p) PROVE IInv'
  BY <1>1, LockArtifactInv, RemoteFetchInv, DownloadInv, VerifyInv, PublishFileInv, PushInv,
     LockImageInv, ReindexInv, ClearImageInv, ExtractInv, PlaceImageInv, StampImageInv,
     PlaceFailsInv DEF Step
<1>2. CASE UNCHANGED vars
  BY <1>2 DEF vars, IInv, TypeOK, StepsFit, LocksHeld, ScratchFits, ArchivesVerified,
     NoScratchLeft, ImageWork, VersionVouches, Trusted
<1> QED BY <1>1, <1>2, CallInv, KillInv, CollectInv DEF Next
-----------------------------------------------------------------------------
(* The inductive invariant holds in every reachable state. *)
THEOREM Invariance == Spec => []IInv
  BY InitIInv, NextIInv, PTL DEF Spec

(* The types of the store's files, locks and calls, for any number of      *)
(* processes and contents.                                                 *)
THEOREM TypeCorrect == Spec => []TypeOK
<1>1. IInv => TypeOK
  BY DEF IInv
<1> QED BY <1>1, Invariance, PTL

(* The store is content-addressed: an archive has the content its name     *)
(* says, whatever registry and remote cache answer, and two downloads of   *)
(* one archive never run at the same time, and a call that is over has     *)
(* left no scratch, unless a file of its own could not be read or written  *)
(* or a directory not be made before the rename.                           *)
THEOREM ContentAddressed == Spec => []ArchivesSound
<1>1. IInv => DownloadsExclusive
  BY DEF IInv, StepsFit, LocksHeld, DownloadsExclusive, ArchiveSteps
<1>2. IInv => ArchivesSound
  BY <1>1 DEF IInv, ArchivesSound
<1> QED BY <1>2, Invariance, PTL

(* The test ensure_image makes before it serves an image it did not        *)
(* extract (package.json is there and the version file is current) is      *)
(* enough: what passes is whole, unless a collector was killed while it    *)
(* removed the image.                                                      *)
THEOREM TrustIsEnough == Spec => []TrustedImageWhole
<1>1. IInv => TrustedImageWhole
  BY DEF IInv, LocksHeld, VersionVouches, TrustedImageWhole, Trusted
<1> QED BY <1>1, Invariance, PTL
=============================================================================
