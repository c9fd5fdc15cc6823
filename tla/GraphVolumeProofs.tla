-------------------------- MODULE GraphVolumeProofs --------------------------
(***************************************************************************)
(* Proofs about the shared graph volume, for any number of installs: when  *)
(* they agree on the scripts policy and the collector runs with a grace    *)
(* period and is not killed while it removes, every install that reported  *)
(* success has a whole view, and keeps it; when all run scripts, none is   *)
(* served a volume without them; and whoever publishes what it built had   *)
(* leased the inputs.                                                      *)
(***************************************************************************)
EXTENDS GraphVolume, TLAPS

(* Nobody runs scripts, or everybody does and the volume that was found    *)
(* had run them.                                                           *)
Agreed ==
    /\ ~GraceZero /\ ~GcMayDie
    /\ Scripted \in {{}, Installs} /\ (vol.scriptless => Scripted = {})

MainSteps == {"start", "ensure", "wantlock", "recheck", "discard", "build", "ready", "built",
              "failed", "lifecycle", "publish", "attach", "attaching", "attached", "done", "error"}
HelperSteps == {"none", "lease", "verify", "ok", "err", "record", "extend", "extendVerify"}
Building == {"recheck", "build", "built", "lifecycle", "publish"}
Attaching == {"attach", "attaching", "attached"}

(* The lock file says who is where; with one policy a volume whose marker  *)
(* is valid serves everybody, so no install removes one.                   *)
LocksHeld ==
    /\ glock = Collector <=> gpc \in {"locked", "removing"}
    /\ \A i \in Installs :
        /\ glock = MainOf(i) <=> pc[i] \in Building
        /\ glock = HelperOf(i) <=> hpc[i] \in {"verify", "extendVerify"}
        /\ pc[i] # "discard"

(* Only the collector breaks a volume, and only one that was old when it   *)
(* looked: what is published afresh is never collected.                    *)
OnlyOldCollected ==
    /\ gpc \in {"chosen", "locked"} => vol.state = "whole"
    /\ gpc = "removing" <=> vol.state \in {"hollow", "ruin"}
    /\ gpc # "idle" => aged
    /\ \A i \in Installs : pc[i] \in Building \ {"recheck"} => vol.state = "absent"

(* A row in the index protects the volume. *)
Protected == \A i \in Installs : leased[i] \/ ref[i] => vol.state = "whole"

(* Who found the old volume decided to reuse it, and so leases it before   *)
(* it attaches.                                                            *)
OldReused ==
    \A i \in Installs :
        /\ pc[i] # "start" /\ aged /\ ~reuse[i] => vol.state \in {"ruin", "absent"}
        /\ pc[i] \in {"ready"} \cup Attaching => reuse[i] \/ ~aged
        /\ pc[i] \in {"lifecycle", "publish"} \cup Attaching /\ reuse[i] => leased[i]
        /\ hpc[i] = "ok" /\ (reuse[i] \/ pc[i] \in Attaching) => leased[i]
        /\ pc[i] \in {"ready"} \cup Attaching /\ ~aged => vol.state = "whole"
        /\ pc[i] = "start" => hpc[i] = "none"
        /\ hpc[i] \in {"lease", "verify"} => pc[i] \notin Attaching
        /\ hpc[i] \in {"record", "extend", "extendVerify"} => pc[i] \in Attaching
        /\ hpc[i] \in {"extend", "extendVerify"} => ~leased[i]

ViewsWhole ==
    \A i \in Installs :
        /\ pc[i] \in {"attaching", "attached", "done"} => view[i] # "broken"
        /\ pc[i] = "done" => ref[i]

IInv == TypeOK /\ Agreed /\ LocksHeld /\ OnlyOldCollected /\ Protected /\ OldReused /\ ViewsWhole
-----------------------------------------------------------------------------
(* The holders of the graph's lock are all different. *)
LEMMA LockNames ==
  /\ Free # Collector
  /\ \A i \in Installs : /\ MainOf(i) \notin {Free, Collector} /\ HelperOf(i) \notin {Free, Collector}
                         /\ MainOf(i) \in Installs \X {"main", "helper"}
                         /\ HelperOf(i) \in Installs \X {"main", "helper"}
  /\ \A i, j \in Installs : /\ MainOf(i) # HelperOf(j)
                            /\ MainOf(i) = MainOf(j) => i = j
                            /\ HelperOf(i) = HelperOf(j) => i = j
  BY DEF Free, Collector, MainOf, HelperOf

(* With one policy, a valid marker serves everybody. *)
LEMMA AllServed == ASSUME IInv, NEW i \in Installs PROVE Serves(i) = MarkerValid
  BY DEF IInv, Agreed, Serves, MarkerValid

(* Installs that have not begun, and the volume an earlier install left,   *)
(* if any.                                                                 *)
LEMMA InitIInv == Init /\ Agreed => IInv
<1> SUFFICES ASSUME Init, Agreed PROVE IInv
  OBVIOUS
<1> USE DEF Init
<1>1. TypeOK
  <2>1. vol \in [state : {"absent", "whole", "hollow", "ruin"}, scriptless : BOOLEAN]
    <3>1. CASE vol = Absent
      BY <3>1 DEF Absent
    <3>2. CASE vol \in [state : {"whole"}, scriptless : BOOLEAN]
      BY <3>2
    <3> QED BY <3>1, <3>2
  <2>2. gcs \in 0 .. MaxGc
    BY PolicyAssumption
  <2> QED BY <2>1, <2>2 DEF TypeOK
<1>2. LocksHeld
  BY LockNames DEF LocksHeld, Building
<1>3. OnlyOldCollected /\ Protected
  BY DEF OnlyOldCollected, Protected, Absent, Building
<1>4. OldReused /\ ViewsWhole
  BY DEF OldReused, ViewsWhole, Attaching
<1> QED BY <1>1, <1>2, <1>3, <1>4 DEF IInv

(* The reuse check of finalize_install, and the lease thread it starts. *)
LEMMA OpenInv == ASSUME IInv, NEW i \in Installs, Open(i) PROVE IInv'
<1>1. /\ pc[i] = "start" /\ reuse' = [reuse EXCEPT ![i] = MarkerValid]
      /\ pc' = [pc EXCEPT ![i] = "ensure"] /\ hpc' = [hpc EXCEPT ![i] = "lease"]
      /\ UNCHANGED <<vol, aged, glock, stale, leased, ref, view, gpc, gcs>>
  BY AllServed DEF Open, Goto, HelperGoto, IInv, TypeOK
<1>2. /\ \A j \in Installs : j # i => pc'[j] = pc[j] /\ hpc'[j] = hpc[j] /\ reuse'[j] = reuse[j]
      /\ pc'[i] = "ensure" /\ hpc'[i] = "lease" /\ reuse'[i] = MarkerValid
  BY <1>1 DEF IInv, TypeOK
<1>3. TypeOK'
  <2>1. pc' \in [Installs -> MainSteps]
    BY <1>1 DEF IInv, TypeOK, MainSteps
  <2>2. hpc' \in [Installs -> HelperSteps]
    BY <1>1 DEF IInv, TypeOK, HelperSteps
  <2>3. reuse' \in [Installs -> BOOLEAN]
    BY <1>1 DEF IInv, TypeOK, MarkerValid
  <2> QED BY <1>1, <2>1, <2>2, <2>3 DEF IInv, TypeOK
<1>4. Agreed'
  BY <1>1 DEF IInv, Agreed
<1>5. LocksHeld'
  BY <1>1, <1>2, LockNames DEF IInv, LocksHeld, OldReused, Building, Attaching
<1>6. OnlyOldCollected'
  BY <1>1, <1>2, LockNames DEF IInv, LocksHeld, OnlyOldCollected, Building, MarkerValid, TypeOK
<1>7. Protected'
  BY <1>1, <1>2, LockNames DEF IInv, LocksHeld, OnlyOldCollected, Protected, OldReused, TypeOK,
     Building, Attaching
<1>8. OldReused'
  BY <1>1, <1>2, LockNames DEF IInv, LocksHeld, OnlyOldCollected, Protected, OldReused, Building,
     Attaching, MarkerValid, TypeOK
<1>9. ViewsWhole'
  BY <1>1, <1>2, LockNames DEF IInv, ViewsWhole, OldReused, Protected, OnlyOldCollected,
     LocksHeld, Building, Attaching, TypeOK
<1> QED BY <1>3, <1>4, <1>5, <1>6, <1>7, <1>8, <1>9 DEF IInv

(* ensure without the lock: a valid marker is enough. *)
LEMMA EnsureFastInv == ASSUME IInv, NEW i \in Installs, EnsureFast(i) PROVE IInv'
<1>1. /\ pc[i] = "ensure"
      /\ \/ MarkerValid /\ pc' = [pc EXCEPT ![i] = "ready"] /\ stale' = stale
         \/ ~MarkerValid /\ pc' = [pc EXCEPT ![i] = "wantlock"]
            /\ \E s \in BOOLEAN : stale' = [stale EXCEPT ![i] = s]
      /\ UNCHANGED <<vol, aged, glock, hpc, reuse, leased, ref, view, gpc, gcs>>
  BY AllServed DEF EnsureFast, Goto, IInv, TypeOK
<1>2. /\ \A j \in Installs : j # i => pc'[j] = pc[j] /\ stale'[j] = stale[j]
      /\ \/ MarkerValid /\ pc'[i] = "ready"
         \/ pc'[i] = "wantlock"
  BY <1>1 DEF IInv, TypeOK
<1>3. TypeOK'
  <2>1. pc' \in [Installs -> MainSteps]
    BY <1>1 DEF IInv, TypeOK, MainSteps
  <2>2. stale' \in [Installs -> BOOLEAN]
    BY <1>1 DEF IInv, TypeOK
  <2> QED BY <1>1, <2>1, <2>2 DEF IInv, TypeOK
<1>4. Agreed'
  BY <1>1 DEF IInv, Agreed
<1>5. LocksHeld'
  BY <1>1, <1>2, LockNames DEF IInv, LocksHeld, OldReused, Building, Attaching
<1>6. OnlyOldCollected'
  BY <1>1, <1>2, LockNames DEF IInv, LocksHeld, OnlyOldCollected, Building, MarkerValid, TypeOK
<1>7. Protected'
  BY <1>1, <1>2, LockNames DEF IInv, LocksHeld, OnlyOldCollected, Protected, OldReused, TypeOK,
     Building, Attaching
<1>8. OldReused'
  BY <1>1, <1>2, LockNames DEF IInv, LocksHeld, OnlyOldCollected, Protected, OldReused, Building,
     Attaching, MarkerValid, TypeOK
<1>9. ViewsWhole'
  BY <1>1, <1>2, LockNames DEF IInv, ViewsWhole, OldReused, Protected, OnlyOldCollected,
     LocksHeld, Building, Attaching, TypeOK
<1> QED BY <1>3, <1>4, <1>5, <1>6, <1>7, <1>8, <1>9 DEF IInv

(* Otherwise the graph's lock. *)
LEMMA AcquireGraphLockInv == ASSUME IInv, NEW i \in Installs, AcquireGraphLock(i) PROVE IInv'
<1>1. /\ pc[i] = "wantlock" /\ glock = Free /\ glock' = MainOf(i)
      /\ pc' = [pc EXCEPT ![i] = "recheck"]
      /\ UNCHANGED <<vol, aged, hpc, reuse, stale, leased, ref, view, gpc, gcs>>
  BY DEF AcquireGraphLock, Goto, IInv, TypeOK
<1>2. /\ \A j \in Installs : j # i => pc'[j] = pc[j]
      /\ pc'[i] = "recheck"
  BY <1>1 DEF IInv, TypeOK
<1>3. TypeOK'
  <2>1. glock' \in {Free, Collector} \cup (Installs \X {"main", "helper"})
    BY <1>1, LockNames DEF IInv, TypeOK
  <2>2. pc' \in [Installs -> MainSteps]
    BY <1>1 DEF IInv, TypeOK, MainSteps
  <2> QED BY <1>1, <2>1, <2>2 DEF IInv, TypeOK
<1>4. Agreed'
  BY <1>1 DEF IInv, Agreed
<1>5. LocksHeld'
  BY <1>1, <1>2, LockNames DEF IInv, LocksHeld, OldReused, Building, Attaching
<1>6. OnlyOldCollected'
  BY <1>1, <1>2, LockNames DEF IInv, LocksHeld, OnlyOldCollected, Building, TypeOK
<1>7. Protected'
  BY <1>1, <1>2, LockNames DEF IInv, LocksHeld, OnlyOldCollected, Protected, OldReused, TypeOK,
     Building, Attaching
<1>8. OldReused'
  BY <1>1, <1>2, LockNames DEF IInv, LocksHeld, OnlyOldCollected, Protected, OldReused, Building,
     Attaching, TypeOK
<1>9. ViewsWhole'
  BY <1>1, <1>2, LockNames DEF IInv, ViewsWhole, OldReused, Protected, OnlyOldCollected,
     LocksHeld, Building, Attaching, TypeOK
<1> QED BY <1>3, <1>4, <1>5, <1>6, <1>7, <1>8, <1>9 DEF IInv

(* The second look under the lock finds a whole volume or none: the        *)
(* collector holds this lock while it removes, and no install removes what *)
(* serves it.                                                              *)
LEMMA RecheckInv == ASSUME IInv, NEW i \in Installs, Recheck(i) PROVE IInv'
<1>0. Serves(i) = MarkerValid /\ (pc[i] = "recheck" /\ ~MarkerValid => ~Published)
  <2>1. pc[i] = "recheck" => gpc # "removing"
    BY LockNames DEF IInv, LocksHeld, Building
  <2> QED BY <2>1, AllServed DEF IInv, OnlyOldCollected, TypeOK, MarkerValid, Published
<1>1. /\ pc[i] = "recheck"
      /\ \/ MarkerValid /\ glock' = Free /\ pc' = [pc EXCEPT ![i] = "ready"]
         \/ ~Published /\ pc' = [pc EXCEPT ![i] = "build"] /\ glock' = glock
      /\ UNCHANGED <<vol, aged, hpc, reuse, stale, leased, ref, view, gpc, gcs>>
  BY <1>0 DEF Recheck, Goto, IInv, TypeOK
<1>2. /\ \A j \in Installs : j # i => pc'[j] = pc[j]
      /\ \/ MarkerValid /\ glock' = Free /\ pc'[i] = "ready"
         \/ ~Published /\ pc'[i] = "build" /\ glock' = glock
  BY <1>1 DEF IInv, TypeOK
<1>3. TypeOK'
  <2>1. glock' \in {Free, Collector} \cup (Installs \X {"main", "helper"})
    BY <1>1, LockNames DEF IInv, TypeOK
  <2>2. pc' \in [Installs -> MainSteps]
    BY <1>1 DEF IInv, TypeOK, MainSteps
  <2> QED BY <1>1, <2>1, <2>2 DEF IInv, TypeOK
<1>4. Agreed'
  BY <1>1 DEF IInv, Agreed
<1>5. LocksHeld'
  BY <1>1, <1>2, LockNames DEF IInv, LocksHeld, OldReused, Building, Attaching
<1>6. OnlyOldCollected'
  BY <1>1, <1>2, LockNames DEF IInv, LocksHeld, OnlyOldCollected, Building, MarkerValid,
     Published, TypeOK
<1>7. Protected'
  BY <1>1, <1>2, LockNames DEF IInv, LocksHeld, OnlyOldCollected, Protected, OldReused,
     Published, TypeOK, Building, Attaching
<1>8. OldReused'
  BY <1>1, <1>2, LockNames DEF IInv, LocksHeld, OnlyOldCollected, Protected, OldReused, Building,
     Attaching, MarkerValid, Published, TypeOK
<1>9. ViewsWhole'
  BY <1>1, <1>2, LockNames DEF IInv, ViewsWhole, OldReused, Protected, OnlyOldCollected,
     LocksHeld, Building, Attaching, Published, TypeOK
<1> QED BY <1>3, <1>4, <1>5, <1>6, <1>7, <1>8, <1>9 DEF IInv

(* The volume is built beside its place, with the lock held. *)
LEMMA BuildInv == ASSUME IInv, NEW i \in Installs, Build(i) PROVE IInv'
<1>1. /\ pc[i] = "build"
      /\ \/ pc' = [pc EXCEPT ![i] = "built"] /\ glock' = glock
         \/ pc' = [pc EXCEPT ![i] = "failed"] /\ glock' = Free
      /\ UNCHANGED <<vol, aged, hpc, reuse, stale, leased, ref, view, gpc, gcs>>
  BY DEF Build, Goto, IInv, TypeOK
<1>2. /\ \A j \in Installs : j # i => pc'[j] = pc[j]
      /\ \/ pc'[i] = "built" /\ glock' = glock
         \/ pc'[i] = "failed" /\ glock' = Free
  BY <1>1 DEF IInv, TypeOK
<1>3. TypeOK'
  <2>1. glock' \in {Free, Collector} \cup (Installs \X {"main", "helper"})
    BY <1>1, LockNames DEF IInv, TypeOK
  <2>2. pc' \in [Installs -> MainSteps]
    BY <1>1 DEF IInv, TypeOK, MainSteps
  <2> QED BY <1>1, <2>1, <2>2 DEF IInv, TypeOK
<1>4. Agreed'
  BY <1>1 DEF IInv, Agreed
<1>5. LocksHeld'
  BY <1>1, <1>2, LockNames DEF IInv, LocksHeld, OldReused, Building, Attaching
<1>6. OnlyOldCollected'
  BY <1>1, <1>2, LockNames DEF IInv, LocksHeld, OnlyOldCollected, Building, TypeOK
<1>7. Protected'
  BY <1>1, <1>2, LockNames DEF IInv, LocksHeld, OnlyOldCollected, Protected, OldReused, TypeOK,
     Building, Attaching
<1>8. OldReused'
  BY <1>1, <1>2, LockNames DEF IInv, LocksHeld, OnlyOldCollected, Protected, OldReused, Building,
     Attaching, TypeOK
<1>9. ViewsWhole'
  BY <1>1, <1>2, LockNames DEF IInv, ViewsWhole, OldReused, Protected, OnlyOldCollected,
     LocksHeld, Building, Attaching, TypeOK
<1> QED BY <1>3, <1>4, <1>5, <1>6, <1>7, <1>8, <1>9 DEF IInv

(* The lease thread takes the lock of the graph if the install counted on  *)
(* reusing it.                                                             *)
LEMMA LeaseLockInv == ASSUME IInv, NEW i \in Installs, LeaseLock(i) PROVE IInv'
<1>1. /\ hpc[i] = "lease"
      /\ \/ reuse[i] /\ glock = Free /\ glock' = HelperOf(i) /\ hpc' = [hpc EXCEPT ![i] = "verify"]
         \/ ~reuse[i] /\ glock' = glock /\ (hpc' = [hpc EXCEPT ![i] = "ok"] \/ hpc' = [hpc EXCEPT ![i] = "err"])
      /\ UNCHANGED <<vol, aged, pc, reuse, stale, leased, ref, view, gpc, gcs>>
  BY DEF LeaseLock, HelperGoto, installVars, gcVars, IInv, TypeOK
<1>2. /\ \A j \in Installs : j # i => hpc'[j] = hpc[j]
      /\ \/ reuse[i] /\ glock = Free /\ glock' = HelperOf(i) /\ hpc'[i] = "verify"
         \/ ~reuse[i] /\ glock' = glock /\ hpc'[i] \in {"ok", "err"}
  BY <1>1 DEF IInv, TypeOK
<1>3. TypeOK'
  <2>1. glock' \in {Free, Collector} \cup (Installs \X {"main", "helper"})
    BY <1>1, LockNames DEF IInv, TypeOK
  <2>2. hpc' \in [Installs -> HelperSteps]
    BY <1>1 DEF IInv, TypeOK, HelperSteps
  <2> QED BY <1>1, <2>1, <2>2 DEF IInv, TypeOK
<1>4. Agreed'
  BY <1>1 DEF IInv, Agreed
<1>5. LocksHeld'
  BY <1>1, <1>2, LockNames DEF IInv, LocksHeld, OldReused, Building, Attaching
<1>6. OnlyOldCollected'
  BY <1>1, <1>2, LockNames DEF IInv, LocksHeld, OnlyOldCollected, Building, TypeOK
<1>7. Protected'
  BY <1>1, <1>2, LockNames DEF IInv, LocksHeld, OnlyOldCollected, Protected, OldReused, TypeOK,
     Building, Attaching
<1>8. OldReused'
  BY <1>1, <1>2, LockNames DEF IInv, LocksHeld, OnlyOldCollected, Protected, OldReused, Building,
     Attaching, TypeOK
<1>9. ViewsWhole'
  BY <1>1, <1>2, LockNames DEF IInv, ViewsWhole, OldReused, Protected, OnlyOldCollected,
     LocksHeld, Building, Attaching, TypeOK
<1> QED BY <1>3, <1>4, <1>5, <1>6, <1>7, <1>8, <1>9 DEF IInv

(* It looks for the graph, inserts the row and gives the lock back; a      *)
(* graph that has gone fails the install.                                  *)
LEMMA LeaseVerifyInv == ASSUME IInv, NEW i \in Installs, LeaseVerify(i) PROVE IInv'
<1>1. /\ hpc[i] = "verify" /\ glock' = Free
      /\ leased' = [leased EXCEPT ![i] = Published]
      /\ hpc' = [hpc EXCEPT ![i] = IF Published THEN "ok" ELSE "err"]
      /\ UNCHANGED <<vol, aged, pc, reuse, stale, ref, view, gpc, gcs>>
  BY DEF LeaseVerify, HelperGoto, gcVars, IInv, TypeOK
<1>2. /\ \A j \in Installs : j # i => hpc'[j] = hpc[j] /\ leased'[j] = leased[j]
      /\ \/ Published /\ leased'[i] = TRUE /\ hpc'[i] = "ok"
         \/ ~Published /\ leased'[i] = FALSE /\ hpc'[i] = "err"
  BY <1>1 DEF IInv, TypeOK
<1>3. TypeOK'
  <2>1. glock' \in {Free, Collector} \cup (Installs \X {"main", "helper"})
    BY <1>1, LockNames DEF IInv, TypeOK
  <2>2. hpc' \in [Installs -> HelperSteps]
    BY <1>1 DEF IInv, TypeOK, HelperSteps
  <2>3. leased' \in [Installs -> BOOLEAN]
    BY <1>1 DEF IInv, TypeOK, Published
  <2> QED BY <1>1, <2>1, <2>2, <2>3 DEF IInv, TypeOK
<1>4. Agreed'
  BY <1>1 DEF IInv, Agreed
<1>5. LocksHeld'
  BY <1>1, <1>2, LockNames DEF IInv, LocksHeld, OldReused, Building, Attaching
<1>6. OnlyOldCollected'
  BY <1>1, <1>2, LockNames DEF IInv, LocksHeld, OnlyOldCollected, Building, Published, TypeOK
<1>7. Protected'
  BY <1>1, <1>2, LockNames DEF IInv, LocksHeld, OnlyOldCollected, Protected, OldReused,
     Published, TypeOK, Building, Attaching
<1>8. OldReused'
  BY <1>1, <1>2, LockNames DEF IInv, LocksHeld, OnlyOldCollected, Protected, OldReused, Building,
     Attaching, Published, TypeOK
<1>9. ViewsWhole'
  BY <1>1, <1>2, LockNames DEF IInv, ViewsWhole, OldReused, Protected, OnlyOldCollected,
     LocksHeld, Building, Attaching, Published, TypeOK
<1> QED BY <1>3, <1>4, <1>5, <1>6, <1>7, <1>8, <1>9 DEF IInv

(* Main thread and lease thread meet. *)
LEMMA JoinLeaseInv == ASSUME IInv, NEW i \in Installs, JoinLease(i) PROVE IInv'
<1>1. /\ pc[i] \in {"ready", "built", "failed"} /\ hpc[i] \in {"ok", "err"}
      /\ \/ /\ pc' = [pc EXCEPT ![i] = "error"] /\ hpc' = [hpc EXCEPT ![i] = "none"]
            /\ glock' = (IF glock = MainOf(i) THEN Free ELSE glock) /\ leased' = [leased EXCEPT ![i] = FALSE]
         \/ /\ hpc[i] = "ok" /\ pc[i] = "ready" /\ pc' = [pc EXCEPT ![i] = "attach"]
            /\ hpc' = [hpc EXCEPT ![i] = "record"] /\ glock' = glock /\ leased' = leased
         \/ /\ hpc[i] = "ok" /\ pc[i] = "built" /\ pc' = [pc EXCEPT ![i] = "lifecycle"]
            /\ hpc' = [hpc EXCEPT ![i] = "none"] /\ glock' = glock /\ leased' = leased
      /\ UNCHANGED <<vol, aged, reuse, stale, ref, view, gpc, gcs>>
  BY DEF JoinLease, Goto, HelperGoto, Fail, gcVars, IInv, TypeOK
<1>2. /\ \A j \in Installs : j # i => pc'[j] = pc[j] /\ hpc'[j] = hpc[j] /\ leased'[j] = leased[j]
      /\ \/ /\ pc'[i] = "error" /\ hpc'[i] = "none" /\ leased'[i] = FALSE
            /\ glock' = (IF glock = MainOf(i) THEN Free ELSE glock)
         \/ /\ hpc[i] = "ok" /\ pc[i] = "ready" /\ pc'[i] = "attach"
            /\ hpc'[i] = "record" /\ glock' = glock /\ leased'[i] = leased[i]
         \/ /\ hpc[i] = "ok" /\ pc[i] = "built" /\ pc'[i] = "lifecycle"
            /\ hpc'[i] = "none" /\ glock' = glock /\ leased'[i] = leased[i]
  BY <1>1 DEF IInv, TypeOK
<1>3. TypeOK'
  <2>1. glock' \in {Free, Collector} \cup (Installs \X {"main", "helper"})
    BY <1>1, LockNames DEF IInv, TypeOK
  <2>2. pc' \in [Installs -> MainSteps]
    BY <1>1 DEF IInv, TypeOK, MainSteps
  <2>3. hpc' \in [Installs -> HelperSteps]
    BY <1>1 DEF IInv, TypeOK, HelperSteps
  <2>4. leased' \in [Installs -> BOOLEAN]
    BY <1>1 DEF IInv, TypeOK
  <2> QED BY <1>1, <2>1, <2>2, <2>3, <2>4 DEF IInv, TypeOK
<1>4. Agreed'
  BY <1>1 DEF IInv, Agreed
<1>5. LocksHeld'
  BY <1>1, <1>2, LockNames DEF IInv, LocksHeld, OldReused, Building, Attaching
<1>6. OnlyOldCollected'
  <2>1. \A j \in Installs : pc'[j] \in Building \ {"recheck"} => pc[j] \in Building \ {"recheck"}
    BY <1>2 DEF Building
  <2> QED BY <1>1, <2>1 DEF IInv, OnlyOldCollected
<1>7. Protected'
  BY <1>1, <1>2, LockNames DEF IInv, LocksHeld, OnlyOldCollected, Protected, OldReused, TypeOK,
     Building, Attaching
<1>8. OldReused'
  BY <1>1, <1>2, LockNames DEF IInv, LocksHeld, OnlyOldCollected, Protected, OldReused, Building,
     Attaching, TypeOK
<1>9. ViewsWhole'
  BY <1>1, <1>2, LockNames DEF IInv, ViewsWhole, OldReused, Protected, OnlyOldCollected,
     LocksHeld, Building, Attaching, TypeOK
<1> QED BY <1>3, <1>4, <1>5, <1>6, <1>7, <1>8, <1>9 DEF IInv

(* Install scripts run in the staged tree. *)
LEMMA LifecycleInv == ASSUME IInv, NEW i \in Installs, Lifecycle(i) PROVE IInv'
<1>1. /\ pc[i] = "lifecycle"
      /\ \/ pc' = [pc EXCEPT ![i] = "publish"] /\ glock' = glock /\ leased' = leased
         \/ /\ pc' = [pc EXCEPT ![i] = "error"] /\ leased' = [leased EXCEPT ![i] = FALSE]
            /\ glock' = IF glock = MainOf(i) THEN Free ELSE glock
      /\ UNCHANGED <<vol, aged, hpc, reuse, stale, ref, view, gpc, gcs>>
  BY DEF Lifecycle, Goto, Fail, gcVars, IInv, TypeOK
<1>2. /\ \A j \in Installs : j # i => pc'[j] = pc[j] /\ leased'[j] = leased[j]
      /\ \/ pc'[i] = "publish" /\ glock' = glock /\ leased'[i] = leased[i]
         \/ /\ pc'[i] = "error" /\ leased'[i] = FALSE
            /\ glock' = IF glock = MainOf(i) THEN Free ELSE glock
  BY <1>1 DEF IInv, TypeOK
<1>3. TypeOK'
  <2>1. glock' \in {Free, Collector} \cup (Installs \X {"main", "helper"})
    BY <1>1, LockNames DEF IInv, TypeOK
  <2>2. pc' \in [Installs -> MainSteps]
    BY <1>1 DEF IInv, TypeOK, MainSteps
  <2>3. leased' \in [Installs -> BOOLEAN]
    BY <1>1 DEF IInv, TypeOK
  <2> QED BY <1>1, <2>1, <2>2, <2>3 DEF IInv, TypeOK
<1>4. Agreed'
  BY <1>1 DEF IInv, Agreed
<1>5. LocksHeld'
  BY <1>1, <1>2, LockNames DEF IInv, LocksHeld, OldReused, Building, Attaching
<1>6. OnlyOldCollected'
  BY <1>1, <1>2, LockNames DEF IInv, LocksHeld, OnlyOldCollected, Building, TypeOK
<1>7. Protected'
  BY <1>1, <1>2, LockNames DEF IInv, LocksHeld, OnlyOldCollected, Protected, OldReused, TypeOK,
     Building, Attaching
<1>8. OldReused'
  BY <1>1, <1>2, LockNames DEF IInv, LocksHeld, OnlyOldCollected, Protected, OldReused, Building,
     Attaching, TypeOK
<1>9. ViewsWhole'
  BY <1>1, <1>2, LockNames DEF IInv, ViewsWhole, OldReused, Protected, OnlyOldCollected,
     LocksHeld, Building, Attaching, TypeOK
<1> QED BY <1>3, <1>4, <1>5, <1>6, <1>7, <1>8, <1>9 DEF IInv

(* attach_project reads the marker and lists the entries: what it finds is *)
(* whole, because a row protects it or because it is new.                  *)
LEMMA AttachBeginInv == ASSUME IInv, NEW i \in Installs, AttachBegin(i) PROVE IInv'
<1>0. pc[i] \in {"attach", "attaching"} => glock # MainOf(i)
  BY DEF IInv, LocksHeld, Building
<1>1. /\ pc[i] = "attach"
      /\ \/ /\ pc' = [pc EXCEPT ![i] = "attaching"] /\ hpc' = hpc /\ glock' = glock /\ leased' = leased
            /\ view' = [view EXCEPT ![i] = IF vol.state # "whole" THEN "broken"
                                           ELSE IF vol.scriptless THEN "noscripts" ELSE "clean"]
         \/ /\ pc' = [pc EXCEPT ![i] = "error"] /\ hpc' = [hpc EXCEPT ![i] = "none"] /\ view' = view
            /\ hpc[i] \in {"ok", "err"}
            /\ glock' = glock /\ leased' = [leased EXCEPT ![i] = FALSE]
      /\ UNCHANGED <<vol, aged, reuse, stale, ref, gpc, gcs>>
  BY <1>0 DEF AttachBegin, Goto, HelperGoto, Fail, gcVars, IInv, TypeOK
<1>2. /\ \A j \in Installs : j # i => pc'[j] = pc[j] /\ hpc'[j] = hpc[j] /\ leased'[j] = leased[j] /\ view'[j] = view[j]
      /\ \/ /\ pc'[i] = "attaching" /\ hpc'[i] = hpc[i] /\ glock' = glock /\ leased'[i] = leased[i]
            /\ vol.state = "whole" => view'[i] # "broken"
         \/ /\ pc'[i] = "error" /\ hpc'[i] = "none" /\ leased'[i] = FALSE
            /\ hpc[i] \in {"ok", "err"}
            /\ glock' = glock
  BY <1>1 DEF IInv, TypeOK
<1>3. TypeOK'
  <2>1. glock' \in {Free, Collector} \cup (Installs \X {"main", "helper"})
    BY <1>1, LockNames DEF IInv, TypeOK
  <2>2. pc' \in [Installs -> MainSteps]
    BY <1>1 DEF IInv, TypeOK, MainSteps
  <2>3. hpc' \in [Installs -> HelperSteps]
    BY <1>1 DEF IInv, TypeOK, HelperSteps
  <2>4. leased' \in [Installs -> BOOLEAN]
    BY <1>1 DEF IInv, TypeOK
  <2>5. view' \in [Installs -> {"none", "clean", "noscripts", "broken"}]
    BY <1>1 DEF IInv, TypeOK
  <2> QED BY <1>1, <2>1, <2>2, <2>3, <2>4, <2>5 DEF IInv, TypeOK
<1>4. Agreed'
  BY <1>1 DEF IInv, Agreed
<1>5. LocksHeld'
  BY <1>1, <1>2, LockNames DEF IInv, LocksHeld, OldReused, Building, Attaching
<1>6. OnlyOldCollected'
  <2>1. \A j \in Installs : pc'[j] \in Building \ {"recheck"} => pc[j] \in Building \ {"recheck"}
    BY <1>1, <1>2 DEF Building
  <2> QED BY <1>1, <2>1 DEF IInv, OnlyOldCollected
<1>7. Protected'
  BY <1>1, <1>2, LockNames DEF IInv, LocksHeld, OnlyOldCollected, Protected, OldReused, TypeOK,
     Building, Attaching
<1>8. OldReused'
  BY <1>1, <1>2, LockNames DEF IInv, LocksHeld, OnlyOldCollected, Protected, OldReused, Building,
     Attaching, TypeOK
<1>9. ViewsWhole'
  BY <1>1, <1>2, LockNames DEF IInv, ViewsWhole, OldReused, Protected, OnlyOldCollected,
     LocksHeld, Building, Attaching, TypeOK
<1> QED BY <1>3, <1>4, <1>5, <1>6, <1>7, <1>8, <1>9 DEF IInv

(* The copy ends. *)
LEMMA AttachEndInv == ASSUME IInv, NEW i \in Installs, AttachEnd(i) PROVE IInv'
<1>0. pc[i] \in {"attach", "attaching"} => glock # MainOf(i)
  BY DEF IInv, LocksHeld, Building
<1>1. /\ pc[i] = "attaching"
      /\ \/ pc' = [pc EXCEPT ![i] = "attached"] /\ hpc' = hpc /\ glock' = glock /\ leased' = leased
         \/ /\ pc' = [pc EXCEPT ![i] = "error"] /\ hpc' = [hpc EXCEPT ![i] = "none"]
            /\ hpc[i] \in {"ok", "err"}
            /\ glock' = glock /\ leased' = [leased EXCEPT ![i] = FALSE]
      /\ UNCHANGED <<vol, aged, reuse, stale, ref, view, gpc, gcs>>
  BY <1>0 DEF AttachEnd, Goto, HelperGoto, Fail, gcVars, IInv, TypeOK
<1>2. /\ \A j \in Installs : j # i => pc'[j] = pc[j] /\ hpc'[j] = hpc[j] /\ leased'[j] = leased[j]
      /\ \/ pc'[i] = "attached" /\ hpc'[i] = hpc[i] /\ glock' = glock /\ leased'[i] = leased[i]
         \/ /\ pc'[i] = "error" /\ hpc'[i] = "none" /\ leased'[i] = FALSE
            /\ hpc[i] \in {"ok", "err"}
            /\ glock' = glock
  BY <1>1 DEF IInv, TypeOK
<1>3. TypeOK'
  <2>1. glock' \in {Free, Collector} \cup (Installs \X {"main", "helper"})
    BY <1>1, LockNames DEF IInv, TypeOK
  <2>2. pc' \in [Installs -> MainSteps]
    BY <1>1 DEF IInv, TypeOK, MainSteps
  <2>3. hpc' \in [Installs -> HelperSteps]
    BY <1>1 DEF IInv, TypeOK, HelperSteps
  <2>4. leased' \in [Installs -> BOOLEAN]
    BY <1>1 DEF IInv, TypeOK
  <2> QED BY <1>1, <2>1, <2>2, <2>3, <2>4 DEF IInv, TypeOK
<1>4. Agreed'
  BY <1>1 DEF IInv, Agreed
<1>5. LocksHeld'
  BY <1>1, <1>2 DEF IInv, LocksHeld, Building
<1>6. OnlyOldCollected'
  BY <1>1, <1>2, LockNames DEF IInv, LocksHeld, OnlyOldCollected, Building, TypeOK
<1>7. Protected'
  BY <1>1, <1>2, LockNames DEF IInv, LocksHeld, OnlyOldCollected, Protected, OldReused, TypeOK,
     Building, Attaching
<1>8. OldReused'
  BY <1>1, <1>2, LockNames DEF IInv, LocksHeld, OnlyOldCollected, Protected, OldReused, Building,
     Attaching, TypeOK
<1>9. ViewsWhole'
  BY <1>1, <1>2, LockNames DEF IInv, ViewsWhole, OldReused, Protected, OnlyOldCollected,
     LocksHeld, Building, Attaching, TypeOK
<1> QED BY <1>3, <1>4, <1>5, <1>6, <1>7, <1>8, <1>9 DEF IInv

(* record_graph, and the lease extension for a graph that was not leased. *)
LEMMA RecordInv == ASSUME IInv, NEW i \in Installs, Record(i) PROVE IInv'
<1>1. /\ hpc[i] = "record"
      /\ hpc' = [hpc EXCEPT ![i] = IF ~Published THEN "err" ELSE IF leased[i] THEN "ok" ELSE "extend"]
      /\ UNCHANGED <<vol, aged, glock, pc, reuse, stale, leased, ref, view, gpc, gcs>>
  BY DEF Record, HelperGoto, installVars, gcVars, IInv, TypeOK
<1>2. /\ \A j \in Installs : j # i => hpc'[j] = hpc[j]
      /\ hpc'[i] = IF ~Published THEN "err" ELSE IF leased[i] THEN "ok" ELSE "extend"
  BY <1>1 DEF IInv, TypeOK
<1>3. TypeOK'
  <2>1. hpc' \in [Installs -> HelperSteps]
    BY <1>1 DEF IInv, TypeOK, HelperSteps
  <2> QED BY <1>1, <2>1 DEF IInv, TypeOK
<1>4. Agreed'
  BY <1>1 DEF IInv, Agreed
<1>5. LocksHeld'
  BY <1>1, <1>2, LockNames DEF IInv, LocksHeld, OldReused, Building, Attaching
<1>6. OnlyOldCollected'
  BY <1>1, <1>2, LockNames DEF IInv, LocksHeld, OnlyOldCollected, Building, Published, TypeOK
<1>7. Protected'
  BY <1>1, <1>2, LockNames DEF IInv, LocksHeld, OnlyOldCollected, Protected, OldReused,
     Published, TypeOK, Building, Attaching
<1>8. OldReused'
  BY <1>1, <1>2, LockNames DEF IInv, LocksHeld, OnlyOldCollected, Protected, OldReused, Building,
     Attaching, Published, TypeOK
<1>9. ViewsWhole'
  BY <1>1, <1>2, LockNames DEF IInv, ViewsWhole, OldReused, Protected, OnlyOldCollected,
     LocksHeld, Building, Attaching, Published, TypeOK
<1> QED BY <1>3, <1>4, <1>5, <1>6, <1>7, <1>8, <1>9 DEF IInv

(* The extension takes the graph's lock. *)
LEMMA ExtendLockInv == ASSUME IInv, NEW i \in Installs, ExtendLock(i) PROVE IInv'
<1>1. /\ hpc[i] = "extend" /\ glock = Free /\ glock' = HelperOf(i)
      /\ hpc' = [hpc EXCEPT ![i] = "extendVerify"]
      /\ UNCHANGED <<vol, aged, pc, reuse, stale, leased, ref, view, gpc, gcs>>
  BY DEF ExtendLock, HelperGoto, installVars, gcVars, IInv, TypeOK
<1>2. /\ \A j \in Installs : j # i => hpc'[j] = hpc[j]
      /\ hpc'[i] = "extendVerify"
  BY <1>1 DEF IInv, TypeOK
<1>3. TypeOK'
  <2>1. glock' \in {Free, Collector} \cup (Installs \X {"main", "helper"})
    BY <1>1, LockNames DEF IInv, TypeOK
  <2>2. hpc' \in [Installs -> HelperSteps]
    BY <1>1 DEF IInv, TypeOK, HelperSteps
  <2> QED BY <1>1, <2>1, <2>2 DEF IInv, TypeOK
<1>4. Agreed'
  BY <1>1 DEF IInv, Agreed
<1>5. LocksHeld'
  BY <1>1, <1>2, LockNames DEF IInv, LocksHeld, OldReused, Building, Attaching
<1>6. OnlyOldCollected'
  BY <1>1, <1>2, LockNames DEF IInv, LocksHeld, OnlyOldCollected, Building, TypeOK
<1>7. Protected'
  BY <1>1, <1>2, LockNames DEF IInv, LocksHeld, OnlyOldCollected, Protected, OldReused, TypeOK,
     Building, Attaching
<1>8. OldReused'
  BY <1>1, <1>2, LockNames DEF IInv, LocksHeld, OnlyOldCollected, Protected, OldReused, Building,
     Attaching, TypeOK
<1>9. ViewsWhole'
  BY <1>1, <1>2, LockNames DEF IInv, ViewsWhole, OldReused, Protected, OnlyOldCollected,
     LocksHeld, Building, Attaching, TypeOK
<1> QED BY <1>3, <1>4, <1>5, <1>6, <1>7, <1>8, <1>9 DEF IInv

(* It verifies the graph under the lock before it inserts the row. *)
LEMMA ExtendVerifyInv == ASSUME IInv, NEW i \in Installs, ExtendVerify(i) PROVE IInv'
<1>1. /\ hpc[i] = "extendVerify" /\ glock' = Free
      /\ leased' = [leased EXCEPT ![i] = Published]
      /\ hpc' = [hpc EXCEPT ![i] = IF Published THEN "ok" ELSE "err"]
      /\ UNCHANGED <<vol, aged, pc, reuse, stale, ref, view, gpc, gcs>>
  BY DEF ExtendVerify, HelperGoto, gcVars, IInv, TypeOK
<1>2. /\ \A j \in Installs : j # i => hpc'[j] = hpc[j] /\ leased'[j] = leased[j]
      /\ \/ Published /\ leased'[i] = TRUE /\ hpc'[i] = "ok"
         \/ ~Published /\ leased'[i] = FALSE /\ hpc'[i] = "err"
  BY <1>1 DEF IInv, TypeOK
<1>3. TypeOK'
  <2>1. glock' \in {Free, Collector} \cup (Installs \X {"main", "helper"})
    BY <1>1, LockNames DEF IInv, TypeOK
  <2>2. hpc' \in [Installs -> HelperSteps]
    BY <1>1 DEF IInv, TypeOK, HelperSteps
  <2>3. leased' \in [Installs -> BOOLEAN]
    BY <1>1 DEF IInv, TypeOK, Published
  <2> QED BY <1>1, <2>1, <2>2, <2>3 DEF IInv, TypeOK
<1>4. Agreed'
  BY <1>1 DEF IInv, Agreed
<1>5. LocksHeld'
  BY <1>1, <1>2, LockNames DEF IInv, LocksHeld, OldReused, Building, Attaching
<1>6. OnlyOldCollected'
  BY <1>1, <1>2, LockNames DEF IInv, LocksHeld, OnlyOldCollected, Building, Published, TypeOK
<1>7. Protected'
  BY <1>1, <1>2, LockNames DEF IInv, LocksHeld, OnlyOldCollected, Protected, OldReused,
     Published, TypeOK, Building, Attaching
<1>8. OldReused'
  BY <1>1, <1>2, LockNames DEF IInv, LocksHeld, OnlyOldCollected, Protected, OldReused, Building,
     Attaching, Published, TypeOK
<1>9. ViewsWhole'
  BY <1>1, <1>2, LockNames DEF IInv, ViewsWhole, OldReused, Protected, OnlyOldCollected,
     LocksHeld, Building, Attaching, Published, TypeOK
<1> QED BY <1>3, <1>4, <1>5, <1>6, <1>7, <1>8, <1>9 DEF IInv

(* The reference is written before the leases end, so that a row protects  *)
(* the volume throughout.                                                  *)
LEMMA FinalizeInv == ASSUME IInv, NEW i \in Installs, Finalize(i) PROVE IInv'
<1>1. /\ pc[i] = "attached" /\ hpc[i] \in {"ok", "err"} /\ hpc' = [hpc EXCEPT ![i] = "none"]
      /\ leased' = [leased EXCEPT ![i] = FALSE]
      /\ \/ /\ hpc[i] = "ok" /\ pc' = [pc EXCEPT ![i] = "done"]
            /\ ref' = [ref EXCEPT ![i] = TRUE] /\ glock' = glock
         \/ /\ pc' = [pc EXCEPT ![i] = "error"] /\ ref' = ref
            /\ glock' = IF glock = MainOf(i) THEN Free ELSE glock
      /\ UNCHANGED <<vol, aged, reuse, stale, view, gpc, gcs>>
  BY DEF Finalize, Goto, HelperGoto, Fail, gcVars, IInv, TypeOK
<1>2. /\ \A j \in Installs : j # i => pc'[j] = pc[j] /\ hpc'[j] = hpc[j] /\ leased'[j] = leased[j] /\ ref'[j] = ref[j]
      /\ hpc'[i] = "none" /\ leased'[i] = FALSE
      /\ \/ hpc[i] = "ok" /\ pc'[i] = "done" /\ ref'[i] = TRUE /\ glock' = glock
         \/ /\ pc'[i] = "error" /\ ref'[i] = ref[i]
            /\ glock' = IF glock = MainOf(i) THEN Free ELSE glock
  BY <1>1 DEF IInv, TypeOK
<1>3. TypeOK'
  <2>1. glock' \in {Free, Collector} \cup (Installs \X {"main", "helper"})
    BY <1>1, LockNames DEF IInv, TypeOK
  <2>2. pc' \in [Installs -> MainSteps]
    BY <1>1 DEF IInv, TypeOK, MainSteps
  <2>3. hpc' \in [Installs -> HelperSteps]
    BY <1>1 DEF IInv, TypeOK, HelperSteps
  <2>4. leased' \in [Installs -> BOOLEAN]
    BY <1>1 DEF IInv, TypeOK
  <2>5. ref' \in [Installs -> BOOLEAN]
    BY <1>1 DEF IInv, TypeOK
  <2> QED BY <1>1, <2>1, <2>2, <2>3, <2>4, <2>5 DEF IInv, TypeOK
<1>4. Agreed'
  BY <1>1 DEF IInv, Agreed
<1>5. LocksHeld'
  BY <1>1, <1>2, LockNames DEF IInv, LocksHeld, OldReused, Building, Attaching
<1>6. OnlyOldCollected'
  BY <1>1, <1>2, LockNames DEF IInv, LocksHeld, OnlyOldCollected, Building, TypeOK
<1>7. Protected'
  BY <1>1, <1>2, LockNames DEF IInv, LocksHeld, OnlyOldCollected, Protected, OldReused, TypeOK,
     Building, Attaching
<1>8. OldReused'
  BY <1>1, <1>2, LockNames DEF IInv, LocksHeld, OnlyOldCollected, Protected, OldReused, Building,
     Attaching, TypeOK
<1>9. ViewsWhole'
  BY <1>1, <1>2, LockNames DEF IInv, ViewsWhole, OldReused, Protected, OnlyOldCollected,
     LocksHeld, Building, Attaching, TypeOK
<1> QED BY <1>3, <1>4, <1>5, <1>6, <1>7, <1>8, <1>9 DEF IInv

(* The rename into place: a fresh volume, which no collection that has     *)
(* chosen already knows of.                                                *)
LEMMA PublishInv == ASSUME IInv, NEW i \in Installs, Publish(i) PROVE IInv'
<1>0. pc[i] = "publish" => ~Published
  BY DEF IInv, OnlyOldCollected, Building, Published
<1>1. /\ pc[i] = "publish" /\ vol' = [state |-> "whole", scriptless |-> i \notin Scripted]
      /\ view' = view
      /\ aged' = FALSE /\ glock' = Free /\ pc' = [pc EXCEPT ![i] = "attach"] /\ hpc' = [hpc EXCEPT ![i] = "record"]
      /\ UNCHANGED <<reuse, stale, leased, ref, gpc, gcs>>
  BY <1>0 DEF Publish, Goto, HelperGoto, gcVars, IInv, TypeOK
<1>2. /\ \A j \in Installs : j # i => pc'[j] = pc[j] /\ hpc'[j] = hpc[j] /\ view'[j] = view[j]
      /\ pc'[i] = "attach" /\ hpc'[i] = "record" /\ view'[i] = view[i]
  BY <1>1 DEF IInv, TypeOK
<1>3. TypeOK'
  <2>1. vol' \in [state : {"absent", "whole", "hollow", "ruin"}, scriptless : BOOLEAN]
    BY <1>1 DEF IInv, TypeOK
  <2>2. aged' \in BOOLEAN
    BY <1>1 DEF IInv, TypeOK
  <2>3. glock' \in {Free, Collector} \cup (Installs \X {"main", "helper"})
    BY <1>1, LockNames DEF IInv, TypeOK
  <2>4. pc' \in [Installs -> MainSteps]
    BY <1>1 DEF IInv, TypeOK, MainSteps
  <2>5. hpc' \in [Installs -> HelperSteps]
    BY <1>1 DEF IInv, TypeOK, HelperSteps
  <2>6. view' \in [Installs -> {"none", "clean", "noscripts", "broken"}]
    BY <1>1 DEF IInv, TypeOK
  <2> QED BY <1>1, <2>1, <2>2, <2>3, <2>4, <2>5, <2>6 DEF IInv, TypeOK
<1>4. Agreed'
  BY <1>1 DEF IInv, Agreed
<1>5. LocksHeld'
  BY <1>1, <1>2, LockNames DEF IInv, LocksHeld, OldReused, Building, Attaching
<1>6. OnlyOldCollected'
  BY <1>1, <1>2, LockNames DEF IInv, LocksHeld, OnlyOldCollected, Building, Published, TypeOK
<1>7. Protected'
  BY <1>1, <1>2, LockNames DEF IInv, LocksHeld, OnlyOldCollected, Protected, OldReused,
     Published, TypeOK, Building, Attaching
<1>8. OldReused'
  BY <1>1, <1>2, LockNames DEF IInv, LocksHeld, OnlyOldCollected, Protected, OldReused, Building,
     Attaching, Published, TypeOK
<1>9. ViewsWhole'
  BY <1>1, <1>2, LockNames DEF IInv, ViewsWhole, OldReused, Protected, OnlyOldCollected,
     LocksHeld, Building, Attaching, Published, TypeOK
<1> QED BY <1>3, <1>4, <1>5, <1>6, <1>7, <1>8, <1>9 DEF IInv

(* A collection: candidates of a certain age, the lock, the second look at *)
(* the rows, the removal. It never breaks a volume somebody has leased,    *)
(* references, or has just published.                                      *)
LEMMA GcInv == ASSUME IInv, GcStep PROVE IInv'
<1>1. UNCHANGED <<aged, pc, hpc, reuse, stale, leased, ref>>
  BY DEF GcStep, GcChoose, GcLock, GcDelete, GcDeleted, GcDies, installVars
<1>2. \/ /\ gpc = "idle" /\ vol.state # "absent" /\ aged /\ gcs < MaxGc
         /\ gpc' = "chosen" /\ gcs' = gcs + 1 /\ UNCHANGED <<vol, glock, view>>
      \/ /\ gpc = "chosen" /\ glock = Free /\ glock' = Collector
         /\ gpc' = "locked" /\ UNCHANGED <<vol, view, gcs>>
      \/ gpc = "locked" /\ gpc' = "idle" /\ glock' = Free /\ UNCHANGED <<vol, view, gcs>>
      \/ /\ gpc = "locked" /\ ~GcProtected /\ gpc' = "removing" /\ BeginRemove /\ UNCHANGED <<glock, gcs>>
      \/ /\ gpc = "removing" /\ vol' = Absent /\ glock' = Free /\ gpc' = "idle" /\ UNCHANGED <<view, gcs>>
  BY DEF GcStep, GcChoose, GcLock, GcDelete, GcDeleted, GcDies, installVars, Published, IInv,
     Agreed
<1>3. CASE /\ gpc = "idle" /\ vol.state # "absent" /\ aged /\ gcs < MaxGc
           /\ gpc' = "chosen" /\ gcs' = gcs + 1 /\ UNCHANGED <<vol, glock, view>>
  <2>1. TypeOK'
    BY <1>1, <1>3, PolicyAssumption DEF IInv, TypeOK
  <2>2. OnlyOldCollected'
    BY <1>1, <1>3 DEF IInv, OnlyOldCollected, TypeOK
  <2> QED BY <1>1, <1>3, <2>1, <2>2 DEF IInv, Agreed, LocksHeld, Protected, OldReused, ViewsWhole
<1>4. CASE \/ /\ gpc = "chosen" /\ glock = Free /\ glock' = Collector
              /\ gpc' = "locked" /\ UNCHANGED <<vol, view, gcs>>
           \/ gpc = "locked" /\ gpc' = "idle" /\ glock' = Free /\ UNCHANGED <<vol, view, gcs>>
  <2>1. TypeOK'
    BY <1>1, <1>4 DEF IInv, TypeOK
  <2>2. LocksHeld'
    BY <1>1, <1>4, LockNames DEF IInv, LocksHeld
  <2>3. OnlyOldCollected'
    BY <1>1, <1>4 DEF IInv, OnlyOldCollected
  <2> QED BY <1>1, <1>4, <2>1, <2>2, <2>3 DEF IInv, Agreed, Protected, OldReused, ViewsWhole
<1>5. CASE gpc = "locked" /\ ~GcProtected /\ gpc' = "removing" /\ BeginRemove /\ UNCHANGED <<glock, gcs>>
  <2>1. /\ vol'.state \in {"hollow", "ruin"} /\ vol'.scriptless = vol.scriptless
        /\ vol' \in [state : {"absent", "whole", "hollow", "ruin"}, scriptless : BOOLEAN]
    BY <1>5 DEF IInv, TypeOK, BeginRemove
  <2>2. aged /\ vol.state = "whole"
    BY <1>5 DEF IInv, OnlyOldCollected
  <2>3. \A j \in Installs : ~leased[j] /\ ~ref[j]
    BY <1>5 DEF GcProtected
  <2>4. \A j \in Installs : pc[j] \notin Attaching /\ pc[j] # "done"
    BY <2>2, <2>3 DEF IInv, OldReused, ViewsWhole
  <2>5. view' = view
    BY <1>5, <2>4 DEF BeginRemove, Attaching, IInv, TypeOK
  <2>6. TypeOK'
    BY <1>1, <1>5, <2>1, <2>5 DEF IInv, TypeOK
  <2>7. Agreed' /\ LocksHeld'
    BY <1>1, <1>5, <2>1 DEF IInv, Agreed, LocksHeld
  <2>8. OnlyOldCollected'
    BY <1>1, <1>5, <2>1, <2>2 DEF IInv, OnlyOldCollected
  <2>9. Protected' /\ ViewsWhole'
    BY <1>1, <2>3, <2>5 DEF IInv, Protected, ViewsWhole
  <2>10. OldReused'
    BY <1>1, <2>2, <2>4 DEF IInv, OldReused
  <2> QED BY <2>6, <2>7, <2>8, <2>9, <2>10 DEF IInv
<1>6. CASE gpc = "removing" /\ vol' = Absent /\ glock' = Free /\ gpc' = "idle" /\ UNCHANGED <<view, gcs>>
  <2>1. vol.state # "whole" /\ aged /\ vol'.state = "absent" /\ vol'.scriptless = FALSE
    BY <1>6 DEF IInv, OnlyOldCollected, Absent
  <2>2. TypeOK'
    BY <1>1, <1>6 DEF IInv, TypeOK, Absent
  <2>3. Agreed' /\ LocksHeld'
    BY <1>1, <1>6, <2>1, LockNames DEF IInv, Agreed, LocksHeld
  <2>4. OnlyOldCollected'
    BY <1>1, <1>6, <2>1 DEF IInv, OnlyOldCollected
  <2>5. Protected' /\ ViewsWhole'
    BY <1>1, <1>6, <2>1 DEF IInv, Protected, ViewsWhole
  <2>6. OldReused'
    BY <1>1, <2>1 DEF IInv, OldReused
  <2> QED BY <2>2, <2>3, <2>4, <2>5, <2>6 DEF IInv
<1> QED BY <1>2, <1>3, <1>4, <1>5, <1>6

(* Every step keeps the invariant. *)
LEMMA NextIInv == IInv /\ [Next]_vars => IInv'
<1> SUFFICES ASSUME IInv, [Next]_vars PROVE IInv'
  OBVIOUS
<1>1. ASSUME NEW i \in Installs, MainStep(i) PROVE IInv'
  <2>1. ~Discard(i)
    BY DEF Discard, IInv, LocksHeld
  <2> QED
    BY <1>1, <2>1, OpenInv, EnsureFastInv, AcquireGraphLockInv, RecheckInv, BuildInv, JoinLeaseInv,
       LifecycleInv, PublishInv, AttachBeginInv, AttachEndInv, FinalizeInv DEF MainStep
<1>2. ASSUME NEW i \in Installs, HelperStep(i) PROVE IInv'
  BY <1>2, LeaseLockInv, LeaseVerifyInv, RecordInv, ExtendLockInv, ExtendVerifyInv DEF HelperStep
<1>3. CASE UNCHANGED vars
  BY <1>3 DEF vars, IInv, TypeOK, Agreed, LocksHeld, OnlyOldCollected, Protected, OldReused,
     ViewsWhole
<1> QED BY <1>1, <1>2, <1>3, GcInv DEF Next

(* The inductive invariant holds in every reachable state. *)
THEOREM Invariance == Agreed /\ Spec => []IInv
  BY InitIInv, NextIInv, PTL DEF Spec

(* Once an install has reported success its view is complete and stays so, *)
(* whatever the others build and collect, for any number of installs and   *)
(* collections. Needed: one policy on scripts, a grace period, and a       *)
(* collector that is not killed while it removes.                          *)
THEOREM ViewsIntact == Agreed /\ Spec => []InstalledViewIntact
<1>1. IInv => InstalledViewIntact
  BY DEF IInv, ViewsWhole, Protected, InstalledViewIntact
<1> QED BY <1>1, Invariance, PTL
-----------------------------------------------------------------------------
(* Scripts: no assumption on the collector is needed for what follows.     *)
Volumes == [state : {"absent", "whole", "hollow", "ruin"}, scriptless : BOOLEAN]
Views == {"none", "clean", "noscripts", "broken"}
Holders == {Free, Collector} \cup (Installs \X {"main", "helper"})

(* The type invariant, by the names of its sets. *)
Typed ==
    /\ vol \in Volumes /\ view \in [Installs -> Views] /\ glock \in Holders /\ aged \in BOOLEAN
    /\ pc \in [Installs -> MainSteps] /\ hpc \in [Installs -> HelperSteps]
    /\ reuse \in [Installs -> BOOLEAN] /\ stale \in [Installs -> BOOLEAN]
    /\ leased \in [Installs -> BOOLEAN] /\ ref \in [Installs -> BOOLEAN]
    /\ gpc \in {"idle", "chosen", "locked", "removing"} /\ gcs \in 0 .. MaxGc

(* The two are the same. *)
LEMMA TypedIsTypeOK == (Typed <=> TypeOK) /\ (Typed' <=> TypeOK')
  BY DEF Typed, TypeOK, Volumes, Views, Holders, MainSteps, HelperSteps

(* Who may hold the graph's lock. *)
LEMMA HolderTypes ==
    /\ Free \in Holders /\ Collector \in Holders
    /\ \A i \in Installs : MainOf(i) \in Holders /\ HelperOf(i) \in Holders
  BY LockNames DEF Holders

(* A removal that begins leaves the policy in the volume as it was, and    *)
(* breaks the copies in progress.                                          *)
LEMMA VolumeTypes ==
    ASSUME Typed
    PROVE  /\ Absent \in Volumes /\ ~Absent.scriptless
           /\ vol.scriptless \in BOOLEAN /\ MarkerValid \in BOOLEAN /\ Published \in BOOLEAN
           /\ \A i \in Installs : Serves(i) \in BOOLEAN
           /\ BeginRemove =>
                /\ vol' \in Volumes /\ vol'.scriptless = vol.scriptless
                /\ view' \in [Installs -> Views]
                /\ \A j \in Installs : view'[j] \in {view[j], "broken"}
<1>1. /\ Absent \in Volumes /\ ~Absent.scriptless /\ vol.scriptless \in BOOLEAN /\ vol \in Volumes
      /\ view \in [Installs -> Views] /\ "broken" \in Views
  BY DEF Absent, Volumes, Typed, Views
<1>2. MarkerValid \in BOOLEAN /\ Published \in BOOLEAN /\ \A i \in Installs : Serves(i) \in BOOLEAN
  BY DEF MarkerValid, Published, Serves
<1>3. ASSUME BeginRemove PROVE vol' \in Volumes /\ vol'.scriptless = vol.scriptless
  BY <1>1, <1>3 DEF BeginRemove, Volumes
<1>4. ASSUME BeginRemove
      PROVE  view' \in [Installs -> Views] /\ \A j \in Installs : view'[j] \in {view[j], "broken"}
  BY <1>1, <1>4 DEF BeginRemove
<1> QED BY <1>1, <1>2, <1>3, <1>4

(* A thread goes on to one of its steps, and the others stay.              *)
LEMMA GotoTypes ==
    ASSUME Typed, NEW i \in Installs
    PROVE  /\ \A l \in MainSteps : Goto(i, l) =>
                /\ pc' \in [Installs -> MainSteps] /\ pc'[i] = l
                /\ \A j \in Installs \ {i} : pc'[j] = pc[j]
           /\ \A l \in HelperSteps : HelperGoto(i, l) => hpc' \in [Installs -> HelperSteps]
           /\ Fail(i) =>
                /\ pc' \in [Installs -> MainSteps] /\ pc'[i] = "error"
                /\ \A j \in Installs \ {i} : pc'[j] = pc[j]
                /\ glock' \in Holders /\ leased' \in [Installs -> BOOLEAN]
  BY HolderTypes DEF Typed, Goto, HelperGoto, Fail, MainSteps

(* What an install has been served, or has published, has run scripts, and *)
(* no view was ever taken of one that has not.                             *)
Served == {"ready", "attach", "attaching", "attached", "done"}
ScriptInv ==
    /\ Typed /\ Scripted = Installs
    /\ \A i \in Installs : pc[i] \in Served => ~vol.scriptless
    /\ \A i \in Installs : view[i] # "noscripts"

(* The whole of a step that matters here: who moved where, and what became *)
(* of the volume and of the views.                                         *)
LEMMA ScriptStep ==
    ASSUME ScriptInv, NEW i \in Installs, Typed',
           \A j \in Installs \ {i} : pc'[j] = pc[j],
           vol'.scriptless => vol.scriptless,
           pc'[i] \in Served => pc[i] \in Served \/ ~vol'.scriptless,
           \A j \in Installs : view'[j] # "noscripts"
    PROVE  ScriptInv'
<1>1. ASSUME NEW j \in Installs, pc'[j] \in Served PROVE ~vol'.scriptless
  BY <1>1 DEF ScriptInv
<1> QED BY <1>1 DEF ScriptInv

(* Every step of an install keeps the invariant when all run scripts: the  *)
(* volume an earlier scriptless install left serves none of them, and none *)
(* publishes another.                                                      *)
LEMMA MainScripts ==
    ASSUME ScriptInv, NEW i \in Installs, MainStep(i)
    PROVE  ScriptInv'
<1>0. Typed /\ Scripted = Installs /\ (pc[i] \in Served => ~vol.scriptless) /\ \A j \in Installs : view[j] # "noscripts"
  BY DEF ScriptInv
<1> USE DEF MainSteps, HelperSteps
<1>1. CASE Open(i)
  <2>1. pc' \in [Installs -> MainSteps] /\ pc'[i] = "ensure" /\ \A j \in Installs \ {i} : pc'[j] = pc[j]
    BY <1>0, <1>1, GotoTypes DEF Open
  <2>2. hpc' \in [Installs -> HelperSteps] /\ reuse' \in [Installs -> BOOLEAN]
    BY <1>0, <1>1, GotoTypes, VolumeTypes DEF Open, Typed
  <2>3. Typed'
    BY <1>0, <1>1, <2>1, <2>2 DEF Open, Typed
  <2> QED BY <1>0, <1>1, <2>1, <2>3, ScriptStep DEF Open, Served
<1>2. CASE EnsureFast(i)
  <2>1. /\ pc' \in [Installs -> MainSteps] /\ \A j \in Installs \ {i} : pc'[j] = pc[j]
        /\ pc'[i] \in {"ready", "wantlock"} /\ (pc'[i] = "ready" => Serves(i))
    BY <1>0, <1>2, GotoTypes DEF EnsureFast
  <2>2. stale' \in [Installs -> BOOLEAN]
    BY <1>0, <1>2 DEF EnsureFast, Typed
  <2>3. Typed'
    BY <1>0, <1>2, <2>1, <2>2 DEF EnsureFast, Typed
  <2> QED BY <1>0, <1>2, <2>1, <2>3, ScriptStep DEF EnsureFast, Served, Serves
<1>3. CASE AcquireGraphLock(i)
  <2>1. pc' \in [Installs -> MainSteps] /\ pc'[i] = "recheck" /\ \A j \in Installs \ {i} : pc'[j] = pc[j]
    BY <1>0, <1>3, GotoTypes DEF AcquireGraphLock
  <2>2. Typed'
    BY <1>0, <1>3, <2>1, HolderTypes DEF AcquireGraphLock, Typed
  <2> QED BY <1>0, <1>3, <2>1, <2>2, ScriptStep DEF AcquireGraphLock, Served
<1>4. CASE Recheck(i)
  <2>1. /\ pc' \in [Installs -> MainSteps] /\ \A j \in Installs \ {i} : pc'[j] = pc[j]
        /\ pc'[i] \in {"ready", "discard", "build"} /\ (pc'[i] = "ready" => Serves(i))
    BY <1>0, <1>4, GotoTypes DEF Recheck
  <2>2. BeginRemove \/ UNCHANGED <<vol, view>>
    BY <1>4 DEF Recheck
  <2>3. /\ vol' \in Volumes /\ vol'.scriptless = vol.scriptless /\ view' \in [Installs -> Views]
        /\ \A j \in Installs : view'[j] # "noscripts"
    BY <1>0, <2>2, VolumeTypes DEF Typed
  <2>4. glock' \in Holders
    BY <1>0, <1>4, HolderTypes DEF Recheck, Typed
  <2>5. Typed'
    BY <1>0, <1>4, <2>1, <2>3, <2>4 DEF Recheck, Typed
  <2> QED BY <1>0, <2>1, <2>3, <2>5, ScriptStep DEF Served, Serves
<1>5. CASE Discard(i)
  <2>1. pc' \in [Installs -> MainSteps] /\ pc'[i] = "build" /\ \A j \in Installs \ {i} : pc'[j] = pc[j]
    BY <1>0, <1>5, GotoTypes DEF Discard
  <2>2. vol' \in Volumes /\ ~vol'.scriptless
    BY <1>0, <1>5, VolumeTypes DEF Discard
  <2>3. Typed'
    BY <1>0, <1>5, <2>1, <2>2 DEF Discard, Typed
  <2> QED BY <1>0, <1>5, <2>1, <2>2, <2>3, ScriptStep DEF Discard
<1>6. CASE Build(i)
  <2>1. /\ pc' \in [Installs -> MainSteps] /\ pc'[i] \in {"built", "failed"}
        /\ \A j \in Installs \ {i} : pc'[j] = pc[j]
    BY <1>0, <1>6, GotoTypes DEF Build
  <2>2. glock' \in Holders
    BY <1>0, <1>6, HolderTypes DEF Build, Typed
  <2>3. Typed'
    BY <1>0, <1>6, <2>1, <2>2 DEF Build, Typed
  <2> QED BY <1>0, <1>6, <2>1, <2>3, ScriptStep DEF Build, Served
<1>7. CASE JoinLease(i)
  <2>1. /\ pc' \in [Installs -> MainSteps] /\ \A j \in Installs \ {i} : pc'[j] = pc[j]
        /\ pc'[i] \in {"error", "attach", "lifecycle"} /\ (pc'[i] = "attach" => pc[i] = "ready")
        /\ glock' \in Holders /\ leased' \in [Installs -> BOOLEAN]
    BY <1>0, <1>7, GotoTypes DEF JoinLease, Typed
  <2>2. hpc' \in [Installs -> HelperSteps]
    BY <1>0, <1>7, GotoTypes DEF JoinLease
  <2>3. Typed'
    BY <1>0, <1>7, <2>1, <2>2 DEF JoinLease, Typed, gcVars
  <2> QED BY <1>0, <1>7, <2>1, <2>3, ScriptStep DEF JoinLease, Served
<1>8. CASE Lifecycle(i)
  <2>1. /\ pc' \in [Installs -> MainSteps] /\ \A j \in Installs \ {i} : pc'[j] = pc[j]
        /\ pc'[i] \in {"error", "publish"}
        /\ glock' \in Holders /\ leased' \in [Installs -> BOOLEAN]
    BY <1>0, <1>8, GotoTypes DEF Lifecycle, Typed
  <2>2. Typed'
    BY <1>0, <1>8, <2>1 DEF Lifecycle, Typed, gcVars
  <2> QED BY <1>0, <1>8, <2>1, <2>2, ScriptStep DEF Lifecycle, Served
<1>9. CASE Publish(i)
  <2>1. pc' \in [Installs -> MainSteps] /\ pc'[i] = "attach" /\ \A j \in Installs \ {i} : pc'[j] = pc[j]
    BY <1>0, <1>9, GotoTypes DEF Publish
  <2>2. vol' \in Volumes /\ ~vol'.scriptless
    BY <1>0, <1>9 DEF Publish, Volumes
  <2>3. view' \in [Installs -> Views] /\ \A j \in Installs : view'[j] # "noscripts"
    BY <1>0, <1>9 DEF Publish, Typed, Views
  <2>4. hpc' \in [Installs -> HelperSteps] /\ glock' \in Holders
    BY <1>0, <1>9, GotoTypes, HolderTypes DEF Publish
  <2>5. Typed'
    BY <1>0, <1>9, <2>1, <2>2, <2>3, <2>4 DEF Publish, Typed, gcVars
  <2> QED BY <2>1, <2>2, <2>3, <2>5, ScriptStep
<1>10. CASE AttachBegin(i)
  <2>1. /\ pc' \in [Installs -> MainSteps] /\ \A j \in Installs \ {i} : pc'[j] = pc[j]
        /\ glock' \in Holders /\ leased' \in [Installs -> BOOLEAN]
    BY <1>0, <1>10, GotoTypes DEF AttachBegin, Typed
  <2>2. hpc' \in [Installs -> HelperSteps]
    BY <1>0, <1>10, GotoTypes DEF AttachBegin, Typed
  <2>3. ~vol.scriptless /\ pc[i] \in Served
    BY <1>0, <1>10 DEF AttachBegin, Served
  <2>4. view' \in [Installs -> Views] /\ \A j \in Installs : view'[j] # "noscripts"
    BY <1>0, <1>10, <2>3 DEF AttachBegin, Typed, Views
  <2>5. Typed'
    BY <1>0, <1>10, <2>1, <2>2, <2>4 DEF AttachBegin, Typed, gcVars
  <2> QED BY <1>10, <2>1, <2>3, <2>4, <2>5, ScriptStep DEF AttachBegin
<1>11. CASE AttachEnd(i)
  <2>1. /\ pc' \in [Installs -> MainSteps] /\ \A j \in Installs \ {i} : pc'[j] = pc[j]
        /\ glock' \in Holders /\ leased' \in [Installs -> BOOLEAN]
    BY <1>0, <1>11, GotoTypes DEF AttachEnd, Typed
  <2>2. hpc' \in [Installs -> HelperSteps]
    BY <1>0, <1>11, GotoTypes DEF AttachEnd, Typed
  <2>3. Typed'
    BY <1>0, <1>11, <2>1, <2>2 DEF AttachEnd, Typed, gcVars
  <2> QED BY <1>0, <1>11, <2>1, <2>3, ScriptStep DEF AttachEnd, Served
<1>12. CASE Finalize(i)
  <2>1. /\ pc' \in [Installs -> MainSteps] /\ \A j \in Installs \ {i} : pc'[j] = pc[j]
        /\ glock' \in Holders /\ leased' \in [Installs -> BOOLEAN]
    BY <1>0, <1>12, GotoTypes DEF Finalize, Typed
  <2>2. hpc' \in [Installs -> HelperSteps] /\ ref' \in [Installs -> BOOLEAN]
    BY <1>0, <1>12, GotoTypes DEF Finalize, Typed
  <2>3. Typed'
    BY <1>0, <1>12, <2>1, <2>2 DEF Finalize, Typed, gcVars
  <2> QED BY <1>0, <1>12, <2>1, <2>3, ScriptStep DEF Finalize, Served
<1> QED BY <1>1, <1>2, <1>3, <1>4, <1>5, <1>6, <1>7, <1>8, <1>9, <1>10, <1>11, <1>12 DEF MainStep

(* The helper threads neither move the install nor touch the volume. *)
LEMMA HelperScripts ==
    ASSUME ScriptInv, NEW i \in Installs, HelperStep(i)
    PROVE  ScriptInv'
<1>0. Typed /\ \A j \in Installs : view[j] # "noscripts"
  BY DEF ScriptInv
<1>1. UNCHANGED <<vol, aged, pc, reuse, stale, ref, view, gpc, gcs>>
  BY DEF HelperStep, LeaseLock, LeaseVerify, Record, ExtendLock, ExtendVerify, installVars, gcVars
<1>2. hpc' \in [Installs -> HelperSteps]
  BY <1>0, GotoTypes DEF HelperStep, LeaseLock, LeaseVerify, Record, ExtendLock, ExtendVerify, HelperSteps
<1>3. glock' \in Holders
  BY <1>0, HolderTypes DEF HelperStep, LeaseLock, LeaseVerify, Record, ExtendLock, ExtendVerify, Typed
<1>4. leased' \in [Installs -> BOOLEAN]
  BY <1>0, VolumeTypes DEF HelperStep, LeaseLock, LeaseVerify, Record, ExtendLock, ExtendVerify, installVars, Typed
<1>5. Typed'
  BY <1>0, <1>1, <1>2, <1>3, <1>4 DEF Typed
<1> QED BY <1>0, <1>1, <1>5, ScriptStep

(* The collector takes volumes away, and one that is away is no volume     *)
(* without scripts.                                                        *)
LEMMA GcScripts ==
    ASSUME ScriptInv, GcStep
    PROVE  ScriptInv'
<1>0. Typed /\ \A j \in Installs : view[j] # "noscripts"
  BY DEF ScriptInv
<1>1. UNCHANGED <<aged, pc, hpc, reuse, stale, leased, ref>>
  BY DEF GcStep, GcChoose, GcLock, GcDelete, GcDeleted, GcDies, installVars
<1>2. BeginRemove \/ UNCHANGED <<vol, view>> \/ (vol' = Absent /\ view' = view)
  BY DEF GcStep, GcChoose, GcLock, GcDelete, GcDeleted, GcDies, installVars
<1>3. /\ vol' \in Volumes /\ (vol'.scriptless => vol.scriptless) /\ view' \in [Installs -> Views]
      /\ \A j \in Installs : view'[j] # "noscripts"
  BY <1>0, <1>2, VolumeTypes DEF Typed
<1>4. glock' \in Holders /\ gpc' \in {"idle", "chosen", "locked", "removing"}
  BY <1>0, HolderTypes DEF GcStep, GcChoose, GcLock, GcDelete, GcDeleted, GcDies, Typed
<1>5. gcs' \in 0 .. MaxGc
  BY <1>0, PolicyAssumption DEF GcStep, GcChoose, GcLock, GcDelete, GcDeleted, GcDies, Typed
<1>6. Typed'
  BY <1>1, <1>0, <1>3, <1>4, <1>5 DEF Typed
<1> QED BY <1>1, <1>3, <1>6 DEF ScriptInv

(* When all installs run scripts, none that reports success was served a   *)
(* volume in which they have not run: whatever volume was found, however   *)
(* the installs interleave, and whatever a collector with or without a     *)
(* grace period, killed or not, does between them.                         *)
THEOREM AllScriptsRan == Scripted = Installs /\ Spec => []ScriptsRan
<1>1. Scripted = Installs /\ Init => ScriptInv
  <2> SUFFICES ASSUME Scripted = Installs, Init PROVE ScriptInv
    OBVIOUS
  <2>1. Absent \in [state : {"absent", "whole", "hollow", "ruin"}, scriptless : BOOLEAN]
    BY DEF Absent
  <2>2. TypeOK
    BY <2>1, PolicyAssumption DEF Init, TypeOK
  <2>3. Typed
    BY <2>2, TypedIsTypeOK
  <2>4. \A i \in Installs : pc[i] = "start" /\ view[i] = "none"
    BY DEF Init
  <2> QED BY <2>3, <2>4 DEF ScriptInv, Served
<1>2. ScriptInv /\ [Next]_vars => ScriptInv'
  <2> SUFFICES ASSUME ScriptInv, [Next]_vars PROVE ScriptInv'
    OBVIOUS
  <2>1. CASE UNCHANGED vars
    BY <2>1 DEF vars, ScriptInv, Typed
  <2> QED BY <2>1, MainScripts, HelperScripts, GcScripts DEF Next
<1>3. ScriptInv => ScriptsRan
  BY DEF ScriptInv, ScriptsRan
<1> QED BY <1>1, <1>2, <1>3, PTL DEF Spec
-----------------------------------------------------------------------------
(* Installs that agree on scripts, beside a collector with a grace period  *)
(* that is not killed: whoever publishes a volume it built decided against *)
(* reuse, and so took the full lease on the inputs.  One that meant to     *)
(* reuse either leased the graph, and then the volume stays and it does    *)
(* not build, or it did not and gets no further than the join of its lease *)
(* thread.                                                                 *)
THEOREM PublishersLeaseInputs == Agreed /\ Spec => []PublishersHoldFullLease
<1>1. IInv => PublishersHoldFullLease
  <2> SUFFICES ASSUME IInv, NEW i \in Installs, pc[i] \in {"lifecycle", "publish"}, reuse[i]
               PROVE  FALSE
    BY DEF PublishersHoldFullLease
  <2>1. leased[i]
    BY DEF IInv, OldReused
  <2>2. vol.state = "whole"
    BY <2>1 DEF IInv, Protected
  <2>3. vol.state = "absent"
    BY DEF IInv, OnlyOldCollected, Building
  <2> QED BY <2>2, <2>3
<1> QED BY <1>1, Invariance, PTL
=============================================================================
