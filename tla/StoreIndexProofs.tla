-------------------------- MODULE StoreIndexProofs --------------------------
(***************************************************************************)
(* Proofs about StoreIndex, for every number of objects, graphs, projects, *)
(* installs, collectors and collections.                                   *)
(*                                                                         *)
(* That a lease keeps its objects in the store is not inductive: between   *)
(* the check and the insertion of the rows nothing in the index protects   *)
(* the objects yet.  What does is the locks, so the invariant adds who     *)
(* holds them, and that what was verified under them is still there.       *)
(*                                                                         *)
(* The second part is about the graphs projects are installed from.        *)
(***************************************************************************)
EXTENDS StoreIndex, TLAPS

(* An install between taking the locks of its keys and releasing them      *)
(* holds all of them.                                                      *)
LocksHeld ==
    \A i \in Installs : pc[i] \in {"verify", "insert"} =>
        \A o \in keys[i] : lock[o] = i

(* What an install has verified is still in the store when it inserts.     *)
VerifiedPresent ==
    \A i \in Installs : pc[i] = "insert" =>
        \A o \in keys[i] : o \in GraphKeys \/ o \in fs

IInv == TypeOK /\ LocksHeld /\ VerifiedPresent /\ LeasedInputsPresent

-----------------------------------------------------------------------------
(* The keys that installs lease and record are objects of the store. *)
LEMMA KeysAreObjects ==
    ASSUME NEW g \in Graphs
    PROVE  /\ Graph(g) \in GraphKeys /\ Graph(g) \in Objs
           /\ Inventory(g) \subseteq Objs
           /\ LeaseKeys(g) \subseteq Objs
           /\ ExtendKeys(g) \subseteq Objs
  BY ConfigAssumption
     DEF Objs, ArtifactKeys, ImageKeys, DerivedKeys, GraphKeys, Inventory, LeaseKeys, ExtendKeys

(* The images of artifacts are objects of the store. *)
LEMMA ImagesAreObjects ==
    /\ \A a \in Arts : Image(a) \in Objs
    /\ ArtifactKeys \subseteq Objs /\ ImageKeys \subseteq Objs
    /\ DerivedKeys \subseteq Objs /\ GraphKeys \subseteq Objs
  BY DEF Objs, ArtifactKeys, ImageKeys

(* Unlocked and WithoutLease only take away. *)
LEMMA Releasing ==
    ASSUME TypeOK, NEW x \in Actors
    PROVE  /\ Unlocked(x) \in [Objs -> Actors \cup {NoOne}]
           /\ \A o \in Objs : lock[o] # x => Unlocked(x)[o] = lock[o]
           /\ WithoutLease(x) \subseteq lease
  BY DEF TypeOK, Unlocked, WithoutLease

(* Initial states satisfy the invariant. *)
LEMMA InitIInv == Init => IInv
<1> SUFFICES ASSUME NEW past \in [Projects -> Graphs \cup {NoGraph}],
                    NEW leftover \in SUBSET Graphs,
                    InitWith(past, leftover)
             PROVE  IInv
  BY DEF Init
<1> DEFINE gs == leftover \cup ({past[p] : p \in Projects} \ {NoGraph})
           objs == UNION {LeaseKeys(g) \cup {Graph(g)} : g \in gs}
<1>1. gs \subseteq Graphs
  OBVIOUS
<1>2. objs \subseteq Objs
  <2> SUFFICES ASSUME NEW g \in gs PROVE LeaseKeys(g) \cup {Graph(g)} \subseteq Objs
    OBVIOUS
  <2> QED BY <1>1, KeysAreObjects
<1>3. fs = objs /\ rows = objs /\ logged = objs /\ complete = gs
  BY DEF InitWith
<1>4. edges \in [Graphs -> SUBSET Objs]
  BY KeysAreObjects DEF InitWith
<1>5. TypeOK
  <2> HIDE DEF gs, objs
  <2> QED BY <1>1, <1>2, <1>3, <1>4, ConfigAssumption DEF InitWith, TypeOK, Ended
<1>6. LocksHeld /\ VerifiedPresent /\ LeasedInputsPresent
  BY DEF InitWith, LocksHeld, VerifiedPresent, LeasedInputsPresent
<1> QED BY <1>5, <1>6 DEF IInv

-----------------------------------------------------------------------------
(* What an install's way out of its session leaves of the state. *)
LEMMA LeaveTypes ==
    ASSUME TypeOK, NEW i \in Installs,
           NEW l \in {"done", "failed", "clear", "fetch"}, Leave(i, l)
    PROVE  /\ pc' = [pc EXCEPT ![i] = l] /\ pc'[i] = l
           /\ pc' \in [Installs -> Ended \cup
                 {"start", "fetch", "check", "batch", "lock", "verify", "insert", "publish",
                  "record", "gtx", "register", "setref", "clear"}]
           /\ lock' \in [Objs -> Actors \cup {NoOne}]
           /\ \A o \in Objs : lock[o] # i => lock'[o] = lock[o]
           /\ lease' \in SUBSET (Installs \X Objs) /\ lease' \subseteq lease
           /\ guard' \in [Installs -> SUBSET Objs]
           /\ keys' = [keys EXCEPT ![i] = {}] /\ keys' \in [Installs -> SUBSET Objs]
           /\ mode' \in [Installs -> {"build", "reuse", "refresh"}]
<1>1. i \in Actors
  BY DEF Actors
<1>2. /\ lock' \in [Objs -> Actors \cup {NoOne}]
      /\ \A o \in Objs : lock[o] # i => lock'[o] = lock[o]
      /\ lease' \subseteq lease
  BY <1>1, Releasing DEF Leave
<1> QED BY <1>2 DEF TypeOK, Leave, Goto, Ended

(* Every step of an install preserves the types. *)
LEMMA InstallTypes ==
    ASSUME TypeOK, NEW i \in Installs, InstallStep(i)
    PROVE  TypeOK'
<1> DEFINE g == GraphOf[i]
<1>1. g \in Graphs /\ ProjectOf[i] \in Projects /\ i \in Actors
  BY ConfigAssumption DEF Actors
<1>2. /\ Graph(g) \in Objs /\ Inventory(g) \subseteq Objs
      /\ LeaseKeys(g) \subseteq Objs /\ ExtendKeys(g) \subseteq Objs
  BY <1>1, KeysAreObjects
<1> HIDE DEF g
<1>3. CASE Refresh(i)
  <2>1. CASE ProtectionCurrent(i)
    <3>1. Leave(i, "done")
      BY <1>3, <2>1 DEF Refresh, Succeed
    <3> QED BY <1>1, <1>3, <2>1, <3>1, LeaveTypes DEF Refresh, Succeed, TypeOK, gcVars, g
  <2>2. CASE ~ProtectionCurrent(i)
    BY <1>2, <1>3, <2>2 DEF Refresh, TypeOK, Goto, gcVars, g
  <2> QED BY <2>1, <2>2
<1>4. CASE Clear(i)
  BY <1>1, <1>4 DEF Clear, TypeOK, Goto, dbVars, gcVars
<1>5. CASE Resolve(i)
  BY <1>5 DEF Resolve, TypeOK, Goto, fsVars, dbVars, gcVars
<1>6. CASE Open(i)
  BY <1>2, <1>6 DEF Open, TypeOK, Goto, fsVars, dbVars, gcVars, g
<1>7. CASE Check(i)
  <2>1. CASE keys[i] \subseteq Published
    BY <1>7, <2>1 DEF Check, TypeOK, Goto, gcVars
  <2>2. CASE ~(keys[i] \subseteq Published)
    <3>1. PICK l \in {"clear", "failed"} : Leave(i, l)
      BY <1>7, <2>2 DEF Check, Missing
    <3> QED BY <1>7, <3>1, LeaveTypes DEF Check, TypeOK, gcVars
  <2> QED BY <2>1, <2>2
<1>8. CASE Batch(i)
  BY <1>8 DEF Batch, Touch, TypeOK, Goto, fsVars, gcVars
<1>9. CASE AcquireLocks(i)
  BY <1>1, <1>9 DEF AcquireLocks, TypeOK, Goto, dbVars, gcVars
<1>10. CASE Verify(i)
  <2>1. CASE keys[i] \subseteq Published
    BY <1>10, <2>1 DEF Verify, TypeOK, Goto, gcVars
  <2>2. CASE ~(keys[i] \subseteq Published)
    <3>1. PICK l \in {"clear", "failed"} : Leave(i, l)
      BY <1>10, <2>2 DEF Verify, Missing
    <3> QED BY <1>10, <3>1, LeaveTypes DEF Verify, TypeOK, gcVars
  <2> QED BY <2>1, <2>2
<1>11. CASE Insert(i)
  <2>1. lock' \in [Objs -> Actors \cup {NoOne}]
    BY <1>1, <1>11, Releasing DEF Insert
  <2> QED BY <1>11, <2>1 DEF Insert, TypeOK, Goto, gcVars
<1>12. CASE Publish(i)
  <2>1. CASE Refused(i) /\ UNCHANGED <<fs, fresh, young, installed>>
    <3>1. PICK l \in {"fetch", "failed"} : Leave(i, l)
      BY <2>1 DEF Refused
    <3> QED BY <1>12, <2>1, <3>1, LeaveTypes DEF Publish, TypeOK, gcVars
  <2>2. CASE ~(Refused(i) /\ UNCHANGED <<fs, fresh, young, installed>>)
    BY <1>1, <1>2, <1>12, <2>2 DEF Publish, Appear, TypeOK, Goto, gcVars, g
  <2> QED BY <2>1, <2>2
<1>13. CASE Record(i)
  <2>1. CASE Missing(i)
    <3>1. PICK l \in {"clear", "failed"} : Leave(i, l)
      BY <2>1 DEF Missing
    <3> QED BY <1>13, <3>1, LeaveTypes DEF Record, TypeOK, gcVars
  <2>2. CASE ~Missing(i)
    BY <1>2, <1>13, <2>2 DEF Record, Extend, TypeOK, Goto, gcVars, g
  <2> QED BY <2>1, <2>2
<1>14. CASE RecordTx(i)
  <2>1. CASE ~(Inventory(g) \subseteq rows)
    <3>1. PICK l \in {"fetch", "failed"} : Leave(i, l)
      BY <1>14, <2>1 DEF RecordTx, Refused, g
    <3> QED BY <1>14, <2>1, <3>1, LeaveTypes DEF RecordTx, TypeOK, gcVars, g
  <2>2. CASE Inventory(g) \subseteq rows
    BY <1>1, <1>2, <1>14, <2>2 DEF RecordTx, Extend, Touch, TypeOK, Goto, gcVars, g
  <2> QED BY <2>1, <2>2
<1>15. CASE Register(i)
  <2>1. CASE ProtectionCurrent(i)
    <3>1. Leave(i, "done")
      BY <1>15, <2>1 DEF Register, Succeed
    <3> QED BY <1>1, <1>15, <2>1, <3>1, LeaveTypes DEF Register, Succeed, TypeOK, gcVars, g
  <2>2. CASE ~ProtectionCurrent(i)
    BY <1>1, <1>15, <2>2 DEF Register, TypeOK, Goto, gcVars, g
  <2> QED BY <2>1, <2>2
<1>16. CASE SetRef(i)
  <2>1. CASE Graph(g) \in fs \cap rows
    <3>1. Leave(i, "done")
      BY <1>16, <2>1 DEF SetRef, Succeed, g
    <3> QED BY <1>1, <1>16, <2>1, <3>1, LeaveTypes DEF SetRef, Succeed, TypeOK, gcVars, g
  <2>2. CASE Graph(g) \notin fs \cap rows
    <3>1. PICK l \in {"fetch", "clear", "failed"} : Leave(i, l)
      BY <1>16, <2>2 DEF SetRef, Missing, Refused, g
    <3> QED BY <1>16, <2>2, <3>1, LeaveTypes DEF SetRef, TypeOK, gcVars, g
  <2> QED BY <2>1, <2>2
<1>17. CASE Crash(i)
  <2>1. lock' \in [Objs -> Actors \cup {NoOne}]
    BY <1>1, <1>17, Releasing DEF Crash
  <2> QED BY <1>17, <2>1 DEF Crash, TypeOK, Goto, Ended, dbVars, gcVars
<1>18. CASE Expire(i)
  BY <1>18 DEF Expire, TypeOK, fsVars, installVars, gcVars
<1>19. ASSUME NEW o \in Objs, Fetch(i, o) PROVE TypeOK'
  BY <1>19 DEF Fetch, Appear, TypeOK, gcVars
<1> QED BY <1>3, <1>4, <1>5, <1>6, <1>7, <1>8, <1>9, <1>10, <1>11, <1>12, <1>13,
           <1>14, <1>15, <1>16, <1>17, <1>18, <1>19 DEF InstallStep

(* Every step of a collector preserves the types. *)
LEMMA CollectorTypes ==
    ASSUME TypeOK, NEW c \in Collectors, CollectorStep(c)
    PROVE  TypeOK'
<1>1. c \in Actors
  BY DEF Actors
<1>2. Published \subseteq Objs
  BY DEF TypeOK, Published
<1>3. CASE ScanArtifacts(c)
  BY <1>3, ConfigAssumption
     DEF ScanArtifacts, TypeOK, fsVars, dbVars, installVars
<1>4. CASE ScanImages(c)
  BY <1>2, <1>4 DEF ScanImages, TypeOK, fsVars, dbVars, installVars
<1>5. CASE ScanGraphs(c)
  BY <1>5 DEF ScanGraphs, TypeOK, fsVars, dbVars, installVars
<1>6. CASE FindStale(c)
  BY <1>6 DEF FindStale, TypeOK, fsVars, dbVars, installVars
<1>7. CASE RepairTx(c)
  <2>1. CASE RepairBreaksKey(c)
    BY <1>7, <2>1 DEF RepairTx, TypeOK, fsVars, dbVars, installVars
  <2>2. CASE ~RepairBreaksKey(c)
    <3>1. RepairedRows(c) \subseteq Objs
      BY DEF RepairedRows, TypeOK
    <3>2. RepairedEdges(c) \in [Graphs -> SUBSET Objs]
      BY KeysAreObjects DEF RepairedEdges, ObservedEdges, TypeOK
    <3>3. RepairedComplete(c) \subseteq Graphs
      BY DEF RepairedComplete
    <3>4. RepairedRef(c) \in [Projects -> Graphs \cup {NoGraph}]
      BY DEF RepairedRef, TypeOK
    <3> QED BY <1>7, <2>2, <3>1, <3>2, <3>3, <3>4
            DEF RepairTx, TypeOK, fsVars, installVars
  <2> QED BY <2>1, <2>2
<1>8. CASE Select(c)
  BY <1>8 DEF Select, TypeOK, fsVars, dbVars, installVars
<1>9. CASE LockNext(c)
  BY <1>1, <1>9 DEF LockNext, TypeOK, dbVars, installVars
<1>10. CASE Delete(c)
  <2>1. PICK o \in queue[c] : Delete(c)!(o)
    BY <1>10 DEF Delete
  <2>2. lock' \in [Objs -> Actors \cup {NoOne}]
    BY <1>1, <2>1, Releasing
  <2>3. fs' \subseteq Objs
    BY <2>1 DEF TypeOK
  <2>4. /\ rows' \subseteq Objs /\ complete' \subseteq Graphs
        /\ edges' \in [Graphs -> SUBSET Objs]
    BY <2>1 DEF DeleteRow, TypeOK
  <2>5. /\ queue' \in [Collectors -> SUBSET Objs]
        /\ cpc' \in [Collectors -> {"idle", "images", "graphs", "stale", "repair", "select",
                                    "next", "delete"}]
    BY <2>1 DEF TypeOK
  <2> QED BY <2>1, <2>2, <2>3, <2>4, <2>5 DEF TypeOK, installVars
<1> QED BY <1>3, <1>4, <1>5, <1>6, <1>7, <1>8, <1>9, <1>10 DEF CollectorStep

(* Types are preserved by every step. *)
LEMMA NextTypes == TypeOK /\ [Next]_vars => TypeOK'
<1> SUFFICES ASSUME TypeOK, [Next]_vars PROVE TypeOK'
  OBVIOUS
<1>1. CASE UNCHANGED vars
  BY <1>1 DEF TypeOK, vars, fsVars, dbVars, installVars, gcVars
<1>2. CASE Age
  BY <1>2 DEF Age, TypeOK, installVars, gcVars
<1> QED BY <1>1, <1>2, InstallTypes, CollectorTypes DEF Next

-----------------------------------------------------------------------------
(* A step that takes nothing but graphs from the store, and no lock from   *)
(* an install that keeps its place and its keys, and adds no lease row,    *)
(* preserves the invariant.                                                *)
LEMMA QuietStep ==
    ASSUME IInv, TypeOK',
           fs \subseteq fs' \cup GraphKeys,
           \A i \in Installs : pc'[i] \in {"verify", "insert"} =>
               pc'[i] = pc[i] /\ keys'[i] = keys[i],
           \A i \in Installs : pc'[i] \in {"verify", "insert"} =>
               \A o \in keys[i] : lock[o] = i => lock'[o] = i,
           lease' \subseteq lease,
           expired \subseteq expired'
    PROVE  IInv'
<1>1. LocksHeld'
  BY DEF IInv, LocksHeld
<1>2. VerifiedPresent'
  BY DEF IInv, VerifiedPresent
<1>3. LeasedInputsPresent'
  BY DEF IInv, LeasedInputsPresent
<1> QED BY <1>1, <1>2, <1>3 DEF IInv

(* An install that leaves its session disturbs nobody else. *)
LEMMA LeaveQuiet ==
    ASSUME IInv, TypeOK', NEW i \in Installs,
           NEW l \in {"done", "failed", "clear", "fetch"}, Leave(i, l),
           fs' = fs, expired' = expired
    PROVE  IInv'
<1>1. TypeOK
  BY DEF IInv
<1>2. /\ \A j \in Installs : j # i => pc'[j] = pc[j] /\ keys'[j] = keys[j]
      /\ pc'[i] = l
      /\ \A o \in Objs : lock[o] # i => lock'[o] = lock[o]
      /\ lease' \subseteq lease
  BY <1>1, LeaveTypes DEF TypeOK
<1>3. \A j \in Installs : keys[j] \subseteq Objs
  BY <1>1 DEF TypeOK
<1> QED BY <1>2, <1>3, QuietStep

(* Every step of an install preserves the invariant. *)
LEMMA InstallInv ==
    ASSUME IInv, NEW i \in Installs, InstallStep(i)
    PROVE  IInv'
<1>1. TypeOK /\ TypeOK'
  BY InstallTypes DEF IInv
<1>2. i \in Actors /\ (\A j \in Installs : keys[j] \subseteq Objs /\ j # NoOne)
  BY <1>1, ConfigAssumption DEF TypeOK, Actors
<1>3. ASSUME NEW l \in {"done", "failed", "clear", "fetch"}, Leave(i, l),
             fs' = fs, expired' = expired
      PROVE  IInv'
  BY <1>1, <1>3, LeaveQuiet
<1>4. ASSUME NEW l \in {"start", "fetch", "check", "batch", "lock", "publish", "record",
                        "gtx", "register", "setref", "clear"},
             Goto(i, l), keys' \in [Installs -> SUBSET Objs],
             \A j \in Installs : j # i => keys'[j] = keys[j],
             lock' = lock, fs \subseteq fs' \cup GraphKeys,
             lease' = lease, expired \subseteq expired'
      PROVE  IInv'
  <2>1. /\ pc'[i] = l
        /\ \A j \in Installs : j # i => pc'[j] = pc[j]
    BY <1>1, <1>4 DEF TypeOK, Goto
  <2> QED BY <1>1, <1>4, <2>1, QuietStep
<1>5. CASE Refresh(i)
  <2>1. CASE ProtectionCurrent(i)
    BY <1>3, <1>5, <2>1 DEF Refresh, Succeed
  <2>2. CASE ~ProtectionCurrent(i)
    BY <1>1, <1>4, <1>5, <2>2 DEF Refresh, TypeOK
  <2> QED BY <2>1, <2>2
<1>6. CASE Clear(i)
  <2>1. Graph(GraphOf[i]) \in GraphKeys
    BY ConfigAssumption, KeysAreObjects
  <2> QED BY <1>1, <1>4, <1>6, <2>1 DEF Clear, TypeOK, dbVars
<1>7. CASE Resolve(i)
  BY <1>1, <1>4, <1>7 DEF Resolve, TypeOK, fsVars, dbVars
<1>8. CASE Open(i)
  BY <1>1, <1>4, <1>8 DEF Open, TypeOK, fsVars, dbVars
<1>9. CASE Check(i)
  <2>1. CASE keys[i] \subseteq Published
    BY <1>1, <1>4, <1>9, <2>1 DEF Check, TypeOK
  <2>2. CASE ~(keys[i] \subseteq Published)
    BY <1>3, <1>9, <2>2 DEF Check, Missing
  <2> QED BY <2>1, <2>2
<1>10. CASE Batch(i)
  BY <1>1, <1>4, <1>10 DEF Batch, TypeOK, fsVars
<1>11. CASE AcquireLocks(i)
  \* only free locks are taken, so nobody else loses one
  <2>1. /\ \A j \in Installs : j # i => pc'[j] = pc[j]
        /\ pc'[i] = "verify"
        /\ fs' = fs /\ keys' = keys /\ lease' = lease /\ expired' = expired
    BY <1>1, <1>11 DEF AcquireLocks, TypeOK, Goto, dbVars
  <2>2. \A o \in Objs : lock[o] # NoOne => lock'[o] = lock[o]
    BY <1>11 DEF AcquireLocks
  <2>3. \A o \in keys[i] : lock'[o] = i
    BY <1>2, <1>11 DEF AcquireLocks
  <2>4. LocksHeld'
    BY <1>2, <2>1, <2>2, <2>3 DEF IInv, LocksHeld
  <2>5. VerifiedPresent' /\ LeasedInputsPresent'
    BY <2>1 DEF IInv, VerifiedPresent, LeasedInputsPresent
  <2> QED BY <1>1, <2>4, <2>5 DEF IInv
<1>12. CASE Verify(i)
  <2>1. CASE keys[i] \subseteq Published
    <3>1. /\ \A j \in Installs : j # i => pc'[j] = pc[j]
          /\ pc[i] = "verify"
          /\ fs' = fs /\ keys' = keys /\ lock' = lock /\ lease' = lease /\ expired' = expired
      BY <1>1, <1>12, <2>1 DEF Verify, TypeOK, Goto
    <3>2. \A o \in keys[i] : o \in fs
      BY <2>1 DEF Published
    <3>3. LocksHeld'
      BY <3>1 DEF IInv, LocksHeld
    <3>4. VerifiedPresent'
      BY <3>1, <3>2 DEF IInv, VerifiedPresent
    <3>5. LeasedInputsPresent'
      BY <3>1 DEF IInv, LeasedInputsPresent
    <3> QED BY <1>1, <3>3, <3>4, <3>5 DEF IInv
  <2>2. CASE ~(keys[i] \subseteq Published)
    BY <1>3, <1>12, <2>2 DEF Verify, Missing
  <2> QED BY <2>1, <2>2
<1>13. CASE Insert(i)
  \* the new rows name what was verified
  <2>1. /\ \A j \in Installs : j # i => pc'[j] = pc[j]
        /\ pc[i] = "insert" /\ pc'[i] \in {"register", "record", "publish"}
        /\ fs' = fs /\ keys' = keys /\ expired' = expired
        /\ lease' = lease \cup ({i} \X keys[i])
    BY <1>1, <1>13 DEF Insert, TypeOK, Goto
  <2>2. \A o \in Objs : lock[o] # i => lock'[o] = lock[o]
    BY <1>1, <1>2, <1>13, Releasing DEF Insert
  <2>3. LocksHeld'
    BY <1>2, <2>1, <2>2 DEF IInv, LocksHeld
  <2>4. VerifiedPresent'
    BY <2>1 DEF IInv, VerifiedPresent
  <2>5. LeasedInputsPresent'
    <3>1. ASSUME NEW r \in {i} \X keys[i] PROVE r[2] \in GraphKeys \/ r[2] \in fs
      BY <2>1, <3>1 DEF IInv, VerifiedPresent
    <3> QED BY <2>1, <3>1 DEF IInv, LeasedInputsPresent
  <2> QED BY <1>1, <2>3, <2>4, <2>5 DEF IInv
<1>14. CASE Publish(i)
  <2>1. CASE Refused(i) /\ UNCHANGED <<fs, fresh, young, installed>>
    BY <1>3, <1>14, <2>1 DEF Publish, Refused
  <2>2. CASE ~(Refused(i) /\ UNCHANGED <<fs, fresh, young, installed>>)
    <3>1. /\ Goto(i, "record") /\ fs \subseteq fs'
          /\ lock' = lock /\ lease' = lease /\ keys' = keys /\ expired' = expired
      BY <1>14, <2>2 DEF Publish, Appear
    <3> QED BY <1>1, <1>4, <3>1 DEF TypeOK
  <2> QED BY <2>1, <2>2
<1>15. CASE Record(i)
  <2>1. CASE Missing(i)
    BY <1>3, <1>15, <2>1 DEF Record, Missing
  <2>2. CASE ~Missing(i)
    BY <1>1, <1>4, <1>15, <2>2 DEF Record, Extend, TypeOK
  <2> QED BY <2>1, <2>2
<1>16. CASE RecordTx(i)
  <2>1. CASE ~(Inventory(GraphOf[i]) \subseteq rows)
    BY <1>3, <1>16, <2>1 DEF RecordTx, Refused
  <2>2. CASE Inventory(GraphOf[i]) \subseteq rows
    BY <1>1, <1>4, <1>16, <2>2 DEF RecordTx, Extend, TypeOK
  <2> QED BY <2>1, <2>2
<1>17. CASE Register(i)
  <2>1. CASE ProtectionCurrent(i)
    BY <1>3, <1>17, <2>1 DEF Register, Succeed
  <2>2. CASE ~ProtectionCurrent(i)
    BY <1>1, <1>4, <1>17, <2>2 DEF Register, TypeOK
  <2> QED BY <2>1, <2>2
<1>18. CASE SetRef(i)
  BY <1>3, <1>18 DEF SetRef, Succeed, Missing, Refused
<1>19. CASE Crash(i)
  <2>1. /\ \A j \in Installs : j # i => pc'[j] = pc[j]
        /\ pc'[i] = "crashed"
        /\ fs' = fs /\ keys' = keys /\ lease' = lease /\ expired' = expired
    BY <1>1, <1>19 DEF Crash, TypeOK, Goto, dbVars
  <2>2. \A o \in Objs : lock[o] # i => lock'[o] = lock[o]
    BY <1>1, <1>2, <1>19, Releasing DEF Crash
  <2> QED BY <1>1, <1>2, <2>1, <2>2, QuietStep
<1>20. CASE Expire(i)
  <2>1. /\ fs' = fs /\ keys' = keys /\ lease' = lease /\ pc' = pc /\ lock' = lock
        /\ expired \subseteq expired'
    BY <1>20 DEF Expire, fsVars, installVars
  <2> QED BY <1>1, <2>1, QuietStep
<1>21. ASSUME NEW o \in Objs, Fetch(i, o) PROVE IInv'
  <2>1. /\ fs \subseteq fs' /\ lease' = lease /\ pc' = pc /\ lock' = lock
        /\ expired' = expired
        /\ pc[i] = "fetch"
        /\ \A j \in Installs : j # i => keys'[j] = keys[j]
    BY <1>1, <1>21 DEF Fetch, Appear, TypeOK
  <2> QED BY <1>1, <2>1, QuietStep
<1> QED BY <1>5, <1>6, <1>7, <1>8, <1>9, <1>10, <1>11, <1>12, <1>13, <1>14, <1>15,
           <1>16, <1>17, <1>18, <1>19, <1>20, <1>21 DEF InstallStep

(* Every step of a collector preserves the invariant: it takes free locks, *)
(* gives back its own, and unlinks only what it has locked and what no     *)
(* unexpired lease row names.                                              *)
LEMMA CollectorInv ==
    ASSUME IInv, NEW c \in Collectors, CollectorStep(c)
    PROVE  IInv'
<1>1. TypeOK /\ TypeOK'
  BY CollectorTypes DEF IInv
<1>2. /\ c \in Actors /\ c \notin Installs /\ NoOne \notin Installs
      /\ \A j \in Installs : keys[j] \subseteq Objs
  BY <1>1, ConfigAssumption DEF TypeOK, Actors
<1>3. CASE ScanArtifacts(c) \/ ScanImages(c) \/ ScanGraphs(c) \/ FindStale(c) \/ Select(c)
  <2>1. /\ fs' = fs /\ keys' = keys /\ lease' = lease /\ pc' = pc /\ lock' = lock
        /\ expired' = expired
    BY <1>3 DEF ScanArtifacts, ScanImages, ScanGraphs, FindStale, Select,
                fsVars, dbVars, installVars
  <2> QED BY <1>1, <2>1, QuietStep
<1>4. CASE RepairTx(c)
  <2>1. /\ fs' = fs /\ keys' = keys /\ lease' \subseteq lease /\ pc' = pc /\ lock' = lock
        /\ expired' = expired
    BY <1>4 DEF RepairTx, fsVars, dbVars, installVars
  <2> QED BY <1>1, <2>1, QuietStep
<1>5. CASE LockNext(c)
  <2>1. /\ fs' = fs /\ keys' = keys /\ lease' = lease /\ pc' = pc /\ expired' = expired
        /\ \A o \in Objs : lock[o] # NoOne => lock'[o] = lock[o]
    BY <1>1, <1>5 DEF LockNext, TypeOK, dbVars, installVars
  <2> QED BY <1>1, <1>2, <2>1, QuietStep
<1>6. CASE Delete(c)
  <2>1. PICK o \in queue[c] : Delete(c)!(o)
    BY <1>6 DEF Delete
  <2>2. /\ keys' = keys /\ lease' = lease /\ pc' = pc /\ expired' = expired
        /\ fs \subseteq fs' \cup {o} /\ (o \in fs' \/ ~Protected(o) \/ fs' = fs)
        /\ lock[o] = c
    BY <2>1 DEF installVars
  <2>3. \A x \in Objs : lock[x] # c => lock'[x] = lock[x]
    BY <1>1, <1>2, <2>1, Releasing
  <2>4. LocksHeld'
    BY <1>2, <2>2, <2>3 DEF IInv, LocksHeld
  <2>5. VerifiedPresent'
    <3>1. ASSUME NEW j \in Installs, pc[j] = "insert" PROVE o \notin keys[j]
      BY <1>2, <2>2, <3>1 DEF IInv, LocksHeld
    <3> QED BY <2>2, <3>1 DEF IInv, VerifiedPresent
  <2>6. LeasedInputsPresent'
    <3>1. ASSUME NEW r \in lease, r[1] \notin expired, ~Protected(o) PROVE r[2] # o
      <4>1. r = <<r[1], r[2]>> /\ r[1] \in Installs
        BY <1>1, <3>1 DEF TypeOK
      <4> QED BY <3>1, <4>1 DEF Protected, Leased
    <3> QED BY <2>2, <3>1 DEF IInv, LeasedInputsPresent
  <2> QED BY <1>1, <2>4, <2>5, <2>6 DEF IInv
<1> QED BY <1>3, <1>4, <1>5, <1>6 DEF CollectorStep

(* The invariant is inductive. *)
LEMMA NextIInv == IInv /\ [Next]_vars => IInv'
<1> SUFFICES ASSUME IInv, [Next]_vars PROVE IInv'
  OBVIOUS
<1>1. TypeOK'
  BY NextTypes DEF IInv
<1>2. CASE UNCHANGED vars \/ Age
  <2>1. /\ fs' = fs /\ keys' = keys /\ lease' = lease /\ pc' = pc /\ lock' = lock
        /\ expired' = expired
    BY <1>2 DEF Age, vars, fsVars, dbVars, installVars
  <2> QED BY <1>1, <2>1, QuietStep
<1> QED BY <1>2, InstallInv, CollectorInv DEF Next

-----------------------------------------------------------------------------
(* The inductive invariant holds in every reachable state. *)
THEOREM Invariance == Spec => []IInv
  BY InitIInv, NextIInv, PTL DEF Spec

(* Every variable keeps its type. *)
THEOREM TypeCorrect == Spec => []TypeOK
<1>1. IInv => TypeOK
  BY DEF IInv
<1> QED BY <1>1, Invariance, PTL

(* "...so a concurrent `bpm gc` cannot reclaim them mid-install", for any  *)
(* number of installs and collectors: what an unexpired lease row names,   *)
(* other than a graph, stays in the store.                                 *)
THEOREM LeasesHonoured == Spec => []LeasedInputsPresent
<1>1. IInv => LeasedInputsPresent
  BY DEF IInv
<1> QED BY <1>1, Invariance, PTL

-----------------------------------------------------------------------------
(***************************************************************************)
(* The graphs that projects were installed from.                           *)
(*                                                                         *)
(* Two installs of one graph can take it from each other (a failed refresh *)
(* removes the volume without its lock), and so can two collectors: one    *)
(* selects an old volume, the other repairs an index that still has the    *)
(* row of its predecessor, and drops the reference of the new one.  Hence  *)
(* OneEach.  What remains is one collector and any number of installs.     *)
(***************************************************************************)
(* One collector, and for every install its own project and graph.  Graphs *)
(* may share inputs, and projects may share the graphs they start from.    *)
OneEach ==
    /\ \A i, j \in Installs : i # j => ProjectOf[i] # ProjectOf[j] /\ GraphOf[i] # GraphOf[j]
    /\ \A c, d \in Collectors : c = d

(* The rows of a complete graph are those of its inventory, and what is    *)
(* complete or referenced has a row.                                       *)
IndexConsistent ==
    /\ \A g \in complete : Graph(g) \in rows /\ edges[g] = Inventory(g)
    /\ \A p \in Projects : ref[p] # NoGraph => Graph(ref[p]) \in rows

(* Between its loops a collector has nothing selected, and before it has   *)
(* walked the graphs it has observed none.                                 *)
CollectorShape ==
    \A c \in Collectors :
        /\ cpc[c] \notin {"next", "delete"} => queue[c] = {}
        /\ cpc[c] \in {"images", "graphs"} => obs[c] \cap GraphKeys = {}

(* record_graph found i's volume published, and i's session goes on. *)
Recorded(i) ==
    \/ pc[i] \in {"gtx", "register", "setref"}
    \/ pc[i] \in {"lock", "verify", "insert"} /\ guard[i] # {}

(* i builds its volume or has ended: it will not decide again. *)
Settled(i) == mode[i] = "build" /\ pc[i] \notin {"start", "fetch", "clear"}

(* What an install's place says about its session, ... *)
InstallShape(i) ==
    /\ pc[i] = "setref" => reg[ProjectOf[i]] = GraphOf[i]
    /\ pc[i] \in {"start", "fetch", "clear"} => mode[i] = "build"
    /\ pc[i] \in {"start", "fetch", "clear", "check", "batch"} => guard[i] = {}
    /\ pc[i] = "publish" => mode[i] # "refresh"
    /\ pc[i] \in {"check", "batch"} => mode[i] # "reuse" /\ keys[i] = LeaseKeys(GraphOf[i])
    /\ pc[i] \in {"lock", "verify", "insert"} =>
          /\ keys[i] \subseteq LeaseKeys(GraphOf[i]) \cup {Graph(GraphOf[i])}
          /\ mode[i] = "reuse" /\ guard[i] = {} => Graph(GraphOf[i]) \in keys[i]
    /\ i \in expired => pc[i] = "crashed"

(* ... about the view of its project, ... *)
ViewKnown(i) ==
    /\ ProjectOf[i] \in Copied \/ mode[i] = "refresh" \/ pc[i] = "record" \/ Recorded(i)
       => installed[ProjectOf[i]] \in {NoGraph, GraphOf[i]}
    /\ (pc[i] = "record" \/ Recorded(i)) /\ mode[i] = "build" => installed[ProjectOf[i]] = NoGraph

(* ... and about the age of what it builds from. *)
BuildYoung(i) ==
    mode[i] = "build" /\ pc[i] \in {"lock", "verify", "insert", "publish", "record", "gtx"}
    => LeaseKeys(GraphOf[i]) \subseteq young

Local(i) == InstallShape(i) /\ ViewKnown(i) /\ BuildYoung(i)

(* A volume to be reused is there from its verification until the view is  *)
(* replaced: by its lock, then by its lease.                               *)
ReusePresent(i) ==
    mode[i] = "reuse" =>
        /\ pc[i] = "insert" /\ guard[i] = {} => Graph(GraphOf[i]) \in fs
        /\ pc[i] = "publish" => Graph(GraphOf[i]) \in fs /\ <<i, Graph(GraphOf[i])>> \in lease

(* A volume that a repair takes for missing, and that is there, was built  *)
(* since: from inputs leased and touched, by an install that is past that. *)
StaleGraphs ==
    \A c \in Collectors, g \in Graphs :
        cpc[c] = "repair" /\ Graph(g) \in staleRows[c] /\ Graph(g) \in fs =>
            /\ LeaseKeys(g) \subseteq young
            /\ \A i \in Installs : GraphOf[i] = g => Settled(i)

(* A recorded volume that is referenced, or that a repair will reference   *)
(* because it has observed it, is in the store.                            *)
RecordedPresent(i) ==
    Recorded(i) =>
        /\ ref[ProjectOf[i]] = GraphOf[i] => Graph(GraphOf[i]) \in fs
        /\ \A c \in Collectors :
              cpc[c] \in {"stale", "repair"} /\ Graph(GraphOf[i]) \in obs[c]
              => Graph(GraphOf[i]) \in fs

(* No collector is about to delete g or its inputs for want of a           *)
(* reference, and the next repair will find g.                             *)
Spared(g) ==
    \A c \in Collectors :
        /\ Graph(g) \notin queue[c]
        /\ queue[c] \cap LeaseKeys(g) = {} \/ GraceZero
        /\ cpc[c] \in {"stale", "repair"} => Graph(g) \in obs[c]
        /\ cpc[c] = "select" =>
              /\ LeaseKeys(g) \subseteq young
              /\ Graph(g) \notin rows
              /\ \A i \in Installs : GraphOf[i] = g => Settled(i)

(* An installed graph is in the store and registered; a repair that raced  *)
(* with its publication may have dropped the reference, until the next.    *)
InstalledKept(p) ==
    installed[p] # NoGraph =>
        /\ Graph(installed[p]) \in fs
        /\ reg[p] = installed[p]
        /\ ref[p] = installed[p] \/ Spared(installed[p])

(* A graph that another project has had from the start: nothing of it ever *)
(* goes missing, so that i never removes it.                               *)
SharedKept(i, p) ==
    p # ProjectOf[i] /\ installed[p] = GraphOf[i] =>
        /\ ref[p] = GraphOf[i]
        /\ LeaseKeys(GraphOf[i]) \subseteq fs
        /\ pc[i] # "clear"
        /\ \A c \in Collectors : cpc[c] = "repair" => Graph(GraphOf[i]) \notin staleRows[c]

(* All of it, with the restriction it holds under. *)
KInv ==
    /\ IInv /\ OneEach /\ IndexConsistent /\ CollectorShape /\ StaleGraphs
    /\ \A i \in Installs : Local(i) /\ ReusePresent(i) /\ RecordedPresent(i)
    /\ \A p \in Projects : InstalledKept(p)
    /\ \A i \in Installs, p \in Projects : SharedKept(i, p)

-----------------------------------------------------------------------------
(* Kinds keep keys apart, and ids of one kind do. *)
LEMMA Kinds ==
    /\ \A g, h : Graph(g) = Graph(h) => g = h
    /\ \A a, g : Image(a) # Graph(g) /\ Artifact(a) # Graph(g) /\ DerivedKey(a) # Graph(g)
    /\ \A a, b : Image(a) # Artifact(b) /\ Image(a) # DerivedKey(b)
    /\ \A a, b : Image(a) = Image(b) => a = b
    /\ \A a, b : Artifact(a) = Artifact(b) => a = b
  BY DEF Graph, Image, Artifact, DerivedKey

(* No key that is leased for the inputs is a graph's. *)
LEMMA InputsNoGraphs ==
    ASSUME NEW g
    PROVE  /\ LeaseKeys(g) \cap GraphKeys = {}
           /\ \A h : Graph(h) \notin LeaseKeys(g) /\ Graph(h) \notin ImageKeys
           /\ \A h : Graph(h) \notin ArtifactKeys /\ Graph(h) \notin DerivedKeys
  BY Kinds DEF LeaseKeys, Inventory, GraphKeys, ImageKeys, ArtifactKeys, DerivedKeys

(* is_published is presence, for graphs and for all inputs of one graph. *)
LEMMA PublishedInputs ==
    ASSUME NEW g \in Graphs
    PROVE  /\ Graph(g) \in Published <=> Graph(g) \in fs
           /\ LeaseKeys(g) \subseteq fs => LeaseKeys(g) \subseteq Published
<1>1. Graph(g) \in Published <=> Graph(g) \in fs
  BY Kinds DEF Published
<1>2. ASSUME LeaseKeys(g) \subseteq fs, NEW o \in LeaseKeys(g) PROVE o \in Published
  <2>1. ASSUME NEW a \in Arts, o = Image(a) PROVE Artifact(a) \in LeaseKeys(g)
    BY <1>2, <2>1, Kinds DEF LeaseKeys, Inventory
  <2> QED BY <1>2, <2>1 DEF Published
<1> QED BY <1>1, <1>2

(* A reference protects the graph and everything it was built from. *)
LEMMA ReferenceProtects ==
    ASSUME TypeOK, IndexConsistent, NEW p \in Projects, ref[p] # NoGraph,
           NEW o \in LeaseKeys(ref[p]) \cup {Graph(ref[p])}
    PROVE  Protected(o)
<1> DEFINE g == ref[p]
<1>1. g \in Graphs /\ Referenced(g) /\ Graph(g) \in rows
  BY DEF TypeOK, Referenced, IndexConsistent
<1>2. CASE o = Graph(g)
  BY <1>1, <1>2 DEF Protected
<1>3. CASE o \in LeaseKeys(g) /\ g \notin complete
  <2>1. o \notin GraphKeys /\ Incomplete(g)
    BY <1>1, <1>3, InputsNoGraphs DEF Incomplete
  <2> QED BY <1>1, <2>1 DEF Protected
<1>4. CASE o \in LeaseKeys(g) /\ g \in complete
  <2>1. edges[g] = Inventory(g)
    BY <1>4 DEF IndexConsistent
  <2>2. GraphArts[g] \subseteq Arts
    BY <1>1, ConfigAssumption
  <2>3. o \in NeededBy(g)
    BY <1>4, <2>1, <2>2 DEF LeaseKeys, NeededBy, Inventory
  <2> QED BY <1>1, <1>4, <2>3 DEF Protected
<1> QED BY <1>2, <1>3, <1>4
-----------------------------------------------------------------------------
(* What a step of i leaves to everybody else. *)
OthersKept(i) ==
    /\ gcVars' = gcVars
    /\ \A j \in Installs : j # i =>
          /\ pc'[j] = pc[j] /\ mode'[j] = mode[j] /\ keys'[j] = keys[j] /\ guard'[j] = guard[j]
          /\ j \in expired' => j \in expired
          /\ \A o \in Objs : <<j, o>> \in lease => <<j, o>> \in lease'
    /\ \A p \in Projects : p # ProjectOf[i] =>
          reg'[p] = reg[p] /\ ref'[p] = ref[p] /\ installed'[p] = installed[p]
    /\ young \subseteq young' /\ rows \subseteq rows'
    /\ \A o \in fs : o = Graph(GraphOf[i]) \/ o \in fs'
    /\ \A h \in Graphs : h # GraphOf[i] =>
          /\ Graph(h) \in fs' => Graph(h) \in fs
          /\ Graph(h) \in rows' => Graph(h) \in rows

(* What it makes of its own graph, ... *)
GraphEffect(i) ==
    LET o == Graph(GraphOf[i]) p == ProjectOf[i] IN
    /\ o \in fs' /\ o \notin fs =>
          pc[i] = "publish" /\ pc'[i] = "record" /\ mode'[i] = mode[i]
    /\ o \in fs /\ o \notin fs' => pc[i] = "clear" /\ installed'[p] = NoGraph
    /\ o \in rows' /\ o \notin rows => pc[i] = "gtx"

(* ... of its project, ... *)
ProjectEffect(i) ==
    LET g == GraphOf[i] p == ProjectOf[i] IN
    /\ ref'[p] = ref[p] \/ (ref'[p] = g /\ installed'[p] = g /\ pc'[i] = "done")
    /\ reg'[p] = reg[p] \/ (reg'[p] = g /\ pc[i] = "register" /\ installed'[p] = installed[p])
    /\ \/ installed'[p] = installed[p] \/ installed'[p] = NoGraph
       \/ installed'[p] = g /\ ref'[p] = g /\ reg'[p] = g /\ Graph(g) \in fs'

(* ... and of its session. *)
SessionEffect(i) ==
    /\ Settled(i) => Settled(i)'
    /\ Recorded(i)' => Recorded(i) \/ Graph(GraphOf[i]) \in fs'
    /\ pc'[i] = "clear" => ~(LeaseKeys(GraphOf[i]) \cup {Graph(GraphOf[i])} \subseteq fs)
    /\ Local(i)' /\ ReusePresent(i)'

(* The effects of an install's way out of its session. *)
LEMMA LeaveEffect ==
    ASSUME TypeOK, NEW i \in Installs,
           NEW l \in {"done", "failed", "clear", "fetch"}, Leave(i, l)
    PROVE  /\ pc'[i] = l /\ mode'[i] = "build" /\ keys'[i] = {} /\ guard'[i] = {}
           /\ \A j \in Installs : j # i =>
                 /\ pc'[j] = pc[j] /\ mode'[j] = mode[j]
                 /\ keys'[j] = keys[j] /\ guard'[j] = guard[j]
                 /\ \A o \in Objs : <<j, o>> \in lease => <<j, o>> \in lease'
  BY DEF Leave, Goto, WithoutLease, TypeOK

(* Every step of an install leaves the others what is theirs. *)
LEMMA InstallOthers ==
    ASSUME TypeOK, NEW i \in Installs, InstallStep(i), InstallShape(i)
    PROVE  OthersKept(i)
<1> DEFINE g == GraphOf[i]
<1>1. g \in Graphs /\ ProjectOf[i] \in Projects
  BY ConfigAssumption
<1>2. /\ LeaseKeys(g) \cap GraphKeys = {} /\ \A h \in Graphs : Graph(h) \in GraphKeys
      /\ \A h \in Graphs : h # g => Graph(h) # Graph(g)
  BY InputsNoGraphs, KeysAreObjects, Kinds
<1> HIDE DEF g
<1>3. ASSUME NEW l \in {"done", "failed", "clear", "fetch"}, Leave(i, l),
             fs' = fs, rows' = rows, young \subseteq young', expired' = expired, gcVars' = gcVars,
             \A p \in Projects : p # ProjectOf[i] =>
                reg'[p] = reg[p] /\ ref'[p] = ref[p] /\ installed'[p] = installed[p]
      PROVE  OthersKept(i)
  BY <1>3, LeaveEffect DEF OthersKept
<1>4. CASE Refresh(i)
  <2>1. CASE ProtectionCurrent(i)
    BY <1>1, <1>3, <1>4, <2>1 DEF Refresh, Succeed, TypeOK
  <2>2. CASE ~ProtectionCurrent(i)
    BY <1>4, <2>2 DEF Refresh, Goto, TypeOK, OthersKept
  <2> QED BY <2>1, <2>2
<1>5. CASE Clear(i)
  BY <1>1, <1>2, <1>5 DEF Clear, Goto, dbVars, TypeOK, OthersKept, g
<1>6. CASE Resolve(i)
  BY <1>6 DEF Resolve, Goto, fsVars, dbVars, TypeOK, OthersKept
<1>7. CASE Open(i)
  BY <1>7 DEF Open, Goto, fsVars, dbVars, TypeOK, OthersKept
<1>8. CASE Check(i)
  <2>1. CASE keys[i] \subseteq Published
    BY <1>8, <2>1 DEF Check, Goto, TypeOK, OthersKept
  <2>2. CASE ~(keys[i] \subseteq Published)
    BY <1>3, <1>8, <2>2 DEF Check, Missing
  <2> QED BY <2>1, <2>2
<1>9. CASE Batch(i)
  <2>1. keys[i] \cap GraphKeys = {}
    BY <1>2, <1>9 DEF Batch, InstallShape, g
  <2> QED BY <1>2, <1>9, <2>1 DEF Batch, Touch, Goto, fsVars, TypeOK, OthersKept, g
<1>10. CASE AcquireLocks(i)
  BY <1>10 DEF AcquireLocks, Goto, dbVars, TypeOK, OthersKept
<1>11. CASE Verify(i)
  <2>1. CASE keys[i] \subseteq Published
    BY <1>11, <2>1 DEF Verify, Goto, TypeOK, OthersKept
  <2>2. CASE ~(keys[i] \subseteq Published)
    BY <1>3, <1>11, <2>2 DEF Verify, Missing
  <2> QED BY <2>1, <2>2
<1>12. CASE Insert(i)
  BY <1>12 DEF Insert, Goto, TypeOK, OthersKept
<1>13. CASE Publish(i)
  <2>1. CASE Refused(i) /\ UNCHANGED <<fs, fresh, young, installed>>
    BY <1>3, <1>13, <2>1 DEF Publish, Refused
  <2>2. CASE ~(Refused(i) /\ UNCHANGED <<fs, fresh, young, installed>>)
    BY <1>1, <1>2, <1>13, <2>2 DEF Publish, Appear, Goto, TypeOK, OthersKept, g
  <2> QED BY <2>1, <2>2
<1>14. CASE Record(i)
  <2>1. CASE Missing(i)
    BY <1>3, <1>14, <2>1 DEF Record, Missing
  <2>2. CASE ~Missing(i)
    BY <1>14, <2>2 DEF Record, Extend, Goto, TypeOK, OthersKept
  <2> QED BY <2>1, <2>2
<1>15. CASE RecordTx(i)
  <2>1. CASE ~(Inventory(g) \subseteq rows)
    BY <1>3, <1>15, <2>1 DEF RecordTx, Refused, g
  <2>2. CASE Inventory(g) \subseteq rows
    BY <1>2, <1>15, <2>2 DEF RecordTx, Extend, Touch, Goto, TypeOK, OthersKept, g
  <2> QED BY <2>1, <2>2
<1>16. CASE Register(i)
  <2>1. CASE ProtectionCurrent(i)
    BY <1>1, <1>3, <1>16, <2>1 DEF Register, Succeed, TypeOK
  <2>2. CASE ~ProtectionCurrent(i)
    BY <1>1, <1>16, <2>2 DEF Register, Goto, TypeOK, OthersKept
  <2> QED BY <2>1, <2>2
<1>17. CASE SetRef(i)
  <2>1. PICK l \in {"done", "fetch", "clear", "failed"} : Leave(i, l)
    BY <1>17 DEF SetRef, Succeed, Missing, Refused
  <2>2. \A p \in Projects : p # ProjectOf[i] => ref'[p] = ref[p] /\ installed'[p] = installed[p]
    BY <1>1, <1>17 DEF SetRef, Succeed, TypeOK
  <2> QED BY <1>3, <1>17, <2>1, <2>2 DEF SetRef
<1>18. CASE Crash(i)
  BY <1>18 DEF Crash, Goto, dbVars, TypeOK, OthersKept
<1>19. CASE Expire(i)
  BY <1>19 DEF Expire, fsVars, installVars, TypeOK, OthersKept
<1>20. ASSUME NEW o \in Objs, Fetch(i, o) PROVE OthersKept(i)
  <2>1. o \notin GraphKeys
    BY <1>2, <1>20 DEF Fetch, g
  <2> QED BY <1>2, <1>20, <2>1 DEF Fetch, Appear, TypeOK, OthersKept, g
<1> QED BY <1>4, <1>5, <1>6, <1>7, <1>8, <1>9, <1>10, <1>11, <1>12, <1>13, <1>14, <1>15,
           <1>16, <1>17, <1>18, <1>19, <1>20 DEF InstallStep

(* Who leaves its session has its own facts right. *)
LEMMA LeaveOwn ==
    ASSUME TypeOK, NEW i \in Installs,
           NEW l \in {"done", "failed", "clear", "fetch"}, Leave(i, l),
           Local(i), expired' = expired, i \notin expired,
           l \in {"clear", "fetch"} => mode[i] = "refresh",
           l = "clear" => ~(LeaseKeys(GraphOf[i]) \cup {Graph(GraphOf[i])} \subseteq fs),
           installed'[ProjectOf[i]] \in {installed[ProjectOf[i]], GraphOf[i]}
    PROVE  SessionEffect(i)
<1>1. pc'[i] = l /\ mode'[i] = "build" /\ keys'[i] = {} /\ guard'[i] = {}
  BY LeaveEffect
<1>2. ~Recorded(i)' /\ (Settled(i) => Settled(i)')
  BY <1>1 DEF Recorded, Settled
<1>3. InstallShape(i)' /\ BuildYoung(i)' /\ ReusePresent(i)'
  BY <1>1 DEF InstallShape, BuildYoung, ReusePresent
<1>4. ViewKnown(i)'
  BY <1>1, <1>2 DEF Local, ViewKnown
<1> QED BY <1>1, <1>2, <1>3, <1>4 DEF SessionEffect, Local

(* Every step of an install preserves what is said of it alone. *)
LEMMA InstallOwn ==
    ASSUME KInv, NEW i \in Installs, InstallStep(i)
    PROVE  GraphEffect(i) /\ ProjectEffect(i) /\ SessionEffect(i)
<1> DEFINE g == GraphOf[i]
           p == ProjectOf[i]
<1>1. /\ TypeOK /\ Local(i) /\ InstallShape(i) /\ ReusePresent(i) /\ RecordedPresent(i)
      /\ g \in Graphs /\ p \in Projects /\ g # NoGraph
  BY ConfigAssumption DEF KInv, IInv, Local
<1>2. LeaseKeys(g) \cap GraphKeys = {} /\ Graph(g) \in GraphKeys /\ Graph(g) \notin LeaseKeys(g)
  BY <1>1, InputsNoGraphs, KeysAreObjects
<1>3. LeaseKeys(g) \cup {Graph(g)} \subseteq fs => LeaseKeys(g) \cup {Graph(g)} \subseteq Published
  BY <1>1, PublishedInputs
<1>4. pc[i] # "crashed" => i \notin expired
  BY <1>1 DEF InstallShape
<1> HIDE DEF g, p
<1>5. ASSUME NEW l \in {"failed", "clear", "fetch"}, Leave(i, l),
             fs' = fs, rows' = rows, ref' = ref, reg' = reg, installed' = installed, expired' = expired,
             pc[i] \notin {"crashed", "start"},
             l \in {"clear", "fetch"} => mode[i] = "refresh",
             l = "clear" => ~(LeaseKeys(g) \cup {Graph(g)} \subseteq fs)
      PROVE  GraphEffect(i) /\ ProjectEffect(i) /\ SessionEffect(i)
  <2>1. SessionEffect(i)
    BY <1>1, <1>4, <1>5, LeaveOwn DEF g
  <2> QED BY <1>5, <2>1 DEF GraphEffect, ProjectEffect
<1>6. ASSUME Leave(i, "done"), fs' = fs, rows' = rows, expired' = expired,
             installed' = [installed EXCEPT ![p] = g],
             ref'[p] = g, reg' = reg, reg[p] = g, Graph(g) \in fs,
             pc[i] # "crashed"
      PROVE  GraphEffect(i) /\ ProjectEffect(i) /\ SessionEffect(i)
  <2>1. installed'[p] = g
    BY <1>1, <1>6 DEF TypeOK
  <2>2. SessionEffect(i)
    BY <1>1, <1>4, <1>6, <2>1, LeaveOwn DEF g, p
  <2>3. pc'[i] = "done"
    BY <1>1, <1>6, LeaveEffect
  <2> QED BY <1>6, <2>1, <2>2, <2>3 DEF GraphEffect, ProjectEffect, g, p
<1>7. CASE Refresh(i)
  <2>1. CASE ProtectionCurrent(i)
    BY <1>6, <1>7, <2>1 DEF Refresh, Succeed, ProtectionCurrent, g, p
  <2>2. CASE ~ProtectionCurrent(i)
    <3>1. /\ pc[i] = "start" /\ pc'[i] = "check" /\ mode'[i] = "refresh" /\ keys'[i] = LeaseKeys(g)
          /\ installed[p] = g \/ p \in Copied
          /\ UNCHANGED <<fs, rows, ref, reg, guard, installed, expired, young>>
      BY <1>1, <1>7, <2>2 DEF Refresh, Goto, TypeOK, g, p
    <3>2. installed[p] \in {g, NoGraph}
      BY <1>1, <3>1 DEF Local, ViewKnown, g, p
    <3>3. Local(i)'
      BY <1>1, <3>1, <3>2 DEF Local, InstallShape, ViewKnown, BuildYoung, Recorded, g, p
    <3> QED BY <3>1, <3>3 DEF GraphEffect, ProjectEffect, SessionEffect, Settled, Recorded, ReusePresent
  <2> QED BY <2>1, <2>2
<1>8. CASE Clear(i)
  <2>1. /\ pc[i] = "clear" /\ pc'[i] = "fetch"
        /\ installed'[p] = NoGraph
        /\ UNCHANGED <<rows, ref, reg, guard, keys, mode, expired, young>>
        /\ Graph(g) \notin fs'
    BY <1>1, <1>8 DEF Clear, Goto, dbVars, TypeOK, g, p
  <2>2. Local(i)'
    BY <1>1, <2>1 DEF Local, InstallShape, ViewKnown, BuildYoung, Recorded, g, p
  <2> QED BY <2>1, <2>2 DEF GraphEffect, ProjectEffect, SessionEffect, Settled, Recorded, ReusePresent, g, p
<1>9. CASE Resolve(i)
  <2>1. /\ pc[i] = "start" /\ pc'[i] = "fetch"
        /\ UNCHANGED <<fs, rows, ref, reg, guard, keys, mode, installed, expired, young>>
    BY <1>1, <1>9 DEF Resolve, Goto, fsVars, dbVars, TypeOK
  <2>2. Local(i)'
    BY <1>1, <2>1 DEF Local, InstallShape, ViewKnown, BuildYoung, Recorded
  <2> QED BY <2>1, <2>2 DEF GraphEffect, ProjectEffect, SessionEffect, Settled, Recorded, ReusePresent
<1>10. CASE Open(i)
  <2>1. /\ pc[i] = "fetch"
        /\ UNCHANGED <<fs, rows, ref, reg, guard, installed, expired, young>>
        /\ \/ pc'[i] = "lock" /\ mode'[i] = "reuse" /\ keys'[i] = {Graph(g)}
           \/ pc'[i] = "check" /\ mode'[i] = mode[i] /\ keys'[i] = LeaseKeys(g)
    BY <1>1, <1>10 DEF Open, Goto, fsVars, dbVars, TypeOK, g
  <2>2. guard[i] = {} /\ mode[i] = "build"
    BY <1>1, <2>1 DEF InstallShape
  <2>3. Local(i)'
    BY <1>1, <2>1, <2>2 DEF Local, InstallShape, ViewKnown, BuildYoung, Recorded, g
  <2> QED BY <2>1, <2>2, <2>3 DEF GraphEffect, ProjectEffect, SessionEffect, Settled, Recorded, ReusePresent
<1>11. CASE Check(i)
  <2>1. CASE keys[i] \subseteq Published
    <3>1. /\ pc[i] = "check" /\ pc'[i] = "batch"
          /\ UNCHANGED <<fs, rows, ref, reg, guard, keys, mode, installed, expired, young>>
      BY <1>1, <1>11, <2>1 DEF Check, Goto, TypeOK
    <3>2. Local(i)'
      BY <1>1, <3>1 DEF Local, InstallShape, ViewKnown, BuildYoung, Recorded
    <3> QED BY <3>1, <3>2 DEF GraphEffect, ProjectEffect, SessionEffect, Settled, Recorded, ReusePresent
  <2>2. CASE ~(keys[i] \subseteq Published)
    <3>1. ~(LeaseKeys(g) \cup {Graph(g)} \subseteq fs)
      BY <1>1, <1>3, <1>11, <2>2 DEF Check, InstallShape, g
    <3> QED BY <1>5, <1>11, <2>2, <3>1 DEF Check, Missing
  <2> QED BY <2>1, <2>2
<1>12. CASE Batch(i)
  <2>1. /\ pc[i] = "batch" /\ pc'[i] = "lock" /\ rows' = rows \cup keys[i] /\ young' = young \cup keys[i]
        /\ UNCHANGED <<fs, ref, reg, guard, keys, mode, installed, expired>>
    BY <1>1, <1>12 DEF Batch, Touch, Goto, fsVars, TypeOK
  <2>2. keys[i] = LeaseKeys(g) /\ mode[i] # "reuse"
    BY <1>1, <2>1 DEF InstallShape, g
  <2>3. Local(i)'
    BY <1>1, <2>1, <2>2 DEF Local, InstallShape, ViewKnown, BuildYoung, Recorded, g
  <2>4. ~Recorded(i)'
    BY <1>1, <2>1 DEF Recorded, InstallShape
  <2> QED BY <1>2, <2>1, <2>2, <2>3, <2>4 DEF GraphEffect, ProjectEffect, SessionEffect, Settled, ReusePresent, g
<1>13. CASE AcquireLocks(i)
  <2>1. /\ pc[i] = "lock" /\ pc'[i] = "verify"
        /\ UNCHANGED <<fs, rows, ref, reg, guard, keys, mode, installed, expired, young>>
    BY <1>1, <1>13 DEF AcquireLocks, Goto, dbVars, TypeOK
  <2>2. Local(i)'
    BY <1>1, <2>1 DEF Local, InstallShape, ViewKnown, BuildYoung, Recorded
  <2> QED BY <2>1, <2>2 DEF GraphEffect, ProjectEffect, SessionEffect, Settled, Recorded, ReusePresent
<1>14. CASE Verify(i)
  <2>1. CASE keys[i] \subseteq Published
    <3>1. /\ pc[i] = "verify" /\ pc'[i] = "insert"
          /\ UNCHANGED <<fs, rows, ref, reg, guard, keys, mode, installed, expired, young>>
      BY <1>1, <1>14, <2>1 DEF Verify, Goto, TypeOK
    <3>2. Local(i)'
      BY <1>1, <3>1 DEF Local, InstallShape, ViewKnown, BuildYoung, Recorded
    <3>3. ReusePresent(i)'
      BY <1>1, <2>1, <3>1 DEF ReusePresent, InstallShape, Published
    <3> QED BY <3>1, <3>2, <3>3 DEF GraphEffect, ProjectEffect, SessionEffect, Settled, Recorded
  <2>2. CASE ~(keys[i] \subseteq Published)
    <3>1. ~(LeaseKeys(g) \cup {Graph(g)} \subseteq fs)
      BY <1>1, <1>3, <1>14, <2>2 DEF Verify, InstallShape, g
    <3> QED BY <1>5, <1>14, <2>2, <3>1 DEF Verify, Missing
  <2> QED BY <2>1, <2>2
<1>15. CASE Insert(i)
  <2>1. /\ pc[i] = "insert"
        /\ \/ guard[i] # {} /\ pc'[i] = "register"
           \/ guard[i] = {} /\ mode[i] = "refresh" /\ pc'[i] = "record"
           \/ guard[i] = {} /\ mode[i] # "refresh" /\ pc'[i] = "publish"
        /\ lease' = lease \cup ({i} \X keys[i])
        /\ UNCHANGED <<fs, rows, ref, reg, keys, mode, installed, expired, young>>
    BY <1>1, <1>15 DEF Insert, Goto, TypeOK
  <2>2. Local(i)'
    BY <1>1, <2>1 DEF Local, InstallShape, ViewKnown, BuildYoung, Recorded
  <2>3. ReusePresent(i)'
    BY <1>1, <2>1 DEF ReusePresent, InstallShape
  <2> QED BY <2>1, <2>2, <2>3 DEF GraphEffect, ProjectEffect, SessionEffect, Settled, Recorded
<1>16. CASE Publish(i)
  <2>1. CASE Refused(i) /\ UNCHANGED <<fs, fresh, young, installed>>
    BY <1>5, <1>16, <2>1 DEF Publish, Refused
  <2>2. CASE ~(Refused(i) /\ UNCHANGED <<fs, fresh, young, installed>>)
    <3>1. /\ pc[i] = "publish" /\ pc'[i] = "record" /\ installed'[p] = NoGraph /\ Graph(g) \in fs'
          /\ fs \subseteq fs' /\ young \subseteq young'
          /\ UNCHANGED <<rows, ref, reg, guard, keys, mode, expired>>
      BY <1>1, <1>16, <2>2 DEF Publish, Appear, Goto, TypeOK, g, p
    <3>2. Local(i)'
      BY <1>1, <3>1 DEF Local, InstallShape, ViewKnown, BuildYoung, Recorded, p
    <3> QED BY <3>1, <3>2 DEF GraphEffect, ProjectEffect, SessionEffect, Settled, Recorded, ReusePresent, g, p
  <2> QED BY <2>1, <2>2
<1>17. CASE Record(i)
  <2>1. CASE Graph(g) \notin fs \/ (g \notin complete /\ ~(Inventory(g) \subseteq fs))
    <3>1. ~(LeaseKeys(g) \cup {Graph(g)} \subseteq fs)
      BY <2>1 DEF LeaseKeys
    <3> QED BY <1>5, <1>17, <2>1, <3>1 DEF Record, Missing, g
  <2>2. CASE ~(Graph(g) \notin fs \/ (g \notin complete /\ ~(Inventory(g) \subseteq fs)))
    <3>1. /\ pc[i] = "record" /\ pc'[i] \in {"gtx", "register", "lock"}
          /\ pc'[i] = "lock" => keys'[i] = ExtendKeys(g) \ guard[i]
          /\ Graph(g) \in fs
          /\ UNCHANGED <<fs, rows, ref, reg, guard, mode, installed, expired, young>>
      BY <1>1, <1>17, <2>2 DEF Record, Extend, Goto, TypeOK, g
    <3>2. Local(i)'
      BY <1>1, <3>1 DEF Local, InstallShape, ViewKnown, BuildYoung, Recorded, ExtendKeys, LeaseKeys, Inventory, g
    <3> QED BY <3>1, <3>2 DEF GraphEffect, ProjectEffect, SessionEffect, Settled, ReusePresent, g
  <2> QED BY <2>1, <2>2
<1>18. CASE RecordTx(i)
  <2>1. CASE ~(Inventory(g) \subseteq rows)
    BY <1>5, <1>18, <2>1 DEF RecordTx, Refused, g
  <2>2. CASE Inventory(g) \subseteq rows
    <3>1. /\ pc[i] = "gtx" /\ pc'[i] \in {"register", "lock"}
          /\ pc'[i] = "lock" => keys'[i] = ExtendKeys(g) \ guard[i]
          /\ young \subseteq young'
          /\ UNCHANGED <<fs, ref, reg, guard, mode, installed, expired>>
      BY <1>1, <1>18, <2>2 DEF RecordTx, Extend, Touch, Goto, TypeOK, g
    <3>2. Local(i)'
      BY <1>1, <3>1 DEF Local, InstallShape, ViewKnown, BuildYoung, Recorded, ExtendKeys, LeaseKeys, Inventory, g
    <3> QED BY <3>1, <3>2 DEF GraphEffect, ProjectEffect, SessionEffect, Settled, Recorded, ReusePresent, g
  <2> QED BY <2>1, <2>2
<1>19. CASE Register(i)
  <2>1. CASE ProtectionCurrent(i)
    <3>1. Graph(g) \in fs /\ ref[p] = g /\ reg[p] = g
      BY <1>1, <1>19, <2>1 DEF Register, RecordedPresent, Recorded, ProtectionCurrent, g, p
    <3> QED BY <1>6, <1>19, <2>1, <3>1 DEF Register, Succeed, g, p
  <2>2. CASE ~ProtectionCurrent(i)
    <3>1. /\ pc[i] = "register" /\ pc'[i] = "setref" /\ reg'[p] = g
          /\ UNCHANGED <<fs, rows, ref, guard, keys, mode, installed, expired, young>>
      BY <1>1, <1>19, <2>2 DEF Register, Goto, TypeOK, g, p
    <3>2. Local(i)'
      BY <1>1, <3>1 DEF Local, InstallShape, ViewKnown, BuildYoung, Recorded, g, p
    <3> QED BY <3>1, <3>2 DEF GraphEffect, ProjectEffect, SessionEffect, Settled, Recorded, ReusePresent, g, p
  <2> QED BY <2>1, <2>2
<1>20. CASE SetRef(i)
  <2>1. CASE Graph(g) \in fs \cap rows
    <3>1. reg[p] = g /\ ref'[p] = g
      BY <1>1, <1>20, <2>1 DEF SetRef, InstallShape, TypeOK, g, p
    <3> QED BY <1>6, <1>20, <2>1, <3>1 DEF SetRef, Succeed, g, p
  <2>2. CASE Graph(g) \notin fs
    BY <1>5, <1>20, <2>2 DEF SetRef, Missing, g
  <2>3. CASE Graph(g) \in fs \ rows
    BY <1>5, <1>20, <2>3 DEF SetRef, Refused, g
  <2> QED BY <2>1, <2>2, <2>3
<1>21. CASE Crash(i)
  <2>1. /\ pc[i] \notin Ended \cup {"start"} /\ pc'[i] = "crashed"
        /\ UNCHANGED <<fs, rows, ref, reg, keys, mode, installed, expired, young>>
    BY <1>1, <1>21 DEF Crash, Goto, dbVars, TypeOK
  <2>2. Local(i)'
    BY <1>1, <2>1 DEF Local, InstallShape, ViewKnown, BuildYoung, Recorded
  <2> QED BY <2>1, <2>2 DEF GraphEffect, ProjectEffect, SessionEffect, Settled, Recorded, ReusePresent
<1>22. CASE Expire(i)
  <2>1. /\ pc[i] = "crashed" /\ pc' = pc
        /\ UNCHANGED <<fs, rows, ref, reg, keys, guard, mode, installed, young>>
    BY <1>22 DEF Expire, fsVars, installVars
  <2>2. Local(i)'
    BY <1>1, <2>1 DEF Local, InstallShape, ViewKnown, BuildYoung, Recorded
  <2> QED BY <2>1, <2>2 DEF GraphEffect, ProjectEffect, SessionEffect, Settled, Recorded, ReusePresent
<1>23. ASSUME NEW o \in Objs, Fetch(i, o) PROVE GraphEffect(i) /\ ProjectEffect(i) /\ SessionEffect(i)
  <2>1. /\ pc[i] = "fetch" /\ pc' = pc /\ young \subseteq young' /\ fs \subseteq fs' /\ fs' \subseteq fs \cup {o}
        /\ o \in LeaseKeys(g)
        /\ UNCHANGED <<rows, ref, reg, guard, mode, installed, expired>>
    BY <1>1, <1>23 DEF Fetch, Appear, TypeOK, g
  <2>2. Local(i)'
    BY <1>1, <2>1 DEF Local, InstallShape, ViewKnown, BuildYoung, Recorded
  <2> QED BY <1>2, <2>1, <2>2 DEF GraphEffect, ProjectEffect, SessionEffect, Settled, Recorded, ReusePresent, g
<1> QED BY <1>7, <1>8, <1>9, <1>10, <1>11, <1>12, <1>13, <1>14, <1>15,
           <1>16, <1>17, <1>18, <1>19, <1>20, <1>21, <1>22, <1>23 DEF InstallStep

(* The index stays consistent while installs write it. *)
LEMMA InstallIndex ==
    ASSUME KInv, NEW i \in Installs, InstallStep(i)
    PROVE  IndexConsistent'
<1> DEFINE g == GraphOf[i]
<1>1. TypeOK /\ IndexConsistent /\ OthersKept(i) /\ g \in Graphs /\ ProjectOf[i] \in Projects
  BY InstallOthers, ConfigAssumption DEF KInv, IInv, Local
<1>2. CASE RecordTx(i)
  <2>1. ref' = ref /\ rows \subseteq rows'
    BY <1>1, <1>2 DEF RecordTx, OthersKept
  <2>2. \/ complete' = complete /\ edges' = edges
        \/ /\ complete' = complete \cup {g} /\ Graph(g) \in rows'
           /\ edges' = [edges EXCEPT ![g] = Inventory(g)]
    BY <1>2 DEF RecordTx
  <2>3. ASSUME NEW h \in complete' PROVE Graph(h) \in rows' /\ edges'[h] = Inventory(h)
    <3>1. edges \in [Graphs -> SUBSET Objs] /\ complete \subseteq Graphs
      BY <1>1 DEF TypeOK
    <3> HIDE DEF g
    <3>2. CASE complete' = complete /\ edges' = edges
      BY <1>1, <2>1, <3>2 DEF IndexConsistent
    <3>3. CASE /\ complete' = complete \cup {g} /\ Graph(g) \in rows'
               /\ edges' = [edges EXCEPT ![g] = Inventory(g)]
      BY <1>1, <2>1, <3>1, <3>3 DEF IndexConsistent
    <3> QED BY <2>2, <3>2, <3>3
  <2> QED BY <1>1, <2>1, <2>3 DEF IndexConsistent
<1>3. CASE SetRef(i)
  <2>1. /\ UNCHANGED <<rows, complete, edges>>
        /\ ref' = ref \/ (Graph(g) \in rows /\ ref' = [ref EXCEPT ![ProjectOf[i]] = g])
    BY <1>3 DEF SetRef
  <2> QED BY <1>1, <2>1 DEF IndexConsistent, TypeOK
<1>4. CASE ~RecordTx(i) /\ ~SetRef(i)
  <2>1. UNCHANGED <<complete, edges, ref>>
    BY <1>4 DEF InstallStep, Refresh, Clear, Resolve, Open, Check, Batch, AcquireLocks, Verify, Insert,
                Publish, Record, Register, Crash, Expire, Fetch, dbVars
  <2> QED BY <1>1, <2>1 DEF IndexConsistent, OthersKept
<1> QED BY <1>2, <1>3, <1>4

(* Every step of an install preserves the invariant. *)
LEMMA InstallKept ==
    ASSUME KInv, NEW i \in Installs, InstallStep(i)
    PROVE  KInv'
<1> DEFINE g == GraphOf[i]
           q == ProjectOf[i]
<1>1. /\ TypeOK /\ OneEach /\ OthersKept(i) /\ GraphEffect(i) /\ ProjectEffect(i) /\ SessionEffect(i)
      /\ g \in Graphs /\ q \in Projects
      /\ \A j \in Installs : GraphOf[j] \in Graphs /\ GraphOf[j] # NoGraph /\ ProjectOf[j] \in Projects
  BY InstallOthers, InstallOwn, ConfigAssumption DEF KInv, IInv, Local
<1>2. IInv' /\ OneEach' /\ IndexConsistent'
  BY <1>1, InstallInv, InstallIndex DEF KInv, OneEach
<1>3. UNCHANGED <<cpc, obs, staleRows, queue>>
  BY <1>1 DEF OthersKept, gcVars
<1>4. CollectorShape'
  BY <1>3 DEF KInv, CollectorShape
<1>5. ASSUME NEW j \in Installs, j # i
      PROVE  /\ ProjectOf[j] # q /\ GraphOf[j] # g /\ ProjectOf[j] \in Projects
             /\ pc'[j] = pc[j] /\ mode'[j] = mode[j] /\ keys'[j] = keys[j] /\ guard'[j] = guard[j]
             /\ j \in expired' => j \in expired
             /\ reg'[ProjectOf[j]] = reg[ProjectOf[j]] /\ ref'[ProjectOf[j]] = ref[ProjectOf[j]]
             /\ installed'[ProjectOf[j]] = installed[ProjectOf[j]]
             /\ young \subseteq young'
             /\ Graph(GraphOf[j]) \in fs => Graph(GraphOf[j]) \in fs'
             /\ <<j, Graph(GraphOf[j])>> \in lease => <<j, Graph(GraphOf[j])>> \in lease'
             /\ (Settled(j) => Settled(j)') /\ (Recorded(j)' => Recorded(j))
             /\ Local(j) /\ ReusePresent(j) /\ RecordedPresent(j)
  <2>1. ProjectOf[j] # q /\ GraphOf[j] # g /\ ProjectOf[j] \in Projects /\ GraphOf[j] \in Graphs
    BY <1>1, <1>5 DEF OneEach
  <2>2. Graph(GraphOf[j]) # Graph(g) /\ Graph(GraphOf[j]) \in Objs
    BY <2>1, Kinds, KeysAreObjects
  <2>3. pc'[j] = pc[j] /\ mode'[j] = mode[j] /\ keys'[j] = keys[j] /\ guard'[j] = guard[j]
    BY <1>1, <1>5 DEF OthersKept
  <2>4. (Settled(j) => Settled(j)') /\ (Recorded(j)' => Recorded(j))
    BY <2>3 DEF Settled, Recorded
  <2> QED BY <1>1, <1>5, <2>1, <2>2, <2>3, <2>4 DEF OthersKept, KInv
<1>6. \A j \in Installs : Local(j)'
  <2>1. ASSUME NEW j \in Installs, j # i PROVE Local(j)'
    BY <1>5, <2>1 DEF Local, InstallShape, ViewKnown, BuildYoung, Recorded
  <2> QED BY <1>1, <2>1 DEF SessionEffect
<1>7. \A j \in Installs : ReusePresent(j)'
  <2>1. ASSUME NEW j \in Installs, j # i PROVE ReusePresent(j)'
    BY <1>5, <2>1 DEF ReusePresent
  <2> QED BY <1>1, <2>1 DEF SessionEffect
<1>8. Settled(i) => Settled(i)'
  BY <1>1 DEF SessionEffect
<1>9. StaleGraphs'
  <2> SUFFICES ASSUME NEW c \in Collectors, NEW h \in Graphs,
                      cpc[c] = "repair", Graph(h) \in staleRows[c], Graph(h) \in fs'
               PROVE  /\ LeaseKeys(h) \subseteq young'
                      /\ \A j \in Installs : GraphOf[j] = h => Settled(j)'
    BY <1>3 DEF StaleGraphs
  <2>1. young \subseteq young'
    BY <1>1 DEF OthersKept
  <2>2. CASE Graph(h) \in fs
    <3>1. LeaseKeys(h) \subseteq young /\ \A j \in Installs : GraphOf[j] = h => Settled(j)
      BY <2>2 DEF KInv, StaleGraphs
    <3> QED BY <1>5, <1>8, <2>1, <3>1
  <2>3. CASE Graph(h) \notin fs
    <3>1. h = g
      BY <1>1, <2>3 DEF OthersKept
    <3>2. pc[i] = "publish" /\ pc'[i] = "record" /\ mode'[i] = mode[i]
      BY <1>1, <2>3, <3>1 DEF GraphEffect
    <3>3. mode[i] = "build"
      BY <1>1, <2>3, <3>1, <3>2 DEF KInv, Local, InstallShape, ReusePresent, TypeOK
    <3>4. LeaseKeys(h) \subseteq young /\ Settled(i)'
      BY <3>1, <3>2, <3>3 DEF KInv, Local, BuildYoung, Settled
    <3> QED BY <1>5, <2>1, <3>1, <3>4
  <2> QED BY <2>2, <2>3
<1>10. \A j \in Installs : RecordedPresent(j)'
  <2>1. ASSUME NEW j \in Installs, j # i PROVE RecordedPresent(j)'
    BY <1>3, <1>5, <2>1 DEF RecordedPresent
  <2>2. RecordedPresent(i)'
    <3> SUFFICES ASSUME Recorded(i)', Graph(g) \notin fs' PROVE RecordedPresent(i)'
      BY DEF RecordedPresent
    <3>1. Recorded(i) /\ pc[i] # "clear" /\ pc'[i] # "done"
      BY <1>1 DEF SessionEffect, Recorded
    <3>2. Graph(g) \notin fs /\ ref'[q] = ref[q]
      BY <1>1, <3>1 DEF GraphEffect, ProjectEffect
    <3> QED BY <1>3, <3>1, <3>2 DEF KInv, RecordedPresent
  <2> QED BY <2>1, <2>2
<1>11. ASSUME NEW p \in Projects, p # q PROVE InstalledKept(p)'
  <2>0. PICK h : h = installed[p]
    OBVIOUS
  <2>1. installed'[p] = h /\ reg'[p] = reg[p] /\ ref'[p] = ref[p]
    BY <1>1, <1>11, <2>0 DEF OthersKept
  <2> SUFFICES ASSUME h # NoGraph
               PROVE  Graph(h) \in fs' /\ reg[p] = h /\ (ref[p] = h \/ Spared(h)')
    BY <2>0, <2>1 DEF InstalledKept, Spared
  <2>2. h \in Graphs /\ Graph(h) \in fs /\ reg[p] = h /\ (ref[p] = h \/ Spared(h))
    BY <1>1, <2>0 DEF KInv, InstalledKept, TypeOK
  <2>3. CASE h = g
    <3>1. ref[p] = g /\ pc[i] # "clear"
      BY <1>11, <2>0, <2>3 DEF KInv, SharedKept
    <3> QED BY <1>1, <2>2, <2>3, <3>1 DEF GraphEffect
  <2>4. CASE h # g
    <3>1. Graph(h) # Graph(g)
      BY <2>4, Kinds
    <3>2. Graph(h) \in fs' /\ (Graph(h) \in rows' => Graph(h) \in rows) /\ young \subseteq young'
      BY <1>1, <2>2, <2>4, <3>1 DEF OthersKept
    <3>3. \A j \in Installs : GraphOf[j] = h => (Settled(j) => Settled(j)')
      BY <1>5, <2>4
    <3>4. Spared(h) => Spared(h)'
      BY <1>3, <3>2, <3>3 DEF Spared
    <3> QED BY <2>2, <3>2, <3>4
  <2> QED BY <2>3, <2>4
<1>12. InstalledKept(q)'
  <2>0. PICK h : h = installed[q]
    OBVIOUS
  <2>1. CASE installed'[q] = NoGraph
    BY <2>1 DEF InstalledKept
  <2>2. CASE installed'[q] = g /\ ref'[q] = g /\ reg'[q] = g /\ Graph(g) \in fs'
    BY <2>2 DEF InstalledKept
  <2>3. CASE /\ installed'[q] = h /\ h # NoGraph
             /\ ~(installed'[q] = g /\ ref'[q] = g /\ reg'[q] = g /\ Graph(g) \in fs')
    <3>1. h \in Graphs /\ Graph(h) \in fs /\ reg[q] = h /\ (ref[q] = h \/ Spared(h))
      BY <1>1, <2>0, <2>3 DEF KInv, InstalledKept, TypeOK
    <3>2. Graph(h) \in fs'
      BY <1>1, <2>3, <3>1 DEF OthersKept, GraphEffect
    <3>3. reg'[q] = h
      <4>1. CASE reg'[q] # reg[q]
        <5>1. Recorded(i) /\ reg'[q] = g
          BY <1>1, <4>1 DEF ProjectEffect, Recorded
        <5> QED BY <2>0, <2>3, <5>1 DEF KInv, Local, ViewKnown
      <4> QED BY <3>1, <4>1
    <3>4. ref'[q] = ref[q]
      BY <1>1, <2>3, <3>2, <3>3 DEF ProjectEffect
    <3>5. ASSUME NEW c \in Collectors, cpc[c] = "select", Spared(h)
          PROVE  /\ LeaseKeys(h) \subseteq young' /\ Graph(h) \notin rows'
                 /\ \A j \in Installs : GraphOf[j] = h => Settled(j)'
      <4>1. /\ LeaseKeys(h) \subseteq young /\ Graph(h) \notin rows
            /\ \A j \in Installs : GraphOf[j] = h => Settled(j)
        BY <3>5 DEF Spared
      <4>2. ASSUME Graph(h) \in rows' PROVE FALSE
        <5>1. h = g /\ pc[i] = "gtx"
          BY <1>1, <3>1, <4>1, <4>2 DEF OthersKept, GraphEffect
        <5>2. mode[i] = "build"
          BY <4>1, <5>1 DEF Settled
        <5> QED BY <2>0, <2>3, <5>1, <5>2 DEF KInv, Local, ViewKnown, Recorded
      <4> QED BY <1>1, <1>5, <1>8, <4>1, <4>2 DEF OthersKept
    <3>6. Spared(h) => Spared(h)'
      BY <1>3, <3>5 DEF Spared
    <3> QED BY <2>3, <3>1, <3>2, <3>3, <3>4, <3>6 DEF InstalledKept, Spared
  <2> QED BY <1>1, <2>0, <2>1, <2>2, <2>3 DEF ProjectEffect
<1>13. ASSUME NEW j \in Installs, NEW p \in Projects PROVE SharedKept(j, p)'
  <2> SUFFICES ASSUME p # ProjectOf[j], installed'[p] = GraphOf[j]
               PROVE  /\ ref'[p] = GraphOf[j] /\ LeaseKeys(GraphOf[j]) \subseteq fs' /\ pc'[j] # "clear"
                      /\ \A c \in Collectors : cpc[c] = "repair" => Graph(GraphOf[j]) \notin staleRows[c]
    BY <1>3 DEF SharedKept
  <2>1. installed[p] = GraphOf[j] /\ ref'[p] = ref[p]
    <3>1. CASE p = q
      <4>1. j # i /\ GraphOf[j] # g
        BY <1>5, <3>1
      <4> QED BY <1>1, <3>1, <4>1 DEF ProjectEffect
    <3> QED BY <1>1, <3>1 DEF OthersKept
  <2>2. /\ ref[p] = GraphOf[j] /\ LeaseKeys(GraphOf[j]) \subseteq fs /\ pc[j] # "clear"
        /\ \A c \in Collectors : cpc[c] = "repair" => Graph(GraphOf[j]) \notin staleRows[c]
    BY <2>1 DEF KInv, SharedKept
  <2>3. Graph(GraphOf[j]) \in fs
    BY <1>1, <2>1 DEF KInv, InstalledKept
  <2>4. LeaseKeys(GraphOf[j]) \subseteq fs'
    BY <1>1, <2>2, InputsNoGraphs DEF OthersKept
  <2>5. pc'[j] # "clear"
    BY <1>1, <1>5, <2>2, <2>3 DEF SessionEffect
  <2> QED BY <2>1, <2>2, <2>4, <2>5
<1> QED BY <1>2, <1>4, <1>6, <1>7, <1>9, <1>10, <1>11, <1>12, <1>13 DEF KInv

-----------------------------------------------------------------------------
(* What a collector never touches. *)
LEMMA CollectorFrame ==
    ASSUME NEW c \in Collectors, CollectorStep(c)
    PROVE  UNCHANGED <<reg, expired, pc, mode, keys, guard, installed>> /\ young \subseteq young'
<1>1. ASSUME Delete(c)
      PROVE  UNCHANGED <<reg, expired, pc, mode, keys, guard, installed>> /\ young \subseteq young'
  BY <1>1 DEF Delete, installVars
<1>2. CASE ~Delete(c)
  BY <1>2 DEF CollectorStep, ScanArtifacts, ScanImages, ScanGraphs, FindStale, RepairTx, Select, LockNext,
              fsVars, dbVars, installVars
<1> QED BY <1>1, <1>2

(* What is said of an install alone survives whatever changes only the     *)
(* store and the index, as long as nothing ages.                           *)
LEMMA LocalFrame ==
    ASSUME NEW i \in Installs, Local(i), young \subseteq young',
           UNCHANGED <<reg, expired, pc, mode, keys, guard, installed>>
    PROVE  Local(i)' /\ (Settled(i) => Settled(i)') /\ (Recorded(i)' <=> Recorded(i))
  BY DEF Local, InstallShape, ViewKnown, BuildYoung, Settled, Recorded

(* A step of a collector that changes neither store nor index, and does    *)
(* not reach "select": what remains is what it observed and selected.      *)
LEMMA CollectorPrivate ==
    ASSUME KInv, NEW c \in Collectors,
           UNCHANGED <<reg, expired, pc, mode, keys, guard, installed>>, young \subseteq young',
           UNCHANGED <<fs, rows, complete, edges, ref, lease>>,
           IInv', CollectorShape',
           cpc'[c] = "repair" => cpc[c] = "stale" /\ staleRows'[c] = rows \ Published,
           cpc'[c] \in {"stale", "repair"} =>
               \A g \in Graphs : Graph(g) \in obs'[c] <=>
                   IF cpc[c] = "stale" THEN Graph(g) \in obs[c] ELSE Graph(g) \in fs,
           cpc'[c] # "select",
           \A o \in queue'[c] : o \in queue[c] \/ (cpc[c] = "select" /\ o \in rows /\ (o \notin young \/ GraceZero))
    PROVE  KInv'
<1>1. /\ TypeOK /\ OneEach /\ \A d \in Collectors : d = c
      /\ \A i \in Installs : GraphOf[i] \in Graphs /\ GraphOf[i] # NoGraph
      /\ \A g \in Graphs : Graph(g) \in fs => Graph(g) \in Published
  BY ConfigAssumption, PublishedInputs DEF KInv, IInv, OneEach
<1>2. \A i \in Installs : Local(i)' /\ (Settled(i) => Settled(i)') /\ (Recorded(i)' <=> Recorded(i))
  BY LocalFrame DEF KInv
<1>3. OneEach' /\ IndexConsistent'
  BY DEF KInv, OneEach, IndexConsistent
<1>4. StaleGraphs'
  BY <1>1 DEF StaleGraphs
<1>5. \A i \in Installs : ReusePresent(i)'
  BY DEF KInv, ReusePresent
<1>6. \A i \in Installs : RecordedPresent(i)'
  BY <1>1, <1>2 DEF KInv, RecordedPresent
<1>7. ASSUME NEW p \in Projects PROVE InstalledKept(p)'
  <2>0. PICK h : h = installed[p]
    OBVIOUS
  <2> SUFFICES ASSUME h # NoGraph
               PROVE  Graph(h) \in fs /\ reg[p] = h /\ (ref[p] = h \/ Spared(h)')
    BY <2>0 DEF InstalledKept, Spared
  <2>1. h \in Graphs /\ Graph(h) \in fs /\ reg[p] = h /\ (ref[p] = h \/ Spared(h))
    BY <1>1, <2>0 DEF KInv, InstalledKept, TypeOK
  <2>2. ASSUME Spared(h) PROVE Spared(h)'
    <3>1. /\ Graph(h) \notin queue[c]
          /\ queue[c] \cap LeaseKeys(h) = {} \/ GraceZero
          /\ cpc[c] \in {"stale", "repair"} => Graph(h) \in obs[c]
          /\ cpc[c] = "select" => LeaseKeys(h) \subseteq young /\ Graph(h) \notin rows
      BY <2>2 DEF Spared
    <3>2. Graph(h) \notin queue'[c] /\ (queue'[c] \cap LeaseKeys(h) = {} \/ GraceZero)
      BY <3>1
    <3>3. cpc'[c] \in {"stale", "repair"} => Graph(h) \in obs'[c]
      BY <2>1, <3>1
    <3> QED BY <1>1, <3>2, <3>3 DEF Spared
  <2> QED BY <2>1, <2>2
<1>8. ASSUME NEW i \in Installs, NEW p \in Projects PROVE SharedKept(i, p)'
  <2> SUFFICES ASSUME p # ProjectOf[i], installed[p] = GraphOf[i]
               PROVE  /\ ref[p] = GraphOf[i] /\ LeaseKeys(GraphOf[i]) \subseteq fs /\ pc[i] # "clear"
                      /\ cpc'[c] = "repair" => Graph(GraphOf[i]) \notin staleRows'[c]
    BY <1>1 DEF SharedKept
  <2>1. Graph(GraphOf[i]) \in fs
    BY <1>1 DEF KInv, InstalledKept
  <2> QED BY <1>1, <2>1 DEF KInv, SharedKept
<1> QED BY <1>2, <1>3, <1>4, <1>5, <1>6, <1>7, <1>8 DEF KInv

(* The repair transaction keeps the index consistent. *)
LEMMA RepairIndex ==
    ASSUME KInv, NEW c \in Collectors, RepairTx(c), ~RepairBreaksKey(c)
    PROVE  IndexConsistent'
<1>1. TypeOK /\ IndexConsistent
  BY DEF KInv, IInv
<1>2. /\ rows' = RepairedRows(c) /\ edges' = RepairedEdges(c) /\ complete' = RepairedComplete(c)
      /\ ref' = RepairedRef(c)
  BY DEF RepairTx
<1>3. ASSUME NEW g \in Graphs, Graph(g) \notin staleRows[c], Graph(g) \in rows \/ Graph(g) \in obs[c]
      PROVE  Graph(g) \in rows'
  BY <1>2, <1>3, Kinds DEF RepairedRows
<1>4. ASSUME NEW g \in complete' PROVE Graph(g) \in rows' /\ edges'[g] = Inventory(g)
  <2>1. /\ g \in Graphs /\ Graph(g) \notin staleRows[c]
        /\ IF Graph(g) \in obs[c] THEN Whole(c, g) ELSE g \in complete
    BY <1>2, <1>4 DEF RepairedComplete
  <2>2. edges'[g] = IF Graph(g) \in obs[c] THEN Inventory(g) ELSE edges[g]
    BY <1>2, <2>1 DEF RepairedEdges, ObservedEdges
  <2> QED BY <1>1, <1>3, <2>1, <2>2 DEF IndexConsistent
<1>5. ASSUME NEW p \in Projects, ref'[p] # NoGraph PROVE Graph(ref'[p]) \in rows'
  <2>1. CASE Registered(c, p)
    <3>1. ref'[p] = reg[p] /\ reg[p] \in Graphs /\ Graph(reg[p]) \in obs[c] /\ Graph(reg[p]) \notin staleRows[c]
      BY <1>1, <1>2, <2>1 DEF RepairedRef, RepairBreaksKey, Registered, TypeOK
    <3> QED BY <1>3, <3>1
  <2>2. CASE ~Registered(c, p)
    <3>1. ref'[p] = ref[p] /\ ref[p] \in Graphs /\ Graph(ref[p]) \notin staleRows[c]
      BY <1>1, <1>2, <1>5, <2>2, ConfigAssumption DEF RepairedRef, TypeOK
    <3> QED BY <1>1, <1>3, <1>5, <3>1 DEF IndexConsistent
  <2> QED BY <2>1, <2>2
<1> QED BY <1>4, <1>5 DEF IndexConsistent

(* The repair transaction preserves the invariant: it drops the reference  *)
(* of an installed graph only when it took its volume for missing, and     *)
(* then the graph has no row to be selected by.                            *)
LEMMA RepairKept ==
    ASSUME KInv, NEW c \in Collectors, RepairTx(c), ~RepairBreaksKey(c), IInv'
    PROVE  KInv'
<1>1. /\ TypeOK /\ OneEach /\ \A d \in Collectors : d = c
      /\ \A i \in Installs : GraphOf[i] \in Graphs /\ GraphOf[i] # NoGraph /\ ProjectOf[i] \in Projects
  BY ConfigAssumption DEF KInv, IInv, OneEach
<1>2. /\ cpc[c] = "repair" /\ cpc'[c] = "select"
      /\ rows' = RepairedRows(c) /\ ref' = RepairedRef(c)
      /\ lease' = {r \in lease : r[2] \notin staleRows[c]}
      /\ UNCHANGED <<fs, obs, staleRows, queue>>
      /\ UNCHANGED <<reg, expired, pc, mode, keys, guard, installed>> /\ young \subseteq young'
  BY <1>1 DEF RepairTx, fsVars, installVars, TypeOK
<1>3. OneEach' /\ IndexConsistent'
  BY RepairIndex DEF KInv, OneEach
<1>4. CollectorShape' /\ queue'[c] = {} /\ StaleGraphs'
  BY <1>1, <1>2 DEF KInv, CollectorShape, StaleGraphs
<1>5. \A i \in Installs : Local(i)' /\ (Settled(i) => Settled(i)') /\ (Recorded(i)' <=> Recorded(i))
  BY <1>2, LocalFrame DEF KInv
<1>6. ASSUME NEW i \in Installs PROVE ReusePresent(i)'
  \* the lease on a volume to be reused is not among the dropped ones
  <2>1. ReusePresent(i) /\ GraphOf[i] \in Graphs
    BY <1>1 DEF KInv
  <2>2. ASSUME mode[i] = "reuse", pc[i] = "publish" PROVE <<i, Graph(GraphOf[i])>> \in lease'
    <3>1. Graph(GraphOf[i]) \in fs /\ <<i, Graph(GraphOf[i])>> \in lease
      BY <2>1, <2>2 DEF ReusePresent
    <3>2. Graph(GraphOf[i]) \notin staleRows[c]
      BY <1>2, <2>1, <2>2, <3>1 DEF KInv, StaleGraphs, Settled
    <3> QED BY <1>2, <3>1, <3>2
  <2> QED BY <1>2, <2>1, <2>2 DEF ReusePresent
<1>7. ASSUME NEW i \in Installs PROVE RecordedPresent(i)'
  <2> DEFINE g == GraphOf[i]
             p == ProjectOf[i]
  <2> SUFFICES ASSUME Recorded(i), ref'[p] = g PROVE Graph(g) \in fs
    BY <1>1, <1>2, <1>5 DEF RecordedPresent
  <2>1. ref[p] = g \/ (reg[p] = g /\ Graph(g) \in obs[c])
    BY <1>1, <1>2 DEF RepairedRef, Registered
  <2> QED BY <1>2, <2>1 DEF KInv, RecordedPresent
<1>8. ASSUME NEW p \in Projects PROVE InstalledKept(p)'
  <2>0. PICK h : h = installed[p]
    OBVIOUS
  <2> SUFFICES ASSUME h # NoGraph
               PROVE  Graph(h) \in fs /\ reg[p] = h /\ (ref'[p] = h \/ Spared(h)')
    BY <1>2, <2>0 DEF InstalledKept, Spared
  <2>1. h \in Graphs /\ Graph(h) \in fs /\ reg[p] = h /\ (ref[p] = h \/ Spared(h))
    BY <1>1, <2>0 DEF KInv, InstalledKept, TypeOK
  <2>2. CASE Graph(h) \in obs[c]
    BY <1>2, <2>1, <2>2 DEF RepairedRef, Registered
  <2>3. CASE Graph(h) \notin obs[c] /\ Graph(h) \notin staleRows[c]
    <3>1. ref[p] = h
      BY <1>2, <2>1, <2>3 DEF Spared
    <3> QED BY <1>2, <2>1, <2>3, <3>1 DEF RepairedRef, Registered
  <2>4. CASE Graph(h) \notin obs[c] /\ Graph(h) \in staleRows[c]
    <3>1. LeaseKeys(h) \subseteq young /\ \A i \in Installs : GraphOf[i] = h => Settled(i)
      BY <1>2, <2>1, <2>4 DEF KInv, StaleGraphs
    <3>2. Graph(h) \notin rows'
      BY <1>2, <2>4 DEF RepairedRows
    <3>3. \A i \in Installs : GraphOf[i] = h => Settled(i)'
      BY <1>5, <3>1
    <3>4. Spared(h)'
      BY <1>1, <1>2, <1>4, <3>1, <3>2, <3>3 DEF Spared
    <3> QED BY <2>1, <3>4
  <2> QED BY <2>2, <2>3, <2>4
<1>9. ASSUME NEW i \in Installs, NEW p \in Projects PROVE SharedKept(i, p)'
  <2> SUFFICES ASSUME p # ProjectOf[i], installed[p] = GraphOf[i]
               PROVE  /\ ref'[p] = GraphOf[i] /\ LeaseKeys(GraphOf[i]) \subseteq fs /\ pc[i] # "clear"
    BY <1>1, <1>2 DEF SharedKept
  <2>1. /\ ref[p] = GraphOf[i] /\ LeaseKeys(GraphOf[i]) \subseteq fs /\ pc[i] # "clear"
        /\ Graph(GraphOf[i]) \notin staleRows[c]
    BY <1>2 DEF KInv, SharedKept
  <2>2. reg[p] = GraphOf[i]
    BY <1>1 DEF KInv, InstalledKept
  <2> QED BY <1>2, <2>1, <2>2 DEF RepairedRef
<1> QED BY <1>3, <1>4, <1>5, <1>6, <1>7, <1>8, <1>9 DEF KInv

(* Deleting an object keeps the index consistent, whether or not its row   *)
(* goes with it.                                                           *)
LEMMA DeleteIndex ==
    ASSUME TypeOK, IndexConsistent, NEW o \in Objs, ~Protected(o), ref' = ref,
           DeleteRow(o) \/ UNCHANGED <<rows, edges, complete>>
    PROVE  IndexConsistent'
<1>1. CASE UNCHANGED <<rows, edges, complete>>
  BY <1>1 DEF IndexConsistent
<1>2. CASE DeleteRow(o)
  <2>1. ASSUME NEW g \in Graphs, o # Graph(g), Graph(g) \in rows PROVE Graph(g) \in rows'
    BY <1>2, <2>1, Kinds DEF DeleteRow
  <2>2. ASSUME NEW g \in complete' PROVE Graph(g) \in rows' /\ edges'[g] = Inventory(g)
    <3>1. g \in complete /\ g \in Graphs /\ o # Graph(g)
      BY <1>2, <2>2 DEF DeleteRow, TypeOK
    <3>2. edges'[g] = edges[g]
      BY <1>2, <3>1 DEF DeleteRow
    <3> QED BY <2>1, <3>1, <3>2 DEF IndexConsistent
  <2>3. ASSUME NEW p \in Projects, ref[p] # NoGraph PROVE Graph(ref[p]) \in rows'
    <3>1. o # Graph(ref[p])
      BY <2>3, ReferenceProtects
    <3> QED BY <2>1, <2>3, <3>1 DEF IndexConsistent, TypeOK
  <2> QED BY <2>2, <2>3 DEF IndexConsistent
<1> QED BY <1>1, <1>2

(* Deleting an object preserves the invariant: nothing that an installed   *)
(* project needs is both selected and unprotected.                         *)
LEMMA DeleteKept ==
    ASSUME KInv, NEW c \in Collectors, NEW o \in queue[c], ~Protected(o), lock[o] = c,
           cpc[c] = "delete", cpc'[c] \in {"next", "idle"},
           cpc'[c] = "idle" => queue'[c] = {}, queue'[c] \subseteq queue[c],
           fs' = fs \ {o}, DeleteRow(o) \/ UNCHANGED <<rows, edges, complete>>,
           UNCHANGED <<ref, lease, obs, staleRows, young>>,
           UNCHANGED <<reg, expired, pc, mode, keys, guard, installed>>, IInv'
    PROVE  KInv'
<1>1. /\ TypeOK /\ OneEach /\ \A d \in Collectors : d = c
      /\ \A i \in Installs : /\ GraphOf[i] \in Graphs /\ GraphOf[i] # NoGraph /\ ProjectOf[i] \in Projects
                             /\ i # c
      /\ o \in Objs
  BY ConfigAssumption DEF KInv, IInv, OneEach, TypeOK
<1>2. OneEach' /\ IndexConsistent'
  BY <1>1, DeleteIndex DEF KInv, OneEach
<1>3. CollectorShape' /\ StaleGraphs'
  BY <1>1 DEF KInv, CollectorShape, StaleGraphs
<1>4. \A i \in Installs : Local(i)' /\ (Settled(i) => Settled(i)') /\ (Recorded(i)' <=> Recorded(i))
  BY LocalFrame DEF KInv
<1>5. ASSUME NEW p \in Projects, ref[p] # NoGraph PROVE o \notin LeaseKeys(ref[p]) \cup {Graph(ref[p])}
  BY <1>1, <1>5, ReferenceProtects DEF KInv
<1>6. ASSUME NEW i \in Installs PROVE ReusePresent(i)'
  <2> DEFINE g == GraphOf[i]
  <2>1. ReusePresent(i) /\ InstallShape(i) /\ LocksHeld
    BY DEF KInv, IInv, Local
  <2>2. ASSUME mode[i] = "reuse", pc[i] = "insert", guard[i] = {} PROVE o # Graph(g)
    <3>1. lock[Graph(g)] = i
      BY <2>1, <2>2 DEF InstallShape, LocksHeld
    <3> QED BY <1>1, <3>1
  <2>3. ASSUME mode[i] = "reuse", pc[i] = "publish" PROVE o # Graph(g)
    <3>1. <<i, Graph(g)>> \in lease /\ i \notin expired
      BY <2>1, <2>3 DEF ReusePresent, InstallShape
    <3> QED BY <3>1 DEF Protected, Leased
  <2> QED BY <2>1, <2>2, <2>3 DEF ReusePresent
<1>7. ASSUME NEW i \in Installs PROVE RecordedPresent(i)'
  <2>1. Recorded(i) => (ref[ProjectOf[i]] = GraphOf[i] => Graph(GraphOf[i]) \in fs /\ o # Graph(GraphOf[i]))
    BY <1>1, <1>5 DEF KInv, RecordedPresent
  <2> QED BY <1>1, <1>4, <2>1 DEF RecordedPresent
<1>8. ASSUME NEW p \in Projects PROVE InstalledKept(p)'
  <2>0. PICK h : h = installed[p]
    OBVIOUS
  <2> SUFFICES ASSUME h # NoGraph
               PROVE  Graph(h) \in fs' /\ reg[p] = h /\ (ref[p] = h \/ Spared(h)')
    BY <2>0 DEF InstalledKept, Spared
  <2>1. h \in Graphs /\ Graph(h) \in fs /\ reg[p] = h /\ (ref[p] = h \/ Spared(h))
    BY <1>1, <2>0 DEF KInv, InstalledKept, TypeOK
  <2>2. o # Graph(h)
    BY <1>5, <2>1 DEF Spared
  <2>3. Spared(h) => Spared(h)'
    BY <1>1 DEF Spared
  <2> QED BY <2>1, <2>2, <2>3
<1>9. ASSUME NEW i \in Installs, NEW p \in Projects PROVE SharedKept(i, p)'
  <2> SUFFICES ASSUME p # ProjectOf[i], installed[p] = GraphOf[i]
               PROVE  /\ ref[p] = GraphOf[i] /\ LeaseKeys(GraphOf[i]) \subseteq fs' /\ pc[i] # "clear"
    BY <1>1 DEF SharedKept
  <2>1. ref[p] = GraphOf[i] /\ LeaseKeys(GraphOf[i]) \subseteq fs /\ pc[i] # "clear"
    BY DEF KInv, SharedKept
  <2>2. o \notin LeaseKeys(GraphOf[i])
    BY <1>1, <1>5, <2>1
  <2> QED BY <2>1, <2>2
<1> QED BY <1>2, <1>3, <1>4, <1>6, <1>7, <1>8, <1>9 DEF KInv

(* Every step of a collector preserves the invariant. *)
LEMMA CollectorKept ==
    ASSUME KInv, NEW c \in Collectors, CollectorStep(c)
    PROVE  KInv'
<1>1. TypeOK /\ CollectorShape /\ IInv' /\ \A d \in Collectors : d = c
  BY CollectorInv DEF KInv, IInv, OneEach
<1>2. UNCHANGED <<reg, expired, pc, mode, keys, guard, installed>> /\ young \subseteq young'
  BY CollectorFrame
<1>3. CASE ScanArtifacts(c)
  <2>1. /\ UNCHANGED <<fs, rows, complete, edges, ref, lease, queue>>
        /\ cpc[c] = "idle" /\ cpc'[c] = "images" /\ obs'[c] = fs \cap ArtifactKeys
    BY <1>1, <1>3 DEF ScanArtifacts, fsVars, dbVars, TypeOK
  <2>2. CollectorShape'
    BY <1>1, <2>1, InputsNoGraphs DEF CollectorShape, GraphKeys
  <2> QED BY <1>1, <1>2, <2>1, <2>2, CollectorPrivate
<1>4. CASE ScanImages(c)
  <2>1. /\ UNCHANGED <<fs, rows, complete, edges, ref, lease, queue>>
        /\ cpc[c] = "images" /\ cpc'[c] = "graphs"
        /\ obs'[c] = obs[c] \cup (Published \cap (ImageKeys \cup DerivedKeys))
    BY <1>1, <1>4 DEF ScanImages, fsVars, dbVars, TypeOK
  <2>2. CollectorShape'
    BY <1>1, <2>1, InputsNoGraphs DEF CollectorShape, GraphKeys
  <2> QED BY <1>1, <1>2, <2>1, <2>2, CollectorPrivate
<1>5. CASE ScanGraphs(c)
  <2>1. /\ UNCHANGED <<fs, rows, complete, edges, ref, lease, queue>>
        /\ cpc[c] = "graphs" /\ cpc'[c] = "stale"
        /\ obs'[c] = obs[c] \cup (fs \cap GraphKeys)
    BY <1>1, <1>5 DEF ScanGraphs, fsVars, dbVars, TypeOK
  <2>2. CollectorShape'
    BY <1>1, <2>1 DEF CollectorShape
  <2>3. \A g \in Graphs : Graph(g) \in obs'[c] <=> Graph(g) \in fs
    BY <1>1, <2>1, KeysAreObjects DEF CollectorShape
  <2> QED BY <1>1, <1>2, <2>1, <2>2, <2>3, CollectorPrivate
<1>6. CASE FindStale(c)
  <2>1. /\ UNCHANGED <<fs, rows, complete, edges, ref, lease, queue, obs>>
        /\ cpc[c] = "stale" /\ cpc'[c] = "repair" /\ staleRows'[c] = rows \ Published
    BY <1>1, <1>6 DEF FindStale, fsVars, dbVars, TypeOK
  <2>2. CollectorShape'
    BY <1>1, <2>1 DEF CollectorShape
  <2> QED BY <1>1, <1>2, <2>1, <2>2, CollectorPrivate
<1>7. CASE RepairTx(c)
  <2>1. CASE RepairBreaksKey(c)
    <3>1. /\ UNCHANGED <<fs, rows, complete, edges, ref, lease, queue>>
          /\ cpc[c] = "repair" /\ cpc'[c] = "idle"
      BY <1>1, <1>7, <2>1 DEF RepairTx, fsVars, dbVars, TypeOK
    <3>2. CollectorShape'
      BY <1>1, <3>1 DEF CollectorShape
    <3> QED BY <1>1, <1>2, <3>1, <3>2, CollectorPrivate
  <2> QED BY <1>1, <1>7, <2>1, RepairKept
<1>8. CASE Select(c)
  <2>1. /\ UNCHANGED <<fs, rows, complete, edges, ref, lease>>
        /\ cpc[c] = "select" /\ cpc'[c] = "next"
        /\ \A o \in queue'[c] : o \in rows /\ (o \notin young \/ GraceZero)
    BY <1>1, <1>8 DEF Select, fsVars, dbVars, TypeOK
  <2>2. CollectorShape'
    BY <1>1, <2>1 DEF CollectorShape
  <2> QED BY <1>1, <1>2, <2>1, <2>2, CollectorPrivate
<1>9. CASE LockNext(c)
  <2>1. /\ UNCHANGED <<fs, rows, complete, edges, ref, lease, queue>>
        /\ cpc'[c] = "delete" \/ (cpc'[c] = "idle" /\ queue[c] = {})
    BY <1>1, <1>9 DEF LockNext, dbVars, TypeOK
  <2>2. CollectorShape'
    BY <1>1, <2>1 DEF CollectorShape
  <2> QED BY <1>1, <1>2, <2>1, <2>2, CollectorPrivate
<1>10. CASE Delete(c)
  <2>1. PICK o \in queue[c] : Delete(c)!(o)
    BY <1>10 DEF Delete
  <2>2. /\ cpc[c] = "delete" /\ lock[o] = c
        /\ UNCHANGED <<ref, lease, obs, staleRows, young>>
        /\ cpc'[c] \in {"next", "idle"} /\ queue'[c] \subseteq queue[c]
        /\ cpc'[c] = "idle" => queue'[c] = {}
    BY <1>1, <2>1 DEF TypeOK
  <2>3. CASE UNCHANGED <<fs, rows, edges, complete>>
    <3>1. CollectorShape'
      BY <1>1, <2>2 DEF CollectorShape
    <3> QED BY <1>1, <1>2, <2>2, <2>3, <3>1, CollectorPrivate
  <2>4. CASE ~UNCHANGED <<fs, rows, edges, complete>>
    <3>1. ~Protected(o) /\ fs' = fs \ {o} /\ (DeleteRow(o) \/ UNCHANGED <<rows, edges, complete>>)
      BY <2>1, <2>4
    <3> QED BY <1>1, <1>2, <2>2, <3>1, DeleteKept
  <2> QED BY <2>3, <2>4
<1> QED BY <1>3, <1>4, <1>5, <1>6, <1>7, <1>8, <1>9, <1>10 DEF CollectorStep

(* Initial states satisfy the invariant. *)
LEMMA InitKept == Init /\ OneEach => KInv
<1> SUFFICES ASSUME Init, OneEach PROVE KInv
  OBVIOUS
<1>1. IInv
  BY InitIInv
<1>2. PICK past \in [Projects -> Graphs \cup {NoGraph}], leftover \in SUBSET Graphs :
           (\A p \in Copied : past[p] = NoGraph) /\ InitWith(past, leftover)
  BY DEF Init
<1> DEFINE gs == leftover \cup ({past[p] : p \in Projects} \ {NoGraph})
           objs == UNION {LeaseKeys(g) \cup {Graph(g)} : g \in gs}
<1>3. gs \subseteq Graphs
  OBVIOUS
<1>4. \A g \in gs : LeaseKeys(g) \subseteq objs /\ Graph(g) \in objs
  OBVIOUS
<1>5. \A p \in Projects : past[p] # NoGraph => past[p] \in gs
  OBVIOUS
<1>6. /\ fs = objs /\ rows = objs /\ complete = gs /\ reg = past /\ ref = past /\ installed = past
      /\ \A g \in gs : edges[g] = Inventory(g)
      /\ expired = {} /\ \A i \in Installs : pc[i] = "start" /\ mode[i] = "build" /\ guard[i] = {}
      /\ \A c \in Collectors : cpc[c] = "idle" /\ queue[c] = {}
  BY <1>2, <1>3 DEF InitWith
<1> HIDE DEF gs, objs
<1>7. IndexConsistent /\ CollectorShape /\ StaleGraphs
  BY <1>4, <1>5, <1>6 DEF IndexConsistent, CollectorShape, StaleGraphs
<1>8. ASSUME NEW i \in Installs PROVE Local(i) /\ ReusePresent(i) /\ RecordedPresent(i)
  BY <1>2, <1>6 DEF Local, InstallShape, ViewKnown, BuildYoung, ReusePresent, RecordedPresent, Recorded
<1>9. ASSUME NEW p \in Projects PROVE InstalledKept(p)
  BY <1>4, <1>5, <1>6 DEF InstalledKept
<1>10. ASSUME NEW i \in Installs, NEW p \in Projects PROVE SharedKept(i, p)
  <2>1. GraphOf[i] # NoGraph
    BY ConfigAssumption
  <2> QED BY <1>4, <1>5, <1>6, <2>1 DEF SharedKept
<1> QED BY <1>1, <1>7, <1>8, <1>9, <1>10 DEF KInv

(* The invariant is inductive. *)
LEMMA NextKept == KInv /\ [Next]_vars => KInv'
<1> SUFFICES ASSUME KInv, [Next]_vars PROVE KInv'
  OBVIOUS
<1>1. IInv'
  BY NextIInv DEF KInv
<1>2. CASE UNCHANGED vars
  <2>1. UNCHANGED <<fs, rows, complete, edges, ref, lease, reg, expired, pc, mode, keys, guard, installed,
                    young, cpc, obs, staleRows, queue>>
    BY <1>2 DEF vars, fsVars, dbVars, installVars, gcVars
  <2>2. OneEach' /\ IndexConsistent' /\ CollectorShape' /\ StaleGraphs'
    BY <2>1 DEF KInv, OneEach, IndexConsistent, CollectorShape, StaleGraphs, Settled
  <2>3. ASSUME NEW i \in Installs PROVE Local(i)' /\ ReusePresent(i)' /\ RecordedPresent(i)'
    BY <2>1, LocalFrame DEF KInv, ReusePresent, RecordedPresent
  <2>4. ASSUME NEW p \in Projects PROVE InstalledKept(p)'
    BY <2>1 DEF KInv, InstalledKept, Spared, Settled
  <2>5. ASSUME NEW i \in Installs, NEW p \in Projects PROVE SharedKept(i, p)'
    BY <2>1 DEF KInv, SharedKept
  <2> QED BY <1>1, <2>2, <2>3, <2>4, <2>5 DEF KInv
<1>3. CASE Age
  \* only while no install and no collector is under way
  <2>1. /\ UNCHANGED <<fs, rows, complete, edges, ref, lease, reg, expired, pc, mode, keys, guard, installed,
                       cpc, obs, staleRows, queue>>
        /\ \A i \in Installs : pc[i] \in {"done", "failed", "crashed", "start"}
        /\ \A c \in Collectors : cpc[c] = "idle"
    BY <1>3 DEF Age, Ended, installVars, gcVars
  <2>2. OneEach' /\ IndexConsistent' /\ CollectorShape' /\ StaleGraphs'
    BY <2>1 DEF KInv, OneEach, IndexConsistent, CollectorShape, StaleGraphs
  <2>3. ASSUME NEW i \in Installs PROVE Local(i)' /\ ReusePresent(i)' /\ RecordedPresent(i)'
    BY <2>1 DEF KInv, Local, InstallShape, ViewKnown, BuildYoung, Recorded, ReusePresent, RecordedPresent
  <2>4. ASSUME NEW p \in Projects PROVE InstalledKept(p)'
    <3>1. InstalledKept(p)
      BY DEF KInv
    <3> QED BY <2>1, <3>1 DEF InstalledKept, Spared
  <2>5. ASSUME NEW i \in Installs, NEW p \in Projects PROVE SharedKept(i, p)'
    BY <2>1 DEF KInv, SharedKept
  <2> QED BY <1>1, <2>2, <2>3, <2>4, <2>5 DEF KInv
<1> QED BY <1>2, <1>3, InstallKept, CollectorKept DEF Next

(* "no install ever succeeds with an unprotected graph": under OneEach,    *)
(* for any number of projects, installs, graphs and collections, whether   *)
(* or not there is a grace period and wherever installs and the collector  *)
(* are killed, the graph a project was installed from stays in the store   *)
(* until a later install of that project replaces its view.                *)
THEOREM InstalledGraphsStay == OneEach /\ Spec => []InstalledGraphPresent
<1>1. KInv => InstalledGraphPresent
  BY DEF KInv, InstalledKept, InstalledGraphPresent
<1> QED BY <1>1, InitKept, NextKept, PTL DEF Spec

(* "GC protection rules keep a project-referenced complete graph, and      *)
(* every artifact/image/derived object its inventory records, alive        *)
(* regardless of access age": under OneEach, no step takes an input of an  *)
(* installed graph from the store, if collections have a grace period.     *)
THEOREM InstalledInputsStay == OneEach /\ ~GraceZero /\ Spec => InstalledInputsKept
<1> DEFINE Kept == \A p \in Projects :
               installed[p] # NoGraph /\ installed'[p] = installed[p]
               => LeaseKeys(installed[p]) \cap fs \subseteq fs'
           GInv == KInv /\ ~GraceZero
<1>1. OneEach /\ ~GraceZero /\ Init => GInv
  BY InitKept
<1>2. GInv /\ [Next]_vars => GInv'
  BY NextKept
<1>3. GInv /\ [Next]_vars => [Kept]_vars
  <2> SUFFICES ASSUME KInv, ~GraceZero, Next, NEW p \in Projects, installed[p] # NoGraph,
                      NEW o \in LeaseKeys(installed[p]) \cap fs
               PROVE  o \in fs'
    OBVIOUS
  <2>1. ASSUME NEW i \in Installs, InstallStep(i) PROVE o \in fs'
    <3>1. OthersKept(i)
      BY <2>1, InstallOthers DEF KInv, IInv, Local
    <3> QED BY <3>1, InputsNoGraphs DEF OthersKept
  <2>2. ASSUME NEW c \in Collectors, CollectorStep(c) PROVE o \in fs'
    <3>1. CASE Delete(c)
      <4>1. PICK x \in queue[c] : Delete(c)!(x)
        BY <3>1 DEF Delete
      <4>2. fs' = fs \/ (fs' = fs \ {x} /\ ~Protected(x))
        BY <4>1
      <4>3. ref[p] = installed[p] \/ Spared(installed[p])
        BY DEF KInv, InstalledKept
      <4>4. CASE Spared(installed[p])
        BY <4>1, <4>2, <4>4 DEF Spared
      <4>5. CASE ref[p] = installed[p]
        BY <4>2, <4>5, ReferenceProtects DEF KInv, IInv
      <4> QED BY <4>3, <4>4, <4>5
    <3>2. CASE ~Delete(c)
      BY <2>2, <3>2 DEF CollectorStep, ScanArtifacts, ScanImages, ScanGraphs, FindStale, RepairTx, Select,
                        LockNext, fsVars
    <3> QED BY <3>1, <3>2
  <2>3. CASE Age
    BY <2>3 DEF Age
  <2> QED BY <2>1, <2>2, <2>3 DEF Next
<1>4. Spec /\ []GInv => [][Kept]_vars
  BY <1>3, PTL DEF Spec
<1> QED BY <1>1, <1>2, <1>4, PTL DEF Spec, InstalledInputsKept
=============================================================================
