---------------------------- MODULE MachineProofs ----------------------------
(***************************************************************************)
(* Proofs about what the processes on one machine share: the lock files of *)
(* the store, the schema of the index, leases and their heartbeat, the     *)
(* ownership of projects, and sources cached from git.                     *)
(***************************************************************************)
EXTENDS StoreLocks, MCMetadata, TLAPS, NaturalsInduction, WellFoundedInduction

(***************************************************************************)
(* The lock files of the store.                                            *)
(***************************************************************************)
(* The inductive invariant: the types, the order, exclusion, and which of  *)
(* todo and held is empty where.                                           *)
Shape ==
    \A p \in Procs :
        /\ pc[p] = "idle" => held[p] = {} /\ todo[p] = {}
        /\ pc[p] = "locking" => todo[p] # {}
        /\ pc[p] = "holding" => todo[p] = {} /\ held[p] # {}

IInv == TypeOK /\ Shape /\ WaitsUpward /\ MutualExclusion

(* The program starts with no lock file locked. *)
LEMMA InitIInv == Init => IInv
BY DEF Init, IInv, TypeOK, Shape, WaitsUpward, MutualExclusion

(* Every step of every caller preserves the invariant. *)
LEMMA NextIInv == IInv /\ [Next]_vars => IInv'
<1> SUFFICES ASSUME IInv, [Next]_vars PROVE IInv'
  OBVIOUS
<1> USE DEF IInv
<1>1. ASSUME NEW p \in Procs, NEW S \in SUBSET Keys, Call(p, S)
      PROVE  IInv'
  BY <1>1 DEF Call, TypeOK, Shape, WaitsUpward, MutualExclusion
<1>2. ASSUME NEW p \in Procs, Acquire(p)
      PROVE  IInv'
  <2>1. PICK k \in Keys :
          /\ FirstOf(todo[p], k)
          /\ \A q \in Procs : k \notin held[q]
          /\ held' = [held EXCEPT ![p] = held[p] \cup {k}]
          /\ todo' = [todo EXCEPT ![p] = todo[p] \ {k}]
          /\ pc' = [pc EXCEPT ![p] = IF todo[p] = {k} THEN "holding" ELSE "locking"]
    BY <1>2 DEF Acquire
  <2>2. k \in todo[p] /\ \A j \in todo[p] : k <= j
    BY <2>1 DEF FirstOf
  <2>3. TypeOK'
    BY <2>1 DEF TypeOK
  <2>4. Shape'
    BY <2>1, <2>2 DEF TypeOK, Shape
  <2>5. WaitsUpward'
    <3> SUFFICES ASSUME NEW q \in Procs, NEW i \in todo'[q], NEW j \in held'[q]
                 PROVE  j < i
      BY DEF WaitsUpward
    <3>1. CASE q # p
      BY <3>1, <2>1 DEF TypeOK, WaitsUpward
    <3>2. CASE q = p
      <4>1. i \in todo[p] /\ i # k /\ i \in Nat /\ k \in Nat
        BY <3>2, <2>1 DEF TypeOK, Keys
      <4>2. k < i
        BY <4>1, <2>2
      <4>3. j = k \/ j \in held[p]
        BY <3>2, <2>1 DEF TypeOK
      <4> QED
        BY <4>1, <4>2, <4>3 DEF WaitsUpward
    <3> QED
      BY <3>1, <3>2
  <2>6. MutualExclusion'
    BY <2>1 DEF TypeOK, MutualExclusion
  <2> QED
    BY <2>3, <2>4, <2>5, <2>6
<1>3. ASSUME NEW p \in Procs, Abort(p)
      PROVE  IInv'
  BY <1>3 DEF Abort, TypeOK, Shape, WaitsUpward, MutualExclusion
<1>4. ASSUME NEW p \in Procs, Release(p)
      PROVE  IInv'
  BY <1>4 DEF Release, TypeOK, Shape, WaitsUpward, MutualExclusion
<1>5. CASE UNCHANGED vars
  BY <1>5 DEF vars, TypeOK, Shape, WaitsUpward, MutualExclusion
<1> QED
  BY <1>1, <1>2, <1>3, <1>4, <1>5 DEF Next

(* The invariant holds in every reachable state. *)
THEOREM Invariance == Spec => []IInv
BY InitIInv, NextIInv, PTL DEF Spec

(* Types: pc, todo and held are what acquire_all keeps. *)
THEOREM TypeCorrect == Spec => []TypeOK
<1>1. IInv => TypeOK
  BY DEF IInv
<1> QED
  BY <1>1, Invariance, PTL

(* Two guards never cover the same object. *)
THEOREM Exclusion == Spec => []MutualExclusion
<1>1. IInv => MutualExclusion
  BY DEF IInv
<1> QED
  BY <1>1, Invariance, PTL

(* A non-empty set of keys has a greatest one. *)
LEMMA GreatestKey ==
  ASSUME NEW T \in SUBSET Keys, T # {}
  PROVE  \E m \in T : \A k \in T : k <= m
<1> DEFINE D == {n \in Nat : \E k \in T : n = NumKeys - k}
<1>1. \A k \in T : k \in Nat /\ NumKeys - k \in Nat
  BY NumKeysAssumption DEF Keys
<1>2. D # {}
  <2>1. PICK k \in T : TRUE
    OBVIOUS
  <2>2. NumKeys - k \in D
    BY <1>1, <2>1
  <2> QED
    BY <2>2
<1>3. PICK d \in D : \A n \in D : ~ (<<n, d>> \in OpToRel(<, Nat))
  <2>1. D \subseteq Nat
    OBVIOUS
  <2>2. IsWellFoundedOn(OpToRel(<, Nat), Nat)
    BY NatLessThanWellFounded
  <2> HIDE DEF D
  <2> QED
    BY <1>2, <2>1, <2>2, WFMin
<1>4. \A n \in D : ~ (n < d)
  BY <1>3 DEF OpToRel
<1>5. PICK m \in T : d = NumKeys - m
  OBVIOUS
<1>6. ASSUME NEW k \in T PROVE k <= m
  <2>1. NumKeys - k \in D
    BY <1>1
  <2>2. ~ (NumKeys - k < NumKeys - m)
    BY <2>1, <1>4, <1>5
  <2> QED
    BY <2>2, <1>1, NumKeysAssumption
<1> QED
  BY <1>6

(* A non-empty set of keys has a least one, so a caller inside acquire_all *)
(* always has a next key.                                                  *)
LEMMA LeastKey ==
  ASSUME NEW T \in SUBSET Keys, T # {}
  PROVE  \E k \in Keys : FirstOf(T, k)
<1>1. T \subseteq Nat
  BY DEF Keys
<1>2. PICK k \in T : \A n \in T : ~ (<<n, k>> \in OpToRel(<, Nat))
  BY <1>1, NatLessThanWellFounded, WFMin
<1>3. \A n \in T : ~ (n < k)
  BY <1>1, <1>2 DEF OpToRel
<1>4. \A n \in T : k <= n
  BY <1>1, <1>3
<1> QED
  BY <1>4 DEF FirstOf

(* acquire_all's promise: "any two callers locking overlapping sets ...    *)
(* cannot deadlock".  If nobody could move, the caller blocked on the      *)
(* greatest key would be blocked by one blocked on a greater key.          *)
THEOREM DeadlockFreedom == Spec => []NoDeadlock
<1>1. IInv => NoDeadlock
  <2> SUFFICES ASSUME IInv,
                      NEW p0 \in Procs, pc[p0] = "locking",
                      \A p \in Procs : pc[p] # "holding",
                      \A p \in Procs : \A k \in Keys :
                         WaitsFor(p, k) => \E q \in Procs : k \in held[q]
               PROVE  FALSE
    BY DEF NoDeadlock
  <2> DEFINE T == {k \in Keys : \E p \in Procs : WaitsFor(p, k)}
  <2>1. T # {}
    <3>1. todo[p0] \in SUBSET Keys /\ todo[p0] # {}
      BY DEF IInv, TypeOK, Shape
    <3>2. PICK k \in Keys : FirstOf(todo[p0], k)
      BY <3>1, LeastKey
    <3> QED
      BY <3>2 DEF WaitsFor
  <2>2. PICK m \in T : \A k \in T : k <= m
    <3>1. T \in SUBSET Keys
      OBVIOUS
    <3> HIDE DEF T
    <3> QED
      BY <2>1, <3>1, GreatestKey
  <2>3. PICK q \in Procs : m \in held[q]
    BY <2>2
  <2>4. pc[q] = "locking"
    BY <2>3 DEF IInv, TypeOK, Shape
  <2>5. PICK k \in Keys : FirstOf(todo[q], k)
    <3>1. todo[q] \in SUBSET Keys /\ todo[q] # {}
      BY <2>4 DEF IInv, TypeOK, Shape
    <3> QED
      BY <3>1, LeastKey
  <2>6. k \in T
    BY <2>4, <2>5 DEF WaitsFor
  <2>7. m < k
    BY <2>3, <2>5 DEF IInv, WaitsUpward, FirstOf
  <2>8. k <= m
    BY <2>2, <2>6
  <2> QED
    BY <2>7, <2>8 DEF Keys
<1> QED
  BY <1>1, Invariance, PTL

(* Locking the files one by one implements the atomic acquisition that the *)
(* lease code and the collector are written against.                       *)
THEOREM AcquireAllIsAtomic == Spec => AtomicSpec
<1> DEFINE own == [p \in Procs |-> IF pc[p] = "holding" THEN held[p] ELSE {}]
<1>1. Init => Atomic!Init
  BY DEF Init, Atomic!Init
<1>2. IInv /\ [Next]_vars => [Atomic!Next]_own
  <2> SUFFICES ASSUME IInv, [Next]_vars
               PROVE  Atomic!Next \/ own' = own
    OBVIOUS
  <2> USE DEF IInv, TypeOK
  <2>1. ASSUME NEW p \in Procs, NEW S \in SUBSET Keys, Call(p, S)
        PROVE  own' = own
    BY <2>1 DEF Call
  <2>2. ASSUME NEW p \in Procs, Acquire(p)
        PROVE  Atomic!Next \/ own' = own
    <3>1. PICK k \in Keys :
            /\ FirstOf(todo[p], k)
            /\ \A q \in Procs : k \notin held[q]
            /\ held' = [held EXCEPT ![p] = held[p] \cup {k}]
            /\ todo' = [todo EXCEPT ![p] = todo[p] \ {k}]
            /\ pc' = [pc EXCEPT ![p] = IF todo[p] = {k} THEN "holding" ELSE "locking"]
      BY <2>2 DEF Acquire
    <3>2. pc[p] = "locking"
      BY <2>2 DEF Acquire
    <3>3. CASE todo[p] # {k}
      BY <3>1, <3>2, <3>3
    <3>4. CASE todo[p] = {k}
      <4> DEFINE S == held[p] \cup {k}
      <4>1. own' = [own EXCEPT ![p] = S]
        BY <3>1, <3>4
      <4>2. own[p] = {} /\ S # {} /\ S \in SUBSET Keys
        BY <3>1, <3>2
      <4>3. \A q \in Procs \ {p} : own[q] \cap S = {}
        BY <3>1 DEF MutualExclusion
      <4>4. Atomic!Take(p)
        BY <4>1, <4>2, <4>3 DEF Atomic!Take, Atomic!Free, Atomic!Keys, Keys
      <4> QED
        BY <4>4 DEF Atomic!Next
    <3> QED
      BY <3>3, <3>4
  <2>3. ASSUME NEW p \in Procs, Abort(p)
        PROVE  own' = own
    BY <2>3 DEF Abort
  <2>4. ASSUME NEW p \in Procs, Release(p)
        PROVE  Atomic!Next
    <3>1. own[p] # {} /\ own' = [own EXCEPT ![p] = {}]
      BY <2>4 DEF Release, Shape
    <3>2. Atomic!Drop(p)
      BY <3>1 DEF Atomic!Drop
    <3> QED
      BY <3>2 DEF Atomic!Next
  <2>5. CASE UNCHANGED vars
    BY <2>5 DEF vars
  <2> QED
    BY <2>1, <2>2, <2>3, <2>4, <2>5 DEF Next
<1> QED
  BY <1>1, <1>2, Invariance, PTL DEF Spec, AtomicSpec, Atomic!Spec

(***************************************************************************)
(* The schema of the index.                                                *)
(***************************************************************************)
MigrationSteps == {"start", "v1", "again", "v2", "verify", "open", "failed", "gone"}
SchemaInv == mpc \in [Connections -> MigrationSteps] /\ OpenedSchemaWhole

(* No step drops an object, and verify looks for all of them. *)
LEMMA SchemaStep ==
    ASSUME SchemaInv, [SchemaNext]_schemaVars
    PROVE  SchemaInv'
  <1> USE DEF SchemaInv, MigrationSteps, OpenedSchemaWhole
  <1>1. CASE UNCHANGED schemaVars
    BY <1>1 DEF schemaVars
  <1>2. ASSUME NEW c \in Connections, ReadVersion(c) PROVE SchemaInv'
    BY <1>2 DEF ReadVersion, Step
  <1>3. ASSUME NEW c \in Connections, MigrateV1(c) PROVE SchemaInv'
    BY <1>3 DEF MigrateV1, Step
  <1>4. ASSUME NEW c \in Connections, ReadAgain(c) PROVE SchemaInv'
    BY <1>4 DEF ReadAgain, Step
  <1>5. ASSUME NEW c \in Connections, MigrateV2(c) PROVE SchemaInv'
    BY <1>5 DEF MigrateV2, Step
  <1>6. ASSUME NEW c \in Connections, Verify(c) PROVE SchemaInv'
    BY <1>6 DEF Verify, Step
  <1>7. ASSUME NEW c \in Connections, GiveUp(c) PROVE SchemaInv'
    BY <1>7 DEF GiveUp, Step
  <1> QED
    BY <1>1, <1>2, <1>3, <1>4, <1>5, <1>6, <1>7 DEF SchemaNext

(***************************************************************************)
(* A lease on a clock.                                                     *)
(***************************************************************************)
LeaseTypeOK ==
    /\ options \in Options
    /\ now \in 1 .. MaxTime /\ asked \in Nat /\ wake \in Nat /\ expiry \in Nat /\ missed \in Nat
    /\ row \in [LeaseKeys -> Nat]
    /\ lost \in BOOLEAN

(* Before the heartbeat runs, rows are older than what spawn_heartbeat     *)
(* will take them to be by a wait at most.                                 *)
LeaseFresh ==
    /\ phase = "none" => Rows = {}
    /\ phase \in {"none", "spawn"} => ~lost /\ missed = 0 /\ asked = Unasked
    /\ phase = "spawn" => ValidOptions /\ \A k \in Rows : now + Ttl <= row[k] + BusyWait

(* When the renewal under way was asked for, or the next one will be. *)
Due == IF asked = Unasked THEN wake ELSE asked

(* While it runs, the expiry it knows is no later than what the rows say   *)
(* by more than a wait, and it renews before that expiry is a renewal      *)
(* period and a wait ago; how far away its next renewal can be follows     *)
(* from the renewals it missed.                                            *)
HeartbeatOnTime ==
    /\ now <= wake /\ expiry <= now + Ttl
    /\ \A k \in Rows : expiry <= row[k] + BusyWait
    /\ Due < expiry + RenewEvery + BusyWait
    /\ missed = 0 => Due + Ttl <= expiry + RenewEvery + BusyWait
    /\ missed = 1 => Due + Ttl <= expiry + 2 * RenewEvery + 2 * BusyWait
    /\ asked # Unasked => asked <= now /\ wake = asked + BusyWait /\ expiry <= asked + Ttl

LeaseHeld ==
    phase = "held" =>
        /\ ValidOptions
        /\ lost => wake = Never /\ asked = Unasked /\ (Prompt => missed >= 2)
        /\ ~lost => HeartbeatOnTime

LeaseInv == LeaseTypeOK /\ LeaseFresh /\ LeaseHeld

(* The options are two numbers. *)
LEMMA OptionsAreNumbers ==
    ASSUME LeaseTypeOK
    PROVE  Ttl \in Nat /\ RenewEvery \in Nat /\ BusyWait \in Nat /\ MaxTime \in Nat
  BY LeaseAssumption DEF LeaseTypeOK, Ttl, RenewEvery

(* The initial state. *)
LEMMA LeaseStart == LeaseInit => LeaseInv
  <1> SUFFICES ASSUME LeaseInit PROVE LeaseInv
    OBVIOUS
  <1>1. Options \subseteq Nat \X Nat /\ BusyWait \in Nat /\ MaxTime \in Nat \ {0}
    BY LeaseAssumption
  <1>2. LeaseTypeOK
    <2>1. now \in 1 .. MaxTime /\ asked \in Nat /\ wake \in Nat /\ expiry \in Nat /\ missed \in Nat
      BY <1>1 DEF LeaseInit, Never, Unasked
    <2>2. lost \in BOOLEAN
      BY DEF LeaseInit
    <2>3. row \in [LeaseKeys -> Nat] /\ options \in Options
      BY DEF LeaseInit, Absent
    <2> QED
      BY <2>1, <2>2, <2>3 DEF LeaseTypeOK
  <1>3. Rows = {} /\ phase = "none" /\ ~lost /\ missed = 0 /\ asked = Unasked
    BY DEF LeaseInit, Rows, Absent
  <1> QED
    BY <1>2, <1>3 DEF LeaseInv, LeaseFresh, LeaseHeld

(* Steps that leave the heartbeat's knowledge alone: rows may go, and rows *)
(* may be inserted that live from now.                                     *)
LEMMA RowsChange ==
    ASSUME LeaseInv, options' = options, now' = now, expiry' = expiry, asked' = asked, wake' = wake,
           lost' = lost, missed' = missed, phase' = phase, phase = "spawn" => Rows' \subseteq Rows,
           row' \in [LeaseKeys -> Nat], phase # "none",
           \A k \in Rows' : (k \in Rows /\ row'[k] = row[k]) \/ now + Ttl <= row'[k] + BusyWait
    PROVE  LeaseInv'
  <1>1. Ttl \in Nat /\ RenewEvery \in Nat /\ BusyWait \in Nat /\ MaxTime \in Nat /\ Ttl' = Ttl /\ RenewEvery' = RenewEvery
    BY OptionsAreNumbers DEF LeaseInv, Ttl, RenewEvery
  <1>2. LeaseTypeOK'
    BY DEF LeaseInv, LeaseTypeOK
  <1>3. now \in Nat /\ expiry \in Nat /\ row \in [LeaseKeys -> Nat] /\ Rows' \subseteq LeaseKeys
    BY DEF LeaseInv, LeaseTypeOK, Rows
  <1>4. LeaseFresh'
    BY <1>1, <1>3 DEF LeaseInv, LeaseFresh, ValidOptions, Unasked
  <1>5. ASSUME HeartbeatOnTime PROVE HeartbeatOnTime'
    BY <1>1, <1>3, <1>5 DEF HeartbeatOnTime, Due, Unasked
  <1>6. LeaseHeld'
    BY <1>1, <1>5 DEF LeaseInv, LeaseHeld, ValidOptions, Never, Unasked, Prompt
  <1> QED
    BY <1>2, <1>4, <1>6 DEF LeaseInv

(* insert_lease: the new rows are a wait older than the present at most. *)
LEMMA Inserted ==
    ASSUME NEW S, InsertLease(S), row \in [LeaseKeys -> Nat], now \in Nat, Ttl \in Nat, BusyWait \in Nat
    PROVE  /\ row' \in [LeaseKeys -> Nat]
           /\ \A k \in LeaseKeys : row'[k] = row[k] \/ now + Ttl <= row'[k] + BusyWait
  <1>1. PICK t \in ReadAt : row' = [k \in LeaseKeys |-> IF k \in S THEN t + Ttl ELSE row[k]]
    BY DEF InsertLease
  <1>2. t \in Nat /\ now <= t + BusyWait
    BY DEF ReadAt
  <1> QED
    BY <1>1, <1>2

(* acquire_lease. *)
LEMMA AcquireStep ==
    ASSUME LeaseInv, NEW S \in SUBSET LeaseKeys, AcquireLease(S)
    PROVE  LeaseInv'
  <1>1. Ttl \in Nat /\ RenewEvery \in Nat /\ BusyWait \in Nat /\ Ttl' = Ttl /\ RenewEvery' = RenewEvery
    BY OptionsAreNumbers DEF LeaseInv, Ttl, RenewEvery, AcquireLease
  <1>2. row \in [LeaseKeys -> Nat] /\ now \in Nat /\ Rows = {} /\ phase = "none" /\ now' = now
    BY DEF LeaseInv, LeaseTypeOK, LeaseFresh, AcquireLease
  <1>3. \A k \in LeaseKeys : row[k] = Absent
    BY <1>2 DEF Rows
  <1>4. row' \in [LeaseKeys -> Nat] /\ \A k \in LeaseKeys : row'[k] = Absent \/ now + Ttl <= row'[k] + BusyWait
    <2>1. CASE InsertLease(S)
      BY <2>1, <1>1, <1>2, <1>3, Inserted
    <2>2. CASE row' = row
      BY <2>2, <1>2, <1>3
    <2> QED
      BY <2>1, <2>2 DEF AcquireLease
  <1>5. LeaseTypeOK'
    BY <1>4 DEF LeaseInv, LeaseTypeOK, AcquireLease
  <1>6. phase' = "spawn" => ValidOptions'
    BY <1>1, <1>2 DEF AcquireLease, ValidOptions
  <1>7. phase' \in {"spawn", "refused"} /\ (lost' <=> lost) /\ missed' = missed /\ asked' = asked
    BY DEF AcquireLease
  <1>8. \A k \in Rows' : now' + Ttl' <= row'[k] + BusyWait
    BY <1>1, <1>2, <1>4 DEF Rows, Absent
  <1>9. LeaseFresh'
    BY <1>2, <1>6, <1>7, <1>8 DEF LeaseInv, LeaseFresh, Unasked
  <1> QED
    BY <1>5, <1>7, <1>9 DEF LeaseInv, LeaseHeld

(* spawn_heartbeat. *)
LEMMA SpawnStep ==
    ASSUME LeaseInv, Spawn
    PROVE  LeaseInv'
  <1>1. Ttl \in Nat /\ RenewEvery \in Nat /\ BusyWait \in Nat /\ Ttl' = Ttl /\ RenewEvery' = RenewEvery /\ Rows' = Rows
    BY OptionsAreNumbers DEF LeaseInv, Ttl, RenewEvery, Spawn, Rows
  <1>2. row \in [LeaseKeys -> Nat] /\ now \in Nat /\ phase = "spawn" /\ phase' = "held" /\ row' = row
        /\ now' = now /\ expiry' = now + Ttl /\ wake' = now + RenewEvery /\ missed' = missed /\ (lost' <=> lost)
        /\ asked' = asked
    BY DEF LeaseInv, LeaseTypeOK, Spawn
  <1>3. ValidOptions /\ ~lost /\ missed = 0 /\ asked = Unasked /\ \A k \in Rows : now + Ttl <= row[k] + BusyWait
    BY <1>2 DEF LeaseInv, LeaseFresh
  <1>4. LeaseTypeOK'
    BY <1>1, <1>2 DEF LeaseInv, LeaseTypeOK, Spawn
  <1>5. HeartbeatOnTime' /\ ValidOptions'
    BY <1>1, <1>2, <1>3 DEF HeartbeatOnTime, ValidOptions, Due, Unasked
  <1>6. LeaseFresh' /\ LeaseHeld'
    BY <1>2, <1>3, <1>5 DEF LeaseFresh, LeaseHeld
  <1> QED
    BY <1>4, <1>6 DEF LeaseInv

(* The heartbeat asks for a renewal. *)
LEMMA BeginStep ==
    ASSUME LeaseInv, BeginRenewal
    PROVE  LeaseInv'
  <1>1. Ttl \in Nat /\ RenewEvery \in Nat /\ BusyWait \in Nat /\ MaxTime \in Nat /\ Ttl' = Ttl
        /\ RenewEvery' = RenewEvery /\ Rows' = Rows
    BY OptionsAreNumbers DEF LeaseInv, Ttl, RenewEvery, BeginRenewal, Rows
  <1>2. /\ row \in [LeaseKeys -> Nat] /\ now \in 1 .. MaxTime /\ expiry \in Nat /\ wake \in Nat /\ missed \in Nat
        /\ Rows \subseteq LeaseKeys
    BY DEF LeaseInv, LeaseTypeOK, Rows
  <1>3. /\ phase = "held" /\ asked = Unasked /\ wake <= now /\ asked' = now /\ wake' = now + BusyWait
        /\ now' = now /\ row' = row /\ expiry' = expiry /\ missed' = missed /\ phase' = phase /\ lost' = lost
    BY DEF BeginRenewal
  <1>4. ~lost
    BY <1>1, <1>2, <1>3 DEF LeaseInv, LeaseHeld, Never
  <1>5. ValidOptions /\ HeartbeatOnTime
    BY <1>3, <1>4 DEF LeaseInv, LeaseHeld
  <1>6. LeaseTypeOK'
    BY <1>1, <1>2, <1>3 DEF LeaseInv, LeaseTypeOK, BeginRenewal
  <1>7. now = wake
    BY <1>2, <1>3, <1>5 DEF HeartbeatOnTime
  <1>8. Due' = now /\ Due = now
    BY <1>2, <1>3, <1>7 DEF Due, Unasked
  <1>9. HeartbeatOnTime'
    BY <1>1, <1>2, <1>3, <1>5, <1>7, <1>8 DEF HeartbeatOnTime
  <1>10. ValidOptions'
    BY <1>1, <1>5 DEF ValidOptions
  <1> QED
    BY <1>3, <1>4, <1>6, <1>9, <1>10 DEF LeaseInv, LeaseFresh, LeaseHeld

(* A renewal that ends, whatever came of it: none of the rows is worse off *)
(* than the expiry that was known.                                         *)
LEMMA JudgeStep ==
    ASSUME LeaseInv, NEW renewed \in BOOLEAN, phase = "held", asked # Unasked, Judge(renewed),
           now' = now, options' = options, phase' = phase, row' \in [LeaseKeys -> Nat],
           renewed => \A k \in Rows' : row'[k] = asked + Ttl,
           \A k \in Rows' : (k \in Rows /\ row'[k] = row[k]) \/ row'[k] = asked + Ttl
    PROVE  LeaseInv'
  <1>1. Ttl \in Nat /\ RenewEvery \in Nat /\ BusyWait \in Nat /\ MaxTime \in Nat /\ Ttl' = Ttl
        /\ RenewEvery' = RenewEvery
    BY OptionsAreNumbers DEF LeaseInv, Ttl, RenewEvery
  <1>2. /\ row \in [LeaseKeys -> Nat] /\ now \in 1 .. MaxTime /\ expiry \in Nat /\ wake \in Nat /\ missed \in Nat
        /\ asked \in Nat /\ Rows' \subseteq LeaseKeys
    BY DEF LeaseInv, LeaseTypeOK, Rows
  <1>3. ~lost
    BY DEF LeaseInv, LeaseHeld
  <1>4. ValidOptions /\ HeartbeatOnTime
    BY <1>3 DEF LeaseInv, LeaseHeld
  <1>5. /\ asked <= now /\ now <= asked + BusyWait /\ expiry <= asked + Ttl /\ Due = asked
        /\ RenewEvery > 0 /\ Ttl >= 3 * RenewEvery
    BY <1>1, <1>2, <1>4 DEF HeartbeatOnTime, ValidOptions, Due
  <1>6. lost' \in BOOLEAN /\ (lost' <=> ~renewed /\ asked >= expiry) /\ asked' = Unasked
    BY DEF Judge
  <1>7. LeaseTypeOK'
    <2>1. expiry' \in Nat /\ missed' \in Nat /\ wake' \in Nat /\ asked' \in Nat
      BY <1>1, <1>2, <1>6 DEF Judge, Never, Unasked
    <2> QED
      BY <2>1, <1>2, <1>6 DEF LeaseInv, LeaseTypeOK
  <1>8. ASSUME lost' PROVE wake' = Never' /\ asked' = Unasked' /\ (Prompt' => missed' >= 2)
    <2>1. ~renewed /\ asked >= expiry /\ missed' = missed + 1 /\ wake' = Never
      BY <1>6, <1>8 DEF Judge
    <2>2. ASSUME Prompt PROVE missed # 0
      BY <2>1, <2>2, <1>1, <1>2, <1>4, <1>5 DEF HeartbeatOnTime, Prompt
    <2>3. Prompt' <=> Prompt
      BY <1>1 DEF Prompt
    <2> QED
      BY <2>1, <2>2, <2>3, <1>2, <1>6 DEF Never, Unasked
  <1>9. ASSUME ~lost' PROVE HeartbeatOnTime'
    <2>0. wake' = now + RenewEvery /\ Due' = now + RenewEvery
      BY <1>6, <1>9 DEF Judge, Due, Unasked
    <2>1. CASE renewed
      <3>1. expiry' = asked + Ttl /\ missed' = 0
        BY <2>1 DEF Judge
      <3> QED
        BY <3>1, <2>0, <2>1, <1>1, <1>2, <1>5, <1>6 DEF HeartbeatOnTime, Unasked
    <2>2. CASE ~renewed
      <3>1. expiry' = expiry /\ missed' = missed + 1 /\ asked < expiry
        BY <2>2, <1>2, <1>6, <1>9 DEF Judge
      <3>2. \A k \in Rows' : expiry' <= row'[k] + BusyWait
        BY <3>1, <1>1, <1>2, <1>4, <1>5 DEF HeartbeatOnTime
      <3> QED
        BY <3>1, <3>2, <2>0, <1>1, <1>2, <1>4, <1>5, <1>6 DEF HeartbeatOnTime, Unasked
    <2> QED
      BY <2>1, <2>2
  <1>10. ValidOptions'
    BY <1>1, <1>4 DEF ValidOptions
  <1> QED
    BY <1>7, <1>8, <1>9, <1>10 DEF LeaseInv, LeaseFresh, LeaseHeld

(* The clock advances only up to the moment the heartbeat is due. *)
LEMMA TickStep ==
    ASSUME LeaseInv, Tick
    PROVE  LeaseInv'
  <1>1. Ttl \in Nat /\ RenewEvery \in Nat /\ BusyWait \in Nat /\ MaxTime \in Nat /\ Ttl' = Ttl /\ RenewEvery' = RenewEvery
        /\ Rows' = Rows
    BY OptionsAreNumbers DEF LeaseInv, Ttl, RenewEvery, Tick, Rows
  <1>2. /\ row \in [LeaseKeys -> Nat] /\ now \in 1 .. MaxTime /\ expiry \in Nat /\ wake \in Nat /\ missed \in Nat
        /\ Rows \subseteq LeaseKeys
    BY DEF LeaseInv, LeaseTypeOK, Rows
  <1>3. /\ now < MaxTime /\ wake > now /\ now' = now + 1 /\ row' = row /\ expiry' = expiry /\ wake' = wake
        /\ asked' = asked /\ missed' = missed /\ phase' = phase /\ lost' = lost /\ phase # "spawn"
    BY DEF Tick
  <1>4. LeaseTypeOK'
    <2>1. now' \in 1 .. MaxTime
      BY <1>1, <1>2, <1>3
    <2> QED
      BY <2>1, <1>2, <1>3 DEF LeaseInv, LeaseTypeOK, Tick
  <1>5. LeaseFresh'
    BY <1>1, <1>3 DEF LeaseInv, LeaseFresh, Unasked
  <1>6. ASSUME HeartbeatOnTime PROVE HeartbeatOnTime'
    <2>1. asked \in Nat /\ Due' = Due
      BY <1>3 DEF LeaseInv, LeaseTypeOK, Due, Unasked
    <2> QED
      BY <2>1, <1>1, <1>2, <1>3, <1>6 DEF HeartbeatOnTime, Unasked
  <1>7. LeaseHeld'
    BY <1>1, <1>3, <1>6 DEF LeaseInv, LeaseHeld, ValidOptions, Never, Unasked, Prompt
  <1> QED
    BY <1>4, <1>5, <1>7 DEF LeaseInv

(* Every step of a lease keeps the invariant. *)
LEMMA LeaseStep ==
    ASSUME LeaseInv, [LeaseNext]_leaseVars
    PROVE  LeaseInv'
  <1>1. row \in [LeaseKeys -> Nat] /\ Ttl \in Nat /\ BusyWait \in Nat /\ now \in Nat /\ asked \in Nat
    BY OptionsAreNumbers DEF LeaseInv, LeaseTypeOK
  <1>2. CASE UNCHANGED leaseVars
    BY <1>2 DEF leaseVars, LeaseInv, LeaseTypeOK, LeaseFresh, LeaseHeld, HeartbeatOnTime, Rows, ValidOptions,
       Ttl, RenewEvery, Never, Unasked, Due, Prompt
  <1>3. ASSUME NEW S \in SUBSET LeaseKeys, AcquireLease(S) PROVE LeaseInv'
    BY <1>3, AcquireStep
  <1>4. ASSUME NEW S \in SUBSET LeaseKeys, Extend(S) PROVE LeaseInv'
    <2>1. /\ row' \in [LeaseKeys -> Nat]
          /\ \A k \in Rows' : (k \in Rows /\ row'[k] = row[k]) \/ now + Ttl <= row'[k] + BusyWait
      BY <1>1, <1>4, Inserted DEF Extend, Rows, Absent
    <2> QED
      BY <2>1, <1>4, RowsChange DEF Extend
  <1>5. ASSUME NEW k \in LeaseKeys, Repair(k) PROVE LeaseInv'
    <2>1. row' \in [LeaseKeys -> Nat] /\ Rows' \subseteq Rows /\ \A j \in Rows' : j \in Rows /\ row'[j] = row[j]
      BY <1>1, <1>5 DEF Repair, Rows, Absent
    <2>2. phase # "none"
      BY <1>5 DEF Repair, LeaseInv, LeaseFresh, Rows
    <2> QED
      BY <2>1, <2>2, <1>5, RowsChange DEF Repair
  <1>6. CASE Spawn
    BY <1>6, SpawnStep
  <1>7. CASE Renew
    <2> PICK renewed : renewed = (Rows # {} /\ LiveRows(asked) = Rows)
      OBVIOUS
    <2>1. /\ row' \in [LeaseKeys -> Nat]
          /\ \A k \in Rows' : (k \in Rows /\ row'[k] = row[k]) \/ row'[k] = asked + Ttl
      BY <1>1, <1>7 DEF Renew, Rows
    <2>2. LiveRows(asked) = Rows => \A k \in Rows' : row'[k] = asked + Ttl
      BY <1>1, <1>7 DEF Renew, Rows
    <2> QED
      BY <2>1, <2>2, <1>7, JudgeStep DEF Renew
  <1>8. CASE RenewFails
    <2>1. Rows' = Rows
      BY <1>8 DEF RenewFails, Rows
    <2> QED
      BY <2>1, <1>1, <1>8, JudgeStep DEF RenewFails
  <1>9. CASE Check \/ ReleaseLease
    <2>1. phase' \in {"failed", "released"} /\ wake' = Never /\ row' = [k \in LeaseKeys |-> Absent]
          /\ options' = options /\ now' = now /\ expiry' = expiry /\ asked' = asked /\ missed' = missed /\ lost' = lost
      BY <1>9 DEF Check, ReleaseLease
    <2>2. MaxTime \in Nat
      BY LeaseAssumption
    <2>3. LeaseTypeOK'
      BY <2>1, <2>2 DEF LeaseInv, LeaseTypeOK, Never, Absent
    <2> QED
      BY <2>1, <2>3 DEF LeaseInv, LeaseFresh, LeaseHeld
  <1>10. CASE Tick
    BY <1>10, TickStep
  <1>11. CASE BeginRenewal
    BY <1>11, BeginStep
  <1> QED
    BY <1>2, <1>3, <1>4, <1>5, <1>6, <1>7, <1>8, <1>9, <1>10, <1>11 DEF LeaseNext

(* What the invariant says about the properties of the run. *)
LEMMA LeaseSafe ==
    ASSUME LeaseInv
    PROVE  LossNoticed /\ OneMissTolerated
  <1>1. Ttl \in Nat /\ RenewEvery \in Nat /\ BusyWait \in Nat
    BY OptionsAreNumbers DEF LeaseInv
  <1>2. /\ row \in [LeaseKeys -> Nat] /\ now \in Nat /\ expiry \in Nat /\ wake \in Nat /\ missed \in Nat
        /\ asked \in Nat /\ Rows \subseteq LeaseKeys
    BY DEF LeaseInv, LeaseTypeOK, Rows
  <1>3. ASSUME phase = "held", ~lost
        PROVE  ValidOptions /\ HeartbeatOnTime /\ now <= Due + BusyWait
    <2>1. ValidOptions /\ HeartbeatOnTime
      BY <1>3 DEF LeaseInv, LeaseHeld
    <2> QED
      BY <2>1, <1>1, <1>2 DEF HeartbeatOnTime, Due
  <1>4. Due \in Nat
    BY <1>2 DEF Due
  <1>5. LossNoticed
    BY <1>1, <1>2, <1>3, <1>4 DEF LossNoticed, HeartbeatOnTime
  <1>6. ASSUME phase = "held", missed <= 1, Prompt PROVE ~lost /\ LiveRows(now) = Rows
    <2>1. ~lost
      BY <1>2, <1>6 DEF LeaseInv, LeaseHeld
    <2>2. ASSUME NEW k \in Rows PROVE row[k] > now
      <3>1. missed = 0 \/ missed = 1
        BY <1>2, <1>6
      <3> QED
        BY <3>1, <2>1, <2>2, <1>1, <1>2, <1>3, <1>4, <1>6 DEF HeartbeatOnTime, ValidOptions, Prompt
    <2> QED
      BY <2>1, <2>2 DEF LiveRows
  <1> QED
    BY <1>5, <1>6 DEF OneMissTolerated

(***************************************************************************)
(* The ownership of a graph by a project.                                  *)
(***************************************************************************)
RegistrationTypeOK ==
    /\ stamped \in Nat
    /\ tmp \subseteq RegistrationFiles
    /\ file \in [Roots -> RegistrationFiles \cup {NoRecord}]
    /\ refs \in [Roots -> ProjectRefs \cup {NoRecord}]
    /\ want \in [Roots -> ProjectRefs \cup {NoRecord}]
    /\ attached \in [Roots -> GraphIds \cup {NoRecord}]
    /\ rpc \in [Roots -> {"idle", "write", "rename", "stamp", "commit", "done", "failed"}]

(* No record is of the future. *)
StampsPast ==
    /\ \A t \in tmp : t.at <= stamped
    /\ \A p \in Roots :
          /\ file[p] # NoRecord => file[p].at <= stamped
          /\ refs[p] # NoRecord => refs[p].at <= stamped
          /\ want[p] # NoRecord => want[p].at <= stamped

(* What finalize_project of p has done so far: the temporary file of its   *)
(* time is its own, the file under its key is of its root, and the time of *)
(* its row is later than any the row could have.                           *)
Finalizing(p) ==
    /\ file[p] # NoRecord => file[p].root = p
    /\ rpc[p] \in {"write", "rename", "stamp", "commit"} => want[p] # NoRecord /\ want[p].graph = attached[p]
    /\ rpc[p] = "rename" => \A t \in tmp : t.at = want[p].at => t.root = p /\ t.graph = want[p].graph
    /\ rpc[p] \in {"stamp", "commit", "done"} => file[p] # NoRecord /\ file[p].graph = attached[p]
    /\ rpc[p] = "commit" => /\ file[p].at < want[p].at
                            /\ refs[p] # NoRecord => refs[p].at < want[p].at
    /\ rpc[p] = "done" /\ refs[p] # NoRecord => refs[p].graph = attached[p]

RegistrationInv == ~SameMs /\ RegistrationTypeOK /\ StampsPast /\ \A p \in Roots : Finalizing(p)

(* The initial state. *)
LEMMA RegistrationStart == ~SameMs /\ RegistrationInit => RegistrationInv
  <1> SUFFICES ASSUME ~SameMs, RegistrationInit PROVE RegistrationInv
    OBVIOUS
  <1>1. RegistrationTypeOK
    BY DEF RegistrationInit, RegistrationTypeOK
  <1>2. StampsPast
    BY DEF RegistrationInit, StampsPast
  <1>3. \A p \in Roots : Finalizing(p)
    BY DEF RegistrationInit, Finalizing
  <1> QED
    BY <1>1, <1>2, <1>3 DEF RegistrationInv

(* The fields of the records that are there. *)
LEMMA RegistrationFields ==
    ASSUME RegistrationTypeOK
    PROVE  /\ \A t \in tmp : t.at \in Nat
           /\ \A p \in Roots : /\ file[p] # NoRecord => file[p] \in RegistrationFiles /\ file[p].at \in Nat
                               /\ refs[p] # NoRecord => refs[p] \in ProjectRefs /\ refs[p].at \in Nat
                               /\ want[p] # NoRecord => want[p] \in ProjectRefs /\ want[p].at \in Nat
  <1>1. \A f \in RegistrationFiles : f.at \in Nat
    BY DEF RegistrationFiles
  <1>2. \A f \in ProjectRefs : f.at \in Nat
    BY DEF ProjectRefs
  <1> QED
    BY <1>1, <1>2 DEF RegistrationTypeOK

(* What one project does touches no other's record, but for temporary      *)
(* files, whose times are never used twice.                                *)
LEMMA OthersFinalizing ==
    ASSUME RegistrationInv, NEW p \in Roots, NEW q \in Roots, q # p,
           file'[q] = file[q], refs'[q] = refs[q], want'[q] = want[q], rpc'[q] = rpc[q], attached'[q] = attached[q],
           \A t \in tmp' : t \in tmp \/ t.at > stamped
    PROVE  Finalizing(q)'
  <1>1. rpc[q] = "rename" => want[q] # NoRecord /\ want[q].at <= stamped
    BY DEF RegistrationInv, Finalizing, StampsPast
  <1>2. want[q] # NoRecord => want[q].at \in Nat
    BY RegistrationFields DEF RegistrationInv
  <1>3. stamped \in Nat /\ Finalizing(q)
    BY DEF RegistrationInv, RegistrationTypeOK
  <1>4. ASSUME rpc'[q] = "rename", NEW t \in tmp', t.at = want'[q].at
        PROVE  t.root = q /\ t.graph = want'[q].graph
    BY <1>1, <1>2, <1>3, <1>4 DEF Finalizing
  <1> QED
    BY <1>3, <1>4 DEF Finalizing

(* A new stamp is later than every record. *)
LEMMA StampEffect ==
    ASSUME RegistrationInv, NEW p \in Roots, Stamp(p), want[p] # NoRecord
    PROVE  /\ stamped' = stamped + 1 /\ stamped' \in Nat
           /\ want' \in [Roots -> ProjectRefs \cup {NoRecord}]
           /\ want'[p] # NoRecord /\ want'[p].at = stamped' /\ want'[p].graph = want[p].graph
           /\ \A q \in Roots \ {p} : want'[q] = want[q]
  <1>1. stamped' = stamped + 1 /\ stamped' \in Nat
    BY DEF RegistrationInv, RegistrationTypeOK, Stamp
  <1>2. want[p] \in ProjectRefs
    BY RegistrationFields DEF RegistrationInv
  <1>3. want \in [Roots -> ProjectRefs \cup {NoRecord}] /\ want' = [want EXCEPT ![p].at = stamped']
    BY DEF RegistrationInv, RegistrationTypeOK, Stamp
  <1>4. want'[p] = [want[p] EXCEPT !.at = stamped'] /\ \A q \in Roots \ {p} : want'[q] = want[q]
    BY <1>3
  <1>5. want'[p] \in ProjectRefs /\ want'[p].at = stamped' /\ want'[p].graph = want[p].graph
    BY <1>1, <1>2, <1>4 DEF ProjectRefs
  <1>6. want' \in [Roots -> ProjectRefs \cup {NoRecord}]
    BY <1>3, <1>4, <1>5
  <1> QED
    BY <1>1, <1>4, <1>5, <1>6, RegistrationAssumption

(* finalize_project begins, and skips what is current. *)
LEMMA FinalizeStep ==
    ASSUME RegistrationInv, NEW p \in Roots, NEW g \in GraphIds, Finalize(p, g)
    PROVE  RegistrationInv'
  <1> PICK w : w = [graph |-> g, at |-> 0]
    OBVIOUS
  <1>1. w \in ProjectRefs /\ w.graph = g /\ w.at = 0 /\ w # NoRecord
    BY RegistrationAssumption DEF ProjectRefs
  <1>2. stamped' = stamped /\ tmp' = tmp /\ file' = file /\ refs' = refs /\ want' = [want EXCEPT ![p] = w]
        /\ attached' = [attached EXCEPT ![p] = g]
        /\ rpc' = [rpc EXCEPT ![p] = IF Current(p, g) THEN "done" ELSE "write"]
    BY DEF Finalize
  <1>3. RegistrationTypeOK'
    BY <1>1, <1>2 DEF RegistrationInv, RegistrationTypeOK
  <1>4. /\ want'[p] = w /\ attached'[p] = g /\ rpc'[p] \in {"done", "write"} /\ (rpc'[p] = "done" => Current(p, g))
        /\ \A q \in Roots \ {p} : want'[q] = want[q] /\ attached'[q] = attached[q] /\ rpc'[q] = rpc[q]
    BY <1>2 DEF RegistrationInv, RegistrationTypeOK
  <1>5. stamped \in Nat
    BY DEF RegistrationInv, RegistrationTypeOK
  <1>6. StampsPast'
    BY <1>1, <1>2, <1>4, <1>5 DEF RegistrationInv, StampsPast
  <1>7. Finalizing(p)'
    BY <1>1, <1>2, <1>4 DEF RegistrationInv, Finalizing, Current, Names
  <1>8. ASSUME NEW q \in Roots, q # p PROVE Finalizing(q)'
    BY <1>2, <1>4, <1>8, OthersFinalizing
  <1> QED
    BY <1>3, <1>6, <1>7, <1>8 DEF RegistrationInv

(* write_registration_file, up to the temporary file. *)
LEMMA WriteTemporaryStep ==
    ASSUME RegistrationInv, NEW p \in Roots, WriteTemporary(p)
    PROVE  RegistrationInv'
  <1>1. rpc[p] = "write" /\ want[p] # NoRecord /\ want[p].graph = attached[p] /\ want[p] \in ProjectRefs
    BY RegistrationFields DEF RegistrationInv, Finalizing, WriteTemporary
  <1>2. /\ stamped' = stamped + 1 /\ stamped' \in Nat /\ stamped \in Nat
        /\ want' \in [Roots -> ProjectRefs \cup {NoRecord}]
        /\ want'[p] # NoRecord /\ want'[p].at = stamped' /\ want'[p].graph = want[p].graph
        /\ \A q \in Roots \ {p} : want'[q] = want[q]
    BY <1>1, StampEffect DEF WriteTemporary, RegistrationInv, RegistrationTypeOK
  <1> PICK f : f = [graph |-> want[p].graph, at |-> stamped', root |-> p]
    OBVIOUS
  <1>3. f \in RegistrationFiles /\ f.at = stamped' /\ f.root = p /\ f.graph = want[p].graph
    BY <1>1, <1>2 DEF RegistrationFiles, ProjectRefs
  <1>4. tmp' \subseteq tmp \cup {f} /\ file' = file /\ refs' = refs /\ attached' = attached
        /\ rpc' = [rpc EXCEPT ![p] = "rename"]
    BY DEF WriteTemporary
  <1>5. RegistrationTypeOK'
    BY <1>2, <1>3, <1>4 DEF RegistrationInv, RegistrationTypeOK
  <1>6. rpc'[p] = "rename" /\ \A q \in Roots \ {p} : rpc'[q] = rpc[q]
    BY <1>4 DEF RegistrationInv, RegistrationTypeOK
  <1>7. \A t \in tmp : t.at \in Nat /\ t.at <= stamped
    BY RegistrationFields DEF RegistrationInv, StampsPast
  <1>8. StampsPast'
    BY <1>2, <1>3, <1>4, <1>7, RegistrationFields DEF RegistrationInv, StampsPast
  <1>9. Finalizing(p)'
    BY <1>1, <1>2, <1>3, <1>4, <1>6, <1>7 DEF RegistrationInv, Finalizing
  <1>10. ASSUME NEW q \in Roots, q # p PROVE Finalizing(q)'
    BY <1>2, <1>3, <1>4, <1>6, <1>10, OthersFinalizing
  <1> QED
    BY <1>5, <1>8, <1>9, <1>10 DEF RegistrationInv

(* ... and its rename to the project's key. *)
LEMMA RenameTemporaryStep ==
    ASSUME RegistrationInv, NEW p \in Roots, RenameTemporary(p)
    PROVE  RegistrationInv'
  <1>1. rpc[p] = "rename" /\ want[p] # NoRecord /\ want[p].graph = attached[p]
        /\ (\A t \in tmp : t.at = want[p].at => t.root = p /\ t.graph = want[p].graph)
    BY DEF RegistrationInv, Finalizing, RenameTemporary
  <1>2. tmp' \subseteq tmp /\ stamped' = stamped /\ refs' = refs /\ want' = want /\ attached' = attached
    BY DEF RenameTemporary
  <1>3. CASE file' = file /\ rpc' = [rpc EXCEPT ![p] = "failed"]
    <2>1. RegistrationTypeOK'
      BY <1>2, <1>3 DEF RegistrationInv, RegistrationTypeOK
    <2>2. rpc'[p] = "failed" /\ \A q \in Roots \ {p} : rpc'[q] = rpc[q]
      BY <1>3 DEF RegistrationInv, RegistrationTypeOK
    <2>3. StampsPast'
      BY <1>2, <1>3 DEF RegistrationInv, StampsPast
    <2>4. Finalizing(p)'
      BY <1>3, <2>2 DEF RegistrationInv, Finalizing
    <2>5. ASSUME NEW q \in Roots, q # p PROVE Finalizing(q)'
      BY <1>2, <1>3, <2>2, <2>5, OthersFinalizing
    <2> QED
      BY <2>1, <2>3, <2>4, <2>5 DEF RegistrationInv
  <1>4. ASSUME NEW t \in tmp, t.at = want[p].at, file' = [file EXCEPT ![p] = t], rpc' = [rpc EXCEPT ![p] = "stamp"]
        PROVE  RegistrationInv'
    <2>1. RegistrationTypeOK'
      BY <1>2, <1>4 DEF RegistrationInv, RegistrationTypeOK
    <2>2. /\ rpc'[p] = "stamp" /\ file'[p] = t
          /\ \A q \in Roots \ {p} : rpc'[q] = rpc[q] /\ file'[q] = file[q]
      BY <1>4 DEF RegistrationInv, RegistrationTypeOK
    <2>3. t.root = p /\ t.graph = attached[p] /\ t # NoRecord /\ t.at <= stamped
      BY <1>1, <1>4, RegistrationAssumption DEF RegistrationInv, RegistrationTypeOK, StampsPast
    <2>4. StampsPast'
      BY <1>2, <2>2, <2>3 DEF RegistrationInv, StampsPast
    <2>5. Finalizing(p)'
      BY <1>1, <1>2, <2>2, <2>3 DEF Finalizing
    <2>6. ASSUME NEW q \in Roots, q # p PROVE Finalizing(q)'
      BY <1>2, <2>2, <2>6, OthersFinalizing
    <2> QED
      BY <2>1, <2>4, <2>5, <2>6 DEF RegistrationInv
  <1> QED
    BY <1>3, <1>4 DEF RenameTemporary

(* The time of the row. *)
LEMMA StampRefStep ==
    ASSUME RegistrationInv, NEW p \in Roots, StampRef(p)
    PROVE  RegistrationInv'
  <1>1. rpc[p] = "stamp" /\ want[p] # NoRecord /\ want[p].graph = attached[p] /\ Finalizing(p)
    BY DEF RegistrationInv, Finalizing, StampRef
  <1>2. /\ stamped' = stamped + 1 /\ stamped' \in Nat /\ stamped \in Nat
        /\ want' \in [Roots -> ProjectRefs \cup {NoRecord}]
        /\ want'[p] # NoRecord /\ want'[p].at = stamped' /\ want'[p].graph = want[p].graph
        /\ \A q \in Roots \ {p} : want'[q] = want[q]
    BY <1>1, StampEffect DEF StampRef, RegistrationInv, RegistrationTypeOK
  <1>3. tmp' = tmp /\ file' = file /\ refs' = refs /\ attached' = attached /\ rpc' = [rpc EXCEPT ![p] = "commit"]
    BY DEF StampRef
  <1>4. RegistrationTypeOK'
    BY <1>2, <1>3 DEF RegistrationInv, RegistrationTypeOK
  <1>5. rpc'[p] = "commit" /\ \A q \in Roots \ {p} : rpc'[q] = rpc[q]
    BY <1>3 DEF RegistrationInv, RegistrationTypeOK
  <1>6. StampsPast'
    BY <1>2, <1>3, RegistrationFields DEF RegistrationInv, StampsPast
  <1>7. /\ file[p] # NoRecord => file[p].at \in Nat /\ file[p].at <= stamped
        /\ refs[p] # NoRecord => refs[p].at \in Nat /\ refs[p].at <= stamped
    BY RegistrationFields DEF RegistrationInv, StampsPast
  <1>8. Finalizing(p)'
    BY <1>1, <1>2, <1>3, <1>5, <1>7 DEF Finalizing
  <1>9. ASSUME NEW q \in Roots, q # p PROVE Finalizing(q)'
    BY <1>2, <1>3, <1>5, <1>9, OthersFinalizing
  <1> QED
    BY <1>4, <1>6, <1>8, <1>9 DEF RegistrationInv

(* What the upsert makes of a record: the later of the two. *)
LEMMA UpsertKeeps ==
    ASSUME RegistrationInv, NEW p \in Roots, NEW record \in ProjectRefs \cup RegistrationFiles,
           record.at <= stamped
    PROVE  LET new == UpsertProjectRef(p, record)
           IN  /\ new \in ProjectRefs /\ new # NoRecord /\ new.at <= stamped
               /\ \/ new = refs[p] /\ refs[p] # NoRecord /\ ~(record.at > refs[p].at)
                  \/ new.graph = record.graph /\ new.at = record.at
  <1>1. record.graph \in GraphIds /\ record.at \in Nat
    BY DEF ProjectRefs, RegistrationFiles
  <1>2. [graph |-> record.graph, at |-> record.at] \in ProjectRefs
    BY <1>1 DEF ProjectRefs
  <1>3. refs[p] # NoRecord => refs[p] \in ProjectRefs /\ refs[p].at <= stamped
    BY RegistrationFields DEF RegistrationInv, StampsPast
  <1> QED
    BY <1>2, <1>3, RegistrationAssumption DEF UpsertProjectRef

(* replace_project_graph_ref. *)
LEMMA CommitRefStep ==
    ASSUME RegistrationInv, NEW p \in Roots, CommitRef(p)
    PROVE  RegistrationInv'
  <1>1. /\ rpc[p] = "commit" /\ Finalizing(p) /\ want[p] # NoRecord /\ want[p].graph = attached[p]
        /\ refs[p] # NoRecord => refs[p].at < want[p].at
    BY DEF RegistrationInv, Finalizing, CommitRef
  <1>2. want[p] \in ProjectRefs /\ want[p].at \in Nat /\ want[p].at <= stamped
    BY <1>1, RegistrationFields DEF RegistrationInv, StampsPast
  <1>3. refs[p] # NoRecord => refs[p].at \in Nat
    BY RegistrationFields DEF RegistrationInv
  <1> PICK new : new = UpsertProjectRef(p, want[p])
    OBVIOUS
  <1>4. new \in ProjectRefs /\ new # NoRecord /\ new.at <= stamped /\ new.graph = attached[p]
    BY <1>1, <1>2, <1>3, UpsertKeeps
  <1>5. stamped' = stamped /\ tmp' = tmp /\ file' = file /\ want' = want /\ attached' = attached
        /\ refs' = [refs EXCEPT ![p] = new] /\ rpc' = [rpc EXCEPT ![p] = "done"]
    BY DEF CommitRef
  <1>6. RegistrationTypeOK'
    BY <1>4, <1>5 DEF RegistrationInv, RegistrationTypeOK
  <1>7. rpc'[p] = "done" /\ refs'[p] = new /\ \A q \in Roots \ {p} : rpc'[q] = rpc[q] /\ refs'[q] = refs[q]
    BY <1>5 DEF RegistrationInv, RegistrationTypeOK
  <1>8. StampsPast'
    BY <1>4, <1>5, <1>7 DEF RegistrationInv, StampsPast
  <1>9. Finalizing(p)'
    BY <1>1, <1>4, <1>5, <1>7 DEF Finalizing
  <1>10. ASSUME NEW q \in Roots, q # p PROVE Finalizing(q)'
    BY <1>5, <1>7, <1>10, OthersFinalizing
  <1> QED
    BY <1>6, <1>8, <1>9, <1>10 DEF RegistrationInv

(* A failure or a death between the writes. *)
LEMMA FailStep ==
    ASSUME RegistrationInv, NEW p \in Roots, Fail(p)
    PROVE  RegistrationInv'
  <1>1. tmp' \subseteq tmp /\ stamped' = stamped /\ refs' = refs /\ want' = want /\ attached' = attached
        /\ file' = file /\ rpc' = [rpc EXCEPT ![p] = "failed"]
    BY DEF Fail
  <1>2. RegistrationTypeOK'
    BY <1>1 DEF RegistrationInv, RegistrationTypeOK
  <1>3. rpc'[p] = "failed" /\ \A q \in Roots \ {p} : rpc'[q] = rpc[q]
    BY <1>1 DEF RegistrationInv, RegistrationTypeOK
  <1>4. StampsPast'
    BY <1>1 DEF RegistrationInv, StampsPast
  <1>5. Finalizing(p)'
    BY <1>1, <1>3 DEF RegistrationInv, Finalizing
  <1>6. ASSUME NEW q \in Roots, q # p PROVE Finalizing(q)'
    BY <1>1, <1>3, <1>6, OthersFinalizing
  <1> QED
    BY <1>2, <1>4, <1>5, <1>6 DEF RegistrationInv

(* The index is lost, or rebuilt: a row becomes what it was, nothing, or   *)
(* the project's own file.                                                 *)
LEMMA RefsChange ==
    ASSUME RegistrationInv, stamped' = stamped, tmp' = tmp, file' = file, rpc' = rpc, want' = want,
           attached' = attached, refs' \in [Roots -> ProjectRefs \cup {NoRecord}],
           \A p \in Roots : \/ refs'[p] = refs[p] \/ refs'[p] = NoRecord
                            \/ file[p] # NoRecord /\ refs'[p].graph = file[p].graph /\ refs'[p].at = file[p].at
    PROVE  RegistrationInv'
  <1>1. RegistrationTypeOK'
    BY DEF RegistrationInv, RegistrationTypeOK
  <1>2. StampsPast'
    BY DEF RegistrationInv, StampsPast
  <1>3. ASSUME NEW p \in Roots PROVE Finalizing(p)'
    BY DEF RegistrationInv, Finalizing
  <1> QED
    BY <1>1, <1>2, <1>3 DEF RegistrationInv

(* Every step of a registration keeps the invariant. *)
LEMMA RegistrationStep ==
    ASSUME RegistrationInv, [RegistrationNext]_registrationVars
    PROVE  RegistrationInv'
  <1>1. CASE UNCHANGED registrationVars
    <2>1. RegistrationTypeOK' /\ StampsPast'
      BY <1>1 DEF registrationVars, RegistrationInv, RegistrationTypeOK, StampsPast
    <2>2. ASSUME NEW p \in Roots PROVE Finalizing(p)'
      BY <1>1 DEF registrationVars, RegistrationInv, Finalizing
    <2> QED
      BY <2>1, <2>2 DEF RegistrationInv
  <1>2. CASE LoseIndex
    BY <1>2, RefsChange DEF LoseIndex
  <1>3. CASE RepairRefs
    <2>1. ASSUME NEW p \in Roots, Trusted(p)
          PROVE  /\ UpsertProjectRef(p, file[p]) \in ProjectRefs
                 /\ \/ UpsertProjectRef(p, file[p]) = refs[p]
                    \/ /\ file[p] # NoRecord
                       /\ UpsertProjectRef(p, file[p]).graph = file[p].graph
                       /\ UpsertProjectRef(p, file[p]).at = file[p].at
      <3>1. file[p] \in RegistrationFiles /\ file[p].at <= stamped
        BY <2>1, RegistrationFields DEF RegistrationInv, StampsPast, Trusted
      <3> QED
        BY <3>1, <2>1, UpsertKeeps DEF Trusted
    <2>2. \A p \in Roots : refs'[p] = IF Trusted(p) THEN UpsertProjectRef(p, file[p]) ELSE refs[p]
      BY <1>3 DEF RepairRefs
    <2>3. refs' \in [Roots -> ProjectRefs \cup {NoRecord}]
      BY <1>3, <2>1 DEF RepairRefs, RegistrationInv, RegistrationTypeOK
    <2> QED
      BY <1>3, <2>1, <2>2, <2>3, RefsChange DEF RepairRefs
  <1> QED
    BY <1>1, <1>2, <1>3, FinalizeStep, WriteTemporaryStep, RenameTemporaryStep, StampRefStep, CommitRefStep,
       FailStep DEF RegistrationNext

(***************************************************************************)
(* Sources cached from git.                                                *)
(***************************************************************************)
Places ==
    {"start", "download", "lock archive", "check archive", "git archive", "lock clone", "clone", "publish clone",
     "fetch", "write archive", "publish archive", "read archive", "lock tree", "check tree", "publish tree",
     "done", "failed", "killed"}
(* Where the archive has been found missing and is being made, ... *)
Archiving == {"git archive", "lock clone", "clone", "publish clone", "fetch", "write archive", "publish archive"}
Cloning == {"clone", "publish clone", "fetch"}
Planting == {"check tree", "publish tree"}
(* ... where a process knows what it got, and has it from the cache.       *)
Fetched == {"write archive", "publish archive", "lock tree", "check tree", "publish tree", "done"}
Served == {"lock tree", "check tree", "publish tree", "done"}

SourceTypeOK ==
    /\ moves \in Nat
    /\ branch \in Commits
    /\ cached \in [Caches -> [Commits -> Commits \cup {Missing, Torn}]]
    /\ lock \in [Caches -> [Commits -> Resolvers \cup {Nobody}]]
    /\ scratch \in [Resolvers -> {"none"} \cup Caches]
    /\ at \in [Resolvers -> Places]
    /\ reference \in [Resolvers -> {"branch"} \cup Commits]
    /\ commit \in [Resolvers -> Commits \cup {Missing}]
    /\ content \in [Resolvers -> Commits \cup {Missing}]

(* A process at work on a result holds the lock of its key. *)
SourceLocked(r) ==
    /\ at[r] \in Archiving \cup {"check archive"} => lock["archive"][commit[r]] = r
    /\ at[r] \in Cloning => lock["clone"][commit[r]] = r
    /\ at[r] \in Planting => lock["source-tree"][commit[r]] = r

(* Scratch is there only while it is filled, or when its process died. *)
ScratchUsed(r) ==
    /\ scratch[r] = "archive" => at[r] \in {"publish archive", "killed"}
    /\ scratch[r] = "clone" => at[r] \in {"publish clone", "killed"}
    /\ scratch[r] = "source-tree" => at[r] \in {"publish tree", "killed"}

(* What a process has seen and got: nobody but the holder of the lock puts *)
(* an archive where one was missing, and no readable result is replaced.   *)
SourceKnown(r) ==
    /\ at[r] # "start" => commit[r] \in Commits
    /\ at[r] = "download" => remote = "hosted"
    /\ at[r] \in Fetched => content[r] \in Commits
    /\ at[r] \in Archiving => cached["archive"][commit[r]] = Missing
    /\ at[r] \in Served /\ remote # "hosted" => cached["archive"][commit[r]] = content[r]
    /\ at[r] = "done" => cached["source-tree"][commit[r]] \in Commits

(* What is cached is of its key, ... *)
ContentsKeyed ==
    \A c \in Commits : /\ cached["archive"][c] \in Commits => cached["archive"][c] = c
                       /\ cached["source-tree"][c] \in Commits => cached["source-tree"][c] = c

(* ... as long as the branch stays where it is. *)
BranchStays ==
    moves = 0 =>
        /\ branch = "a"
        /\ ContentsKeyed
        /\ \A r \in Resolvers : /\ at[r] # "start" /\ reference[r] = "branch" => commit[r] = "a"
                                /\ at[r] \in Fetched => content[r] = commit[r]

(* A step of r replaces no readable result and no archive others may make. *)
ResultsKept(r) ==
    \A c \in Commits :
        /\ cached["archive"][c] \in Commits => cached'["archive"][c] = cached["archive"][c]
        /\ cached["source-tree"][c] \in Commits => cached'["source-tree"][c] = cached["source-tree"][c]
        /\ \A s \in Resolvers \ {r} : lock["archive"][c] = s => cached'["archive"][c] = cached["archive"][c]

SourceInv ==
    /\ SourceTypeOK /\ BranchStays
    /\ \A r \in Resolvers : SourceLocked(r) /\ ScratchUsed(r) /\ SourceKnown(r)

(* The invariant gives the properties of the run. *)
LEMMA SourceSafe ==
    ASSUME SourceInv
    PROVE  SourceWhole /\ ScratchPrivate
  <1>1. SourceWhole
    BY DEF SourceWhole, SourceInv, SourceKnown, BranchStays, ContentsKeyed, Served, Fetched
  <1>2. ASSUME NEW r \in Resolvers PROVE at[r] \in {"done", "failed"} => scratch[r] = "none"
    BY DEF SourceInv, SourceTypeOK, ScratchUsed, Caches
  <1>3. ASSUME NEW r \in Resolvers, NEW s \in Resolvers, r # s, Busy(r), Busy(s), commit[r] = commit[s],
               scratch[r] = scratch[s]
        PROVE  scratch[r] = "none"
    <2>1. scratch[r] \in {"none", "archive", "clone", "source-tree"} /\ at[r] # "killed" /\ at[s] # "killed"
      BY <1>3 DEF SourceInv, SourceTypeOK, Caches, Busy, Ended
    <2> QED
      BY <2>1, <1>3 DEF SourceInv, ScratchUsed, SourceLocked, Archiving, Cloning, Planting
  <1> QED
    BY <1>1, <1>2, <1>3 DEF ScratchPrivate

(* The initial state. *)
LEMMA SourceStart == SourceInit => SourceInv
  <1> SUFFICES ASSUME SourceInit PROVE SourceInv
    OBVIOUS
  <1>1. \A r \in Resolvers : at[r] = "start" /\ scratch[r] = "none"
    BY DEF SourceInit
  <1>2. ASSUME NEW k \in Caches, NEW c \in Commits PROVE cached[k][c] \in {Missing, Torn}
    BY DEF SourceInit
  <1>3. SourceTypeOK
    <2>1. cached \in [Caches -> [Commits -> Commits \cup {Missing, Torn}]]
      BY DEF SourceInit
    <2>2. lock \in [Caches -> [Commits -> Resolvers \cup {Nobody}]]
      BY DEF SourceInit
    <2>3. reference \in [Resolvers -> {"branch"} \cup Commits]
      BY SourceAssumption DEF SourceInit
    <2>4. moves \in Nat /\ branch \in Commits
      BY DEF SourceInit, Commits
    <2>5. scratch \in [Resolvers -> {"none"} \cup Caches] /\ at \in [Resolvers -> Places]
      BY DEF SourceInit, Places
    <2>6. commit \in [Resolvers -> Commits \cup {Missing}] /\ content \in [Resolvers -> Commits \cup {Missing}]
      BY DEF SourceInit
    <2> QED
      BY <2>1, <2>2, <2>3, <2>4, <2>5, <2>6 DEF SourceTypeOK
  <1>4. ASSUME NEW r \in Resolvers PROVE SourceLocked(r) /\ ScratchUsed(r) /\ SourceKnown(r)
    BY <1>1 DEF SourceLocked, ScratchUsed, SourceKnown, Archiving, Cloning, Planting, Fetched, Served
  <1>5. BranchStays
    <2>1. Missing \notin Commits /\ Torn \notin Commits
      BY SourceAssumption DEF Missing, Commits
    <2>2. ASSUME NEW c \in Commits PROVE cached["archive"][c] \notin Commits /\ cached["source-tree"][c] \notin Commits
      BY <1>2, <2>1 DEF Caches
    <2>3. branch = "a"
      BY DEF SourceInit
    <2> QED
      BY <1>1, <2>2, <2>3 DEF BranchStays, ContentsKeyed, Fetched
  <1> QED
    BY <1>3, <1>4, <1>5 DEF SourceInv

(* A step of r that leaves the readable results, and what others lock,     *)
(* alone.                                                                  *)
LEMMA SourceAssemble ==
    ASSUME SourceInv, NEW r \in Resolvers, SourceTypeOK', SourceLocked(r)', ScratchUsed(r)', SourceKnown(r)',
           remote' = remote, moves' = moves, branch' = branch, reference' = reference,
           \A s \in Resolvers \ {r} : /\ at'[s] = at[s] /\ scratch'[s] = scratch[s] /\ commit'[s] = commit[s]
                                      /\ content'[s] = content[s],
           \A s \in Resolvers \ {r}, k \in Caches, c \in Commits : lock[k][c] = s => lock'[k][c] = s,
           ResultsKept(r),
           moves = 0 =>
              /\ ContentsKeyed'
              /\ at'[r] # "start" /\ reference[r] = "branch" => commit'[r] = "a"
              /\ at'[r] \in Fetched => content'[r] = commit'[r]
    PROVE  SourceInv'
  <1>1. ASSUME NEW s \in Resolvers \ {r} PROVE SourceLocked(s)' /\ ScratchUsed(s)' /\ SourceKnown(s)'
    <2>1. SourceLocked(s) /\ ScratchUsed(s) /\ SourceKnown(s)
      BY DEF SourceInv
    <2>2. at[s] # "start" => commit[s] \in Commits
      BY <2>1 DEF SourceKnown
    <2>3. SourceLocked(s)'
      <3>1. "archive" \in Caches /\ "clone" \in Caches /\ "source-tree" \in Caches
        BY DEF Caches
      <3>2. at[s] \in Archiving \cup {"check archive"} \/ at[s] \in Cloning \/ at[s] \in Planting => commit[s] \in Commits
        BY <2>2 DEF Archiving, Cloning, Planting
      <3>3. ASSUME NEW k \in Caches, commit[s] \in Commits, lock[k][commit[s]] = s PROVE lock'[k][commit[s]] = s
        BY <3>3
      <3>4. at'[s] = at[s] /\ commit'[s] = commit[s]
        OBVIOUS
      <3>5. at[s] \in Archiving \cup {"check archive"} => lock'["archive"][commit[s]] = s
        BY <2>1, <3>1, <3>2, <3>3 DEF SourceLocked
      <3>6. at[s] \in Cloning => lock'["clone"][commit[s]] = s
        BY <2>1, <3>1, <3>2, <3>3 DEF SourceLocked
      <3>7. at[s] \in Planting => lock'["source-tree"][commit[s]] = s
        BY <2>1, <3>1, <3>2, <3>3 DEF SourceLocked
      <3> QED
        BY <3>4, <3>5, <3>6, <3>7 DEF SourceLocked
    <2>4. ScratchUsed(s)'
      BY <2>1 DEF ScratchUsed
    <2>5. at[s] \in Archiving => cached'["archive"][commit[s]] = cached["archive"][commit[s]]
      BY <2>1, <2>2 DEF SourceLocked, Archiving, ResultsKept
    <2>6. at[s] \in Served /\ remote # "hosted" => cached'["archive"][commit[s]] = cached["archive"][commit[s]]
      BY <2>1, <2>2 DEF SourceKnown, Served, Fetched, ResultsKept
    <2>7. at[s] = "done" => cached'["source-tree"][commit[s]] = cached["source-tree"][commit[s]]
      BY <2>1, <2>2 DEF SourceKnown, ResultsKept
    <2>8. SourceKnown(s)'
      BY <2>1, <2>5, <2>6, <2>7 DEF SourceKnown
    <2> QED
      BY <2>3, <2>4, <2>8
  <1>2. BranchStays'
    BY DEF SourceInv, BranchStays
  <1> QED
    BY <1>1, <1>2 DEF SourceInv

(* A step of r that leaves the caches alone. *)
LEMMA SourceAssembleKept ==
    ASSUME SourceInv, NEW r \in Resolvers, SourceTypeOK', SourceLocked(r)', ScratchUsed(r)', SourceKnown(r)',
           remote' = remote, moves' = moves, branch' = branch, reference' = reference, cached' = cached,
           \A s \in Resolvers \ {r} : /\ at'[s] = at[s] /\ scratch'[s] = scratch[s] /\ commit'[s] = commit[s]
                                      /\ content'[s] = content[s],
           \A s \in Resolvers \ {r}, k \in Caches, c \in Commits : lock[k][c] = s => lock'[k][c] = s,
           moves = 0 =>
              /\ at'[r] # "start" /\ reference[r] = "branch" => commit'[r] = "a"
              /\ at'[r] \in Fetched => content'[r] = commit'[r]
    PROVE  SourceInv'
  <1>1. ResultsKept(r) /\ (moves = 0 => ContentsKeyed')
    BY DEF SourceInv, BranchStays, ContentsKeyed, ResultsKept
  <1> QED
    BY <1>1, SourceAssemble

(* Taking, giving back and dropping locks: nobody else's is touched. *)
LEMMA LockTaken ==
    ASSUME SourceTypeOK, NEW r \in Resolvers, NEW k \in Caches, commit[r] \in Commits, SourceLock(r, k)
    PROVE  /\ lock' \in [Caches -> [Commits -> Resolvers \cup {Nobody}]]
           /\ lock'[k][commit[r]] = r
           /\ \A s \in Resolvers, j \in Caches, c \in Commits : lock[j][c] = s => lock'[j][c] = s
  <1>1. lock \in [Caches -> [Commits -> Resolvers \cup {Nobody}]]
    BY DEF SourceTypeOK
  <1>2. lock' = [lock EXCEPT ![k][commit[r]] = r] /\ lock[k][commit[r]] = Nobody /\ Nobody \notin Resolvers
    BY SourceAssumption DEF SourceLock
  <1> QED
    BY <1>1, <1>2

LEMMA LockFreedOf ==
    ASSUME SourceTypeOK, NEW r \in Resolvers, NEW k \in Caches, commit[r] \in Commits, lock' = FreedOf(r, k)
    PROVE  /\ lock' \in [Caches -> [Commits -> Resolvers \cup {Nobody}]]
           /\ \A s \in Resolvers \ {r}, j \in Caches, c \in Commits : lock[j][c] = s => lock'[j][c] = s
           /\ \A j \in Caches \ {k}, c \in Commits : lock'[j][c] = lock[j][c]
  <1>1. lock \in [Caches -> [Commits -> Resolvers \cup {Nobody}]]
    BY DEF SourceTypeOK
  <1>2. lock' = [lock EXCEPT ![k][commit[r]] = IF lock[k][commit[r]] = r THEN Nobody ELSE lock[k][commit[r]]]
    BY DEF FreedOf
  <1> QED
    BY <1>1, <1>2

LEMMA LocksFreed ==
    ASSUME SourceTypeOK, NEW r \in Resolvers, lock' = Freed(r)
    PROVE  /\ lock' \in [Caches -> [Commits -> Resolvers \cup {Nobody}]]
           /\ \A s \in Resolvers \ {r}, j \in Caches, c \in Commits : lock[j][c] = s => lock'[j][c] = s
  <1>1. lock \in [Caches -> [Commits -> Resolvers \cup {Nobody}]]
    BY DEF SourceTypeOK
  <1> QED
    BY <1>1 DEF Freed

(* A cache is written under one key. *)
LEMMA CacheWritten ==
    ASSUME SourceTypeOK, NEW k \in Caches, NEW d \in Commits, NEW v \in Commits \cup {Missing},
           cached' = [cached EXCEPT ![k][d] = v]
    PROVE  /\ cached' \in [Caches -> [Commits -> Commits \cup {Missing, Torn}]]
           /\ cached'[k][d] = v
           /\ \A j \in Caches, c \in Commits : j # k \/ c # d => cached'[j][c] = cached[j][c]
  BY DEF SourceTypeOK

(* A process goes to another place. *)
LEMMA Moved ==
    ASSUME SourceTypeOK, NEW r \in Resolvers, NEW l \in Places, at' = [at EXCEPT ![r] = l]
    PROVE  /\ at' \in [Resolvers -> Places] /\ at'[r] = l
           /\ \A s \in Resolvers \ {r} : at'[s] = at[s]
  BY DEF SourceTypeOK

(* What is known of a process before its step. *)
LEMMA SourceBefore ==
    ASSUME SourceInv, NEW r \in Resolvers
    PROVE  /\ SourceTypeOK /\ SourceLocked(r) /\ ScratchUsed(r) /\ SourceKnown(r)
           /\ at[r] # "start" => commit[r] \in Commits
           /\ moves = 0 /\ at[r] # "start" /\ reference[r] = "branch" => commit[r] = "a"
           /\ moves = 0 /\ at[r] \in Fetched => content[r] = commit[r]
  BY DEF SourceInv, SourceKnown, BranchStays

(* The hosted archive of the commit is downloaded. *)
LEMMA DownloadHostedStep ==
    ASSUME SourceInv, NEW r \in Resolvers, DownloadHosted(r)
    PROVE  SourceInv'
  <1>1. at[r] = "download" /\ SourceTypeOK /\ SourceLocked(r) /\ ScratchUsed(r) /\ SourceKnown(r) /\ commit[r] \in Commits
        /\ (moves = 0 /\ reference[r] = "branch" => commit[r] = "a")
        /\ (moves = 0 /\ at[r] \in Fetched => content[r] = commit[r])
    BY SourceBefore DEF DownloadHosted
  <1>2. /\ cached' = cached /\ commit' = commit /\ reference' = reference /\ remote' = remote /\ moves' = moves
        /\ branch' = branch
        /\ lock' = lock /\ content' = [content EXCEPT ![r] = commit[r]] /\ scratch' = scratch /\ at' = [at EXCEPT ![r] = "lock tree"]
    BY DEF DownloadHosted, world3
  <1>3. "lock tree" \in Places /\ "archive" \in Caches /\ "clone" \in Caches /\ "source-tree" \in Caches
    BY DEF Places, Caches
  <1>4. at' \in [Resolvers -> Places] /\ at'[r] = "lock tree" /\ \A s \in Resolvers \ {r} : at'[s] = at[s]
    BY <1>1, <1>2, <1>3, Moved
  <1>5. /\ content' \in [Resolvers -> Commits \cup {Missing}] /\ content'[r] = commit[r]
        /\ \A s \in Resolvers \ {r} : content'[s] = content[s]
    BY <1>1, <1>2 DEF SourceTypeOK
  <1>6. SourceTypeOK'
    BY <1>1, <1>2, <1>4, <1>5 DEF SourceTypeOK
  <1>7. SourceLocked(r)'
    BY <1>1, <1>2, <1>4, <1>5, <1>3 DEF SourceLocked, Archiving, Cloning, Planting
  <1>8. ScratchUsed(r)'
    BY <1>1, <1>2, <1>4, <1>5 DEF ScratchUsed
  <1>9. SourceKnown(r)'
    BY <1>1, <1>2, <1>4, <1>5 DEF SourceKnown, Archiving, Fetched, Served
  <1>10. moves = 0 /\ at'[r] \in Fetched => content'[r] = commit[r]
    BY <1>1, <1>2, <1>4, <1>5 DEF Fetched
  <1> QED
    BY <1>1, <1>2, <1>4, <1>5, <1>6, <1>7, <1>8, <1>9, <1>10, SourceAssembleKept

(* source_lock, for the archive. *)
LEMMA OpenArchiveStep ==
    ASSUME SourceInv, NEW r \in Resolvers, OpenArchive(r)
    PROVE  SourceInv'
  <1>1. at[r] = "lock archive" /\ SourceTypeOK /\ SourceLocked(r) /\ ScratchUsed(r) /\ SourceKnown(r) /\ commit[r] \in Commits
        /\ (moves = 0 /\ reference[r] = "branch" => commit[r] = "a")
        /\ (moves = 0 /\ at[r] \in Fetched => content[r] = commit[r])
    BY SourceBefore DEF OpenArchive
  <1>2. /\ cached' = cached /\ commit' = commit /\ reference' = reference /\ remote' = remote /\ moves' = moves
        /\ branch' = branch
        /\ content' = content /\ scratch' = scratch /\ at' = [at EXCEPT ![r] = "check archive"]
    BY DEF OpenArchive, world3
  <1>3. "check archive" \in Places /\ "archive" \in Caches /\ "clone" \in Caches /\ "source-tree" \in Caches
    BY DEF Places, Caches
  <1>4. at' \in [Resolvers -> Places] /\ at'[r] = "check archive" /\ \A s \in Resolvers \ {r} : at'[s] = at[s]
    BY <1>1, <1>2, <1>3, Moved
  <1>5. /\ lock' \in [Caches -> [Commits -> Resolvers \cup {Nobody}]] /\ lock'["archive"][commit[r]] = r
        /\ \A s \in Resolvers, j \in Caches, c \in Commits : lock[j][c] = s => lock'[j][c] = s
    BY <1>1, <1>3, LockTaken DEF OpenArchive
  <1>6. SourceTypeOK'
    BY <1>1, <1>2, <1>4, <1>5 DEF SourceTypeOK
  <1>7. SourceLocked(r)'
    BY <1>1, <1>2, <1>4, <1>5, <1>3 DEF SourceLocked, Archiving, Cloning, Planting
  <1>8. ScratchUsed(r)'
    BY <1>1, <1>2, <1>4, <1>5 DEF ScratchUsed
  <1>9. SourceKnown(r)'
    BY <1>1, <1>2, <1>4, <1>5 DEF SourceKnown, Archiving, Fetched, Served
  <1>10. moves = 0 /\ at'[r] \in Fetched => content'[r] = commit[r]
    BY <1>1, <1>2, <1>4, <1>5 DEF Fetched
  <1> QED
    BY <1>1, <1>2, <1>4, <1>5, <1>6, <1>7, <1>8, <1>9, <1>10, SourceAssembleKept

(* source_lock, for the clone, inside that of the archive. *)
LEMMA OpenCloneStep ==
    ASSUME SourceInv, NEW r \in Resolvers, OpenClone(r)
    PROVE  SourceInv'
  <1>1. at[r] = "lock clone" /\ SourceTypeOK /\ SourceLocked(r) /\ ScratchUsed(r) /\ SourceKnown(r) /\ commit[r] \in Commits
        /\ (moves = 0 /\ reference[r] = "branch" => commit[r] = "a")
        /\ (moves = 0 /\ at[r] \in Fetched => content[r] = commit[r])
    BY SourceBefore DEF OpenClone
  <1>2. /\ cached' = cached /\ commit' = commit /\ reference' = reference /\ remote' = remote /\ moves' = moves
        /\ branch' = branch
        /\ content' = content /\ scratch' = scratch /\ at' = [at EXCEPT ![r] = "clone"]
    BY DEF OpenClone, world3
  <1>3. "clone" \in Places /\ "archive" \in Caches /\ "clone" \in Caches /\ "source-tree" \in Caches
    BY DEF Places, Caches
  <1>4. at' \in [Resolvers -> Places] /\ at'[r] = "clone" /\ \A s \in Resolvers \ {r} : at'[s] = at[s]
    BY <1>1, <1>2, <1>3, Moved
  <1>5. /\ lock' \in [Caches -> [Commits -> Resolvers \cup {Nobody}]] /\ lock'["clone"][commit[r]] = r
        /\ \A s \in Resolvers, j \in Caches, c \in Commits : lock[j][c] = s => lock'[j][c] = s
    BY <1>1, <1>3, LockTaken DEF OpenClone
  <1>6. lock'["archive"][commit[r]] = r
    BY <1>1, <1>3, <1>5 DEF SourceLocked, Archiving
  <1>7. SourceTypeOK'
    BY <1>1, <1>2, <1>4, <1>5, <1>6 DEF SourceTypeOK
  <1>8. SourceLocked(r)'
    BY <1>1, <1>2, <1>4, <1>5, <1>6, <1>3 DEF SourceLocked, Archiving, Cloning, Planting
  <1>9. ScratchUsed(r)'
    BY <1>1, <1>2, <1>4, <1>5, <1>6 DEF ScratchUsed
  <1>10. SourceKnown(r)'
    BY <1>1, <1>2, <1>4, <1>5, <1>6 DEF SourceKnown, Archiving, Fetched, Served
  <1>11. moves = 0 /\ at'[r] \in Fetched => content'[r] = commit[r]
    BY <1>1, <1>2, <1>4, <1>5, <1>6 DEF Fetched
  <1> QED
    BY <1>1, <1>2, <1>4, <1>5, <1>6, <1>7, <1>8, <1>9, <1>10, <1>11, SourceAssembleKept

(* The commit is archived from the clone. *)
LEMMA FetchCommitStep ==
    ASSUME SourceInv, NEW r \in Resolvers, FetchCommit(r)
    PROVE  SourceInv'
  <1>1. at[r] = "fetch" /\ SourceTypeOK /\ SourceLocked(r) /\ ScratchUsed(r) /\ SourceKnown(r) /\ commit[r] \in Commits
        /\ (moves = 0 /\ reference[r] = "branch" => commit[r] = "a")
        /\ (moves = 0 /\ at[r] \in Fetched => content[r] = commit[r])
    BY SourceBefore DEF FetchCommit
  <1>2. /\ cached' = cached /\ commit' = commit /\ reference' = reference /\ remote' = remote /\ moves' = moves
        /\ branch' = branch
        /\ lock' = FreedOf(r, "clone") /\ content' = [content EXCEPT ![r] = commit[r]] /\ scratch' = scratch /\ at' = [at EXCEPT ![r] = "write archive"]
    BY DEF FetchCommit, world3
  <1>3. "write archive" \in Places /\ "archive" \in Caches /\ "clone" \in Caches /\ "source-tree" \in Caches
    BY DEF Places, Caches
  <1>4. at' \in [Resolvers -> Places] /\ at'[r] = "write archive" /\ \A s \in Resolvers \ {r} : at'[s] = at[s]
    BY <1>1, <1>2, <1>3, Moved
  <1>5. /\ lock' \in [Caches -> [Commits -> Resolvers \cup {Nobody}]]
        /\ \A s \in Resolvers \ {r}, j \in Caches, c \in Commits : lock[j][c] = s => lock'[j][c] = s
        /\ \A j \in Caches \ {"clone"}, c \in Commits : lock'[j][c] = lock[j][c]
    BY <1>1, <1>2, <1>3, LockFreedOf
  <1>6. lock'["archive"][commit[r]] = r
    <2>1. lock["archive"][commit[r]] = r
      BY <1>1 DEF SourceLocked, Archiving
    <2>2. "archive" \in Caches \ {"clone"}
      BY <1>3
    <2> QED
      BY <2>1, <2>2, <1>1, <1>5
  <1>7. /\ content' \in [Resolvers -> Commits \cup {Missing}] /\ content'[r] = commit[r]
        /\ \A s \in Resolvers \ {r} : content'[s] = content[s]
    BY <1>1, <1>2 DEF SourceTypeOK
  <1>8. SourceTypeOK'
    BY <1>1, <1>2, <1>4, <1>5, <1>6, <1>7 DEF SourceTypeOK
  <1>9. SourceLocked(r)'
    BY <1>1, <1>2, <1>4, <1>5, <1>6, <1>7, <1>3 DEF SourceLocked, Archiving, Cloning, Planting
  <1>10. ScratchUsed(r)'
    BY <1>1, <1>2, <1>4, <1>5, <1>6, <1>7 DEF ScratchUsed
  <1>11. SourceKnown(r)'
    BY <1>1, <1>2, <1>4, <1>5, <1>6, <1>7 DEF SourceKnown, Archiving, Fetched, Served
  <1>12. moves = 0 /\ at'[r] \in Fetched => content'[r] = commit[r]
    BY <1>1, <1>2, <1>4, <1>5, <1>6, <1>7 DEF Fetched
  <1> QED
    BY <1>1, <1>2, <1>4, <1>5, <1>6, <1>7, <1>8, <1>9, <1>10, <1>11, <1>12, SourceAssembleKept

(* The archive is written to scratch. *)
LEMMA WriteArchiveStep ==
    ASSUME SourceInv, NEW r \in Resolvers, WriteArchive(r)
    PROVE  SourceInv'
  <1>1. at[r] = "write archive" /\ SourceTypeOK /\ SourceLocked(r) /\ ScratchUsed(r) /\ SourceKnown(r) /\ commit[r] \in Commits
        /\ (moves = 0 /\ reference[r] = "branch" => commit[r] = "a")
        /\ (moves = 0 /\ at[r] \in Fetched => content[r] = commit[r])
    BY SourceBefore DEF WriteArchive
  <1>2. /\ cached' = cached /\ commit' = commit /\ reference' = reference /\ remote' = remote /\ moves' = moves
        /\ branch' = branch
        /\ lock' = lock /\ content' = content /\ scratch' = [scratch EXCEPT ![r] = "archive"] /\ at' = [at EXCEPT ![r] = "publish archive"]
    BY DEF WriteArchive, world3
  <1>3. "publish archive" \in Places /\ "archive" \in Caches /\ "clone" \in Caches /\ "source-tree" \in Caches
    BY DEF Places, Caches
  <1>4. at' \in [Resolvers -> Places] /\ at'[r] = "publish archive" /\ \A s \in Resolvers \ {r} : at'[s] = at[s]
    BY <1>1, <1>2, <1>3, Moved
  <1>5. /\ scratch' \in [Resolvers -> {"none"} \cup Caches] /\ scratch'[r] = "archive"
        /\ \A s \in Resolvers \ {r} : scratch'[s] = scratch[s]
    BY <1>1, <1>2, <1>3 DEF SourceTypeOK
  <1>6. SourceTypeOK'
    BY <1>1, <1>2, <1>4, <1>5 DEF SourceTypeOK
  <1>7. SourceLocked(r)'
    BY <1>1, <1>2, <1>4, <1>5, <1>3 DEF SourceLocked, Archiving, Cloning, Planting
  <1>8. ScratchUsed(r)'
    BY <1>1, <1>2, <1>4, <1>5 DEF ScratchUsed
  <1>9. SourceKnown(r)'
    BY <1>1, <1>2, <1>4, <1>5 DEF SourceKnown, Archiving, Fetched, Served
  <1>10. moves = 0 /\ at'[r] \in Fetched => content'[r] = commit[r]
    BY <1>1, <1>2, <1>4, <1>5 DEF Fetched
  <1> QED
    BY <1>1, <1>2, <1>4, <1>5, <1>6, <1>7, <1>8, <1>9, <1>10, SourceAssembleKept

(* source_lock, for the tree. *)
LEMMA OpenTreeStep ==
    ASSUME SourceInv, NEW r \in Resolvers, OpenTree(r)
    PROVE  SourceInv'
  <1>1. at[r] = "lock tree" /\ SourceTypeOK /\ SourceLocked(r) /\ ScratchUsed(r) /\ SourceKnown(r) /\ commit[r] \in Commits
        /\ (moves = 0 /\ reference[r] = "branch" => commit[r] = "a")
        /\ (moves = 0 /\ at[r] \in Fetched => content[r] = commit[r])
    BY SourceBefore DEF OpenTree
  <1>2. /\ cached' = cached /\ commit' = commit /\ reference' = reference /\ remote' = remote /\ moves' = moves
        /\ branch' = branch
        /\ content' = content /\ scratch' = scratch /\ at' = [at EXCEPT ![r] = "check tree"]
    BY DEF OpenTree, world3
  <1>3. "check tree" \in Places /\ "archive" \in Caches /\ "clone" \in Caches /\ "source-tree" \in Caches
    BY DEF Places, Caches
  <1>4. at' \in [Resolvers -> Places] /\ at'[r] = "check tree" /\ \A s \in Resolvers \ {r} : at'[s] = at[s]
    BY <1>1, <1>2, <1>3, Moved
  <1>5. /\ lock' \in [Caches -> [Commits -> Resolvers \cup {Nobody}]] /\ lock'["source-tree"][commit[r]] = r
        /\ \A s \in Resolvers, j \in Caches, c \in Commits : lock[j][c] = s => lock'[j][c] = s
    BY <1>1, <1>3, LockTaken DEF OpenTree
  <1>6. SourceTypeOK'
    BY <1>1, <1>2, <1>4, <1>5 DEF SourceTypeOK
  <1>7. SourceLocked(r)'
    BY <1>1, <1>2, <1>4, <1>5, <1>3 DEF SourceLocked, Archiving, Cloning, Planting
  <1>8. ScratchUsed(r)'
    BY <1>1, <1>2, <1>4, <1>5 DEF ScratchUsed
  <1>9. SourceKnown(r)'
    BY <1>1, <1>2, <1>4, <1>5 DEF SourceKnown, Archiving, Fetched, Served
  <1>10. moves = 0 /\ at'[r] \in Fetched => content'[r] = commit[r]
    BY <1>1, <1>2, <1>4, <1>5 DEF Fetched
  <1> QED
    BY <1>1, <1>2, <1>4, <1>5, <1>6, <1>7, <1>8, <1>9, <1>10, SourceAssembleKept

(* resolve_git_commit. *)
LEMMA ResolveGitCommitStep ==
    ASSUME SourceInv, NEW r \in Resolvers, ResolveGitCommit(r)
    PROVE  SourceInv'
  <1>1. at[r] = "start" /\ SourceTypeOK /\ ScratchUsed(r) /\ (moves = 0 => branch = "a")
    BY SourceBefore DEF ResolveGitCommit, SourceInv, BranchStays
  <1> PICK c : c = IF reference[r] = "branch" THEN branch ELSE reference[r]
    OBVIOUS
  <1> PICK l : l = IF remote = "hosted" THEN "download" ELSE "lock archive"
    OBVIOUS
  <1>2. /\ cached' = cached /\ content' = content /\ reference' = reference /\ remote' = remote /\ moves' = moves
        /\ branch' = branch /\ lock' = lock /\ scratch' = scratch
        /\ commit' = [commit EXCEPT ![r] = c] /\ at' = [at EXCEPT ![r] = l]
    BY DEF ResolveGitCommit, world3
  <1>3. l \in {"download", "lock archive"} /\ (l = "download" => remote = "hosted") /\ l \in Places
    BY DEF Places
  <1>4. at' \in [Resolvers -> Places] /\ at'[r] = l /\ \A s \in Resolvers \ {r} : at'[s] = at[s]
    BY <1>1, <1>2, <1>3, Moved
  <1>5. c \in Commits /\ (moves = 0 /\ reference[r] = "branch" => c = "a")
    BY <1>1 DEF SourceTypeOK
  <1>6. /\ commit' \in [Resolvers -> Commits \cup {Missing}] /\ commit'[r] = c
        /\ \A s \in Resolvers \ {r} : commit'[s] = commit[s]
    BY <1>1, <1>2, <1>5 DEF SourceTypeOK
  <1>7. SourceTypeOK'
    BY <1>1, <1>2, <1>4, <1>6 DEF SourceTypeOK
  <1>8. SourceLocked(r)' /\ SourceKnown(r)'
    BY <1>2, <1>3, <1>4, <1>5, <1>6 DEF SourceLocked, SourceKnown, Archiving, Cloning, Planting, Fetched, Served
  <1>9. ScratchUsed(r)'
    BY <1>1, <1>2, <1>4 DEF ScratchUsed
  <1>10. at'[r] \notin Fetched
    BY <1>3, <1>4 DEF Fetched
  <1> QED
    BY <1>2, <1>4, <1>5, <1>6, <1>7, <1>8, <1>9, <1>10, SourceAssembleKept

(* The cached archive is validated; an unreadable one is removed. *)
LEMMA CheckArchiveStep ==
    ASSUME SourceInv, NEW r \in Resolvers, CheckArchive(r)
    PROVE  SourceInv'
  <1>1. at[r] = "check archive" /\ SourceTypeOK /\ SourceLocked(r) /\ ScratchUsed(r) /\ SourceKnown(r) /\ commit[r] \in Commits
        /\ (moves = 0 /\ reference[r] = "branch" => commit[r] = "a")
        /\ (moves = 0 /\ at[r] \in Fetched => content[r] = commit[r])
    BY SourceBefore DEF CheckArchive
  <1>2. /\ content' = content /\ commit' = commit /\ reference' = reference /\ remote' = remote /\ moves' = moves
        /\ branch' = branch /\ scratch' = scratch
    BY DEF CheckArchive, world3
  <1>3. "archive" \in Caches /\ "clone" \in Caches /\ "source-tree" \in Caches
        /\ "read archive" \in Places /\ "git archive" \in Places /\ Missing \notin Commits
    BY DEF Places, Caches, Missing, Commits
  <1>4. ASSUME ValidateGitArchiveCache(r) PROVE SourceInv'
    <2>1. at' = [at EXCEPT ![r] = "read archive"] /\ lock' = FreedOf(r, "archive") /\ cached' = cached
      BY <1>4 DEF CheckArchive
    <2>2. at' \in [Resolvers -> Places] /\ at'[r] = "read archive" /\ \A s \in Resolvers \ {r} : at'[s] = at[s]
      BY <1>1, <1>3, <2>1, Moved
    <2>3. /\ lock' \in [Caches -> [Commits -> Resolvers \cup {Nobody}]]
          /\ \A s \in Resolvers \ {r}, j \in Caches, c \in Commits : lock[j][c] = s => lock'[j][c] = s
      BY <1>1, <1>3, <2>1, LockFreedOf
    <2>4. SourceTypeOK'
      BY <1>1, <1>2, <2>1, <2>2, <2>3 DEF SourceTypeOK
    <2>5. SourceLocked(r)' /\ SourceKnown(r)' /\ ScratchUsed(r)' /\ at'[r] \notin Fetched
      BY <1>1, <1>2, <2>2 DEF SourceLocked, SourceKnown, ScratchUsed, Archiving, Cloning, Planting, Fetched, Served
    <2> QED
      BY <1>1, <1>2, <2>1, <2>2, <2>3, <2>4, <2>5, SourceAssembleKept
  <1>5. ASSUME ~ValidateGitArchiveCache(r) PROVE SourceInv'
    <2>1. /\ at' = [at EXCEPT ![r] = "git archive"] /\ lock' = lock
          /\ cached' = [cached EXCEPT !["archive"][commit[r]] = Missing]
      BY <1>5 DEF CheckArchive
    <2>2. at' \in [Resolvers -> Places] /\ at'[r] = "git archive" /\ \A s \in Resolvers \ {r} : at'[s] = at[s]
      BY <1>1, <1>3, <2>1, Moved
    <2>3. /\ cached' \in [Caches -> [Commits -> Commits \cup {Missing, Torn}]]
          /\ cached'["archive"][commit[r]] = Missing
          /\ \A j \in Caches, c \in Commits : j # "archive" \/ c # commit[r] => cached'[j][c] = cached[j][c]
      BY <1>1, <1>3, <2>1 DEF SourceTypeOK
    <2>4. lock["archive"][commit[r]] = r /\ cached["archive"][commit[r]] \notin Commits
      BY <1>1, <1>5 DEF SourceLocked, ValidateGitArchiveCache
    <2>5. SourceTypeOK'
      BY <1>1, <1>2, <2>1, <2>2, <2>3 DEF SourceTypeOK
    <2>6. SourceLocked(r)' /\ SourceKnown(r)' /\ ScratchUsed(r)' /\ at'[r] \notin Fetched
      BY <1>1, <1>2, <2>1, <2>2, <2>3, <2>4
         DEF SourceLocked, SourceKnown, ScratchUsed, Archiving, Cloning, Planting, Fetched, Served
    <2>7. \A c \in Commits : /\ cached'["source-tree"][c] = cached["source-tree"][c]
                             /\ c # commit[r] => cached'["archive"][c] = cached["archive"][c]
      BY <1>3, <2>3
    <2>8. ResultsKept(r)
      BY <2>4, <2>7 DEF ResultsKept
    <2>9. moves = 0 => ContentsKeyed'
      BY <1>3, <2>3, <2>7 DEF SourceInv, BranchStays, ContentsKeyed
    <2> QED
      BY <1>1, <1>2, <2>1, <2>2, <2>5, <2>6, <2>8, <2>9, SourceAssemble
  <1> QED
    BY <1>4, <1>5

(* git archive of the reference, or the fallback for a commit. *)
LEMMA GitArchiveStep ==
    ASSUME SourceInv, NEW r \in Resolvers, GitArchive(r)
    PROVE  SourceInv'
  <1>1. at[r] = "git archive" /\ SourceTypeOK /\ SourceLocked(r) /\ ScratchUsed(r) /\ SourceKnown(r) /\ commit[r] \in Commits
        /\ (moves = 0 /\ reference[r] = "branch" => commit[r] = "a")
        /\ (moves = 0 /\ at[r] \in Fetched => content[r] = commit[r])
    BY SourceBefore DEF GitArchive
  <1>2. /\ cached' = cached /\ commit' = commit /\ reference' = reference /\ remote' = remote /\ moves' = moves
        /\ branch' = branch /\ lock' = lock /\ scratch' = scratch
    BY DEF GitArchive, world3
  <1>3. "write archive" \in Places /\ "lock clone" \in Places
    BY DEF Places
  <1>4. moves = 0 => branch = "a"
    BY DEF SourceInv, BranchStays
  <1>5. ASSUME NEW v \in Commits, content' = [content EXCEPT ![r] = v], at' = [at EXCEPT ![r] = "write archive"],
               moves = 0 => v = commit[r]
        PROVE  SourceInv'
    <2>1. at' \in [Resolvers -> Places] /\ at'[r] = "write archive" /\ \A s \in Resolvers \ {r} : at'[s] = at[s]
      BY <1>1, <1>3, <1>5, Moved
    <2>2. /\ content' \in [Resolvers -> Commits \cup {Missing}] /\ content'[r] = v
          /\ \A s \in Resolvers \ {r} : content'[s] = content[s]
      BY <1>1, <1>5 DEF SourceTypeOK
    <2>3. SourceTypeOK'
      BY <1>1, <1>2, <2>1, <2>2 DEF SourceTypeOK
    <2>4. SourceLocked(r)' /\ SourceKnown(r)' /\ ScratchUsed(r)'
      BY <1>1, <1>2, <2>1, <2>2
         DEF SourceLocked, SourceKnown, ScratchUsed, Archiving, Cloning, Planting, Fetched, Served
    <2> QED
      BY <1>1, <1>2, <1>5, <2>1, <2>2, <2>3, <2>4, SourceAssembleKept
  <1>6. ASSUME content' = content, at' = [at EXCEPT ![r] = "lock clone"] PROVE SourceInv'
    <2>1. at' \in [Resolvers -> Places] /\ at'[r] = "lock clone" /\ \A s \in Resolvers \ {r} : at'[s] = at[s]
      BY <1>1, <1>3, <1>6, Moved
    <2>2. SourceTypeOK'
      BY <1>1, <1>2, <1>6, <2>1 DEF SourceTypeOK
    <2>3. SourceLocked(r)' /\ SourceKnown(r)' /\ ScratchUsed(r)' /\ at'[r] \notin Fetched
      BY <1>1, <1>2, <1>6, <2>1
         DEF SourceLocked, SourceKnown, ScratchUsed, Archiving, Cloning, Planting, Fetched, Served
    <2> QED
      BY <1>1, <1>2, <1>6, <2>1, <2>2, <2>3, SourceAssembleKept
  <1>7. branch \in Commits
    BY <1>1 DEF SourceTypeOK
  <1>8. ASSUME content' = [content EXCEPT ![r] = IF reference[r] = "branch" THEN branch ELSE commit[r]],
               at' = [at EXCEPT ![r] = "write archive"]
        PROVE  SourceInv'
    <2> PICK v : v = IF reference[r] = "branch" THEN branch ELSE commit[r]
      OBVIOUS
    <2>1. v \in Commits /\ (moves = 0 => v = commit[r])
      BY <1>1, <1>4, <1>7
    <2> QED
      BY <1>5, <1>8, <2>1
  <1>9. ASSUME content' = [content EXCEPT ![r] = commit[r]], at' = [at EXCEPT ![r] = "write archive"]
        PROVE  SourceInv'
    BY <1>1, <1>5, <1>9
  <1> QED
    BY <1>6, <1>8, <1>9 DEF GitArchive

(* archive_git_commit_locally, up to the clone in scratch. *)
LEMMA CloneRepositoryStep ==
    ASSUME SourceInv, NEW r \in Resolvers, CloneRepository(r)
    PROVE  SourceInv'
  <1>1. at[r] = "clone" /\ SourceTypeOK /\ SourceLocked(r) /\ ScratchUsed(r) /\ SourceKnown(r) /\ commit[r] \in Commits
        /\ (moves = 0 /\ reference[r] = "branch" => commit[r] = "a")
        /\ (moves = 0 /\ at[r] \in Fetched => content[r] = commit[r])
    BY SourceBefore DEF CloneRepository
  <1>2. /\ content' = content /\ commit' = commit /\ reference' = reference /\ remote' = remote /\ moves' = moves
        /\ branch' = branch /\ lock' = lock
    BY DEF CloneRepository, world3
  <1>3. "archive" \in Caches /\ "clone" \in Caches /\ "source-tree" \in Caches
        /\ "fetch" \in Places /\ "publish clone" \in Places
    BY DEF Places, Caches
  <1>4. ASSUME at' = [at EXCEPT ![r] = "fetch"], cached' = cached, scratch' = scratch PROVE SourceInv'
    <2>1. at' \in [Resolvers -> Places] /\ at'[r] = "fetch" /\ \A s \in Resolvers \ {r} : at'[s] = at[s]
      BY <1>1, <1>3, <1>4, Moved
    <2>2. SourceTypeOK'
      BY <1>1, <1>2, <1>4, <2>1 DEF SourceTypeOK
    <2>3. SourceLocked(r)' /\ SourceKnown(r)' /\ ScratchUsed(r)' /\ at'[r] \notin Fetched
      BY <1>1, <1>2, <1>4, <2>1
         DEF SourceLocked, SourceKnown, ScratchUsed, Archiving, Cloning, Planting, Fetched, Served
    <2> QED
      BY <1>1, <1>2, <1>4, <2>1, <2>2, <2>3, SourceAssembleKept
  <1>5. ASSUME at' = [at EXCEPT ![r] = "publish clone"], cached' = [cached EXCEPT !["clone"][commit[r]] = Missing],
               scratch' = [scratch EXCEPT ![r] = "clone"]
        PROVE  SourceInv'
    <2>1. at' \in [Resolvers -> Places] /\ at'[r] = "publish clone" /\ \A s \in Resolvers \ {r} : at'[s] = at[s]
      BY <1>1, <1>3, <1>5, Moved
    <2>2. /\ cached' \in [Caches -> [Commits -> Commits \cup {Missing, Torn}]]
          /\ \A j \in Caches, c \in Commits : j # "clone" \/ c # commit[r] => cached'[j][c] = cached[j][c]
      BY <1>1, <1>3, <1>5 DEF SourceTypeOK
    <2>3. /\ scratch' \in [Resolvers -> {"none"} \cup Caches] /\ scratch'[r] = "clone"
          /\ \A s \in Resolvers \ {r} : scratch'[s] = scratch[s]
      BY <1>1, <1>3, <1>5 DEF SourceTypeOK
    <2>4. \A c \in Commits : /\ cached'["archive"][c] = cached["archive"][c]
                             /\ cached'["source-tree"][c] = cached["source-tree"][c]
      BY <1>3, <2>2
    <2>5. SourceTypeOK'
      BY <1>1, <1>2, <2>1, <2>2, <2>3 DEF SourceTypeOK
    <2>6. SourceLocked(r)' /\ SourceKnown(r)' /\ ScratchUsed(r)' /\ at'[r] \notin Fetched
      BY <1>1, <1>2, <2>1, <2>3, <2>4
         DEF SourceLocked, SourceKnown, ScratchUsed, Archiving, Cloning, Planting, Fetched, Served
    <2>7. ResultsKept(r) /\ (moves = 0 => ContentsKeyed')
      BY <2>4 DEF ResultsKept, SourceInv, BranchStays, ContentsKeyed
    <2> QED
      BY <1>1, <1>2, <2>1, <2>3, <2>5, <2>6, <2>7, SourceAssemble
  <1> QED
    BY <1>4, <1>5 DEF CloneRepository

(* The clone is renamed into place. *)
LEMMA PublishCloneStep ==
    ASSUME SourceInv, NEW r \in Resolvers, PublishClone(r)
    PROVE  SourceInv'
  <1>1. at[r] = "publish clone" /\ SourceTypeOK /\ SourceLocked(r) /\ ScratchUsed(r) /\ SourceKnown(r) /\ commit[r] \in Commits
        /\ (moves = 0 /\ reference[r] = "branch" => commit[r] = "a")
        /\ (moves = 0 /\ at[r] \in Fetched => content[r] = commit[r])
    BY SourceBefore DEF PublishClone
  <1>2. /\ content' = content /\ commit' = commit /\ reference' = reference /\ remote' = remote /\ moves' = moves
        /\ branch' = branch /\ lock' = lock /\ at' = [at EXCEPT ![r] = "fetch"]
        /\ cached' = [cached EXCEPT !["clone"][commit[r]] = commit[r]] /\ scratch' = [scratch EXCEPT ![r] = "none"]
    BY DEF PublishClone, world3
  <1>3. "archive" \in Caches /\ "clone" \in Caches /\ "source-tree" \in Caches
        /\ "fetch" \in Places
    BY DEF Places, Caches
  <1>4. at' \in [Resolvers -> Places] /\ at'[r] = "fetch" /\ \A s \in Resolvers \ {r} : at'[s] = at[s]
    BY <1>1, <1>2, <1>3, Moved
  <1>5. /\ cached' \in [Caches -> [Commits -> Commits \cup {Missing, Torn}]]
        /\ \A j \in Caches, c \in Commits : j # "clone" \/ c # commit[r] => cached'[j][c] = cached[j][c]
    BY <1>1, <1>2, <1>3 DEF SourceTypeOK
  <1>6. /\ scratch' \in [Resolvers -> {"none"} \cup Caches] /\ scratch'[r] = "none"
        /\ \A s \in Resolvers \ {r} : scratch'[s] = scratch[s]
    BY <1>1, <1>2 DEF SourceTypeOK
  <1>7. \A c \in Commits : /\ cached'["archive"][c] = cached["archive"][c]
                           /\ cached'["source-tree"][c] = cached["source-tree"][c]
    BY <1>3, <1>5
  <1>8. SourceTypeOK'
    BY <1>1, <1>2, <1>4, <1>5, <1>6 DEF SourceTypeOK
  <1>9. SourceLocked(r)' /\ SourceKnown(r)' /\ ScratchUsed(r)' /\ at'[r] \notin Fetched
    BY <1>1, <1>2, <1>4, <1>6, <1>7
       DEF SourceLocked, SourceKnown, ScratchUsed, Archiving, Cloning, Planting, Fetched, Served
  <1>10. ResultsKept(r) /\ (moves = 0 => ContentsKeyed')
    BY <1>7 DEF ResultsKept, SourceInv, BranchStays, ContentsKeyed
  <1> QED
    BY <1>1, <1>2, <1>4, <1>6, <1>8, <1>9, <1>10, SourceAssemble

(* The archive is renamed to where it was found missing, and its lock given back. *)
LEMMA PublishArchiveStep ==
    ASSUME SourceInv, NEW r \in Resolvers, PublishArchive(r)
    PROVE  SourceInv'
  <1>1. at[r] = "publish archive" /\ SourceTypeOK /\ SourceLocked(r) /\ ScratchUsed(r) /\ SourceKnown(r) /\ commit[r] \in Commits
        /\ (moves = 0 /\ reference[r] = "branch" => commit[r] = "a")
        /\ (moves = 0 /\ at[r] \in Fetched => content[r] = commit[r])
    BY SourceBefore DEF PublishArchive
  <1>2. /\ content' = content /\ commit' = commit /\ reference' = reference /\ remote' = remote /\ moves' = moves
        /\ branch' = branch /\ lock' = FreedOf(r, "archive") /\ at' = [at EXCEPT ![r] = "read archive"]
        /\ cached' = [cached EXCEPT !["archive"][commit[r]] = content[r]] /\ scratch' = [scratch EXCEPT ![r] = "none"]
    BY DEF PublishArchive, world3
  <1>3. "archive" \in Caches /\ "clone" \in Caches /\ "source-tree" \in Caches
        /\ "read archive" \in Places /\ Missing \notin Commits
    BY DEF Places, Caches, Missing, Commits
  <1>4. at' \in [Resolvers -> Places] /\ at'[r] = "read archive" /\ \A s \in Resolvers \ {r} : at'[s] = at[s]
    BY <1>1, <1>2, <1>3, Moved
  <1>5. content[r] \in Commits /\ (moves = 0 => content[r] = commit[r])
        /\ lock["archive"][commit[r]] = r /\ cached["archive"][commit[r]] = Missing
    BY <1>1 DEF SourceKnown, SourceLocked, Fetched, Archiving
  <1>6. /\ cached' \in [Caches -> [Commits -> Commits \cup {Missing, Torn}]]
        /\ cached'["archive"][commit[r]] = content[r]
        /\ \A j \in Caches, c \in Commits : j # "archive" \/ c # commit[r] => cached'[j][c] = cached[j][c]
    BY <1>1, <1>2, <1>3, <1>5 DEF SourceTypeOK
  <1>7. /\ scratch' \in [Resolvers -> {"none"} \cup Caches] /\ scratch'[r] = "none"
        /\ \A s \in Resolvers \ {r} : scratch'[s] = scratch[s]
    BY <1>1, <1>2 DEF SourceTypeOK
  <1>8. /\ lock' \in [Caches -> [Commits -> Resolvers \cup {Nobody}]]
        /\ \A s \in Resolvers \ {r}, j \in Caches, c \in Commits : lock[j][c] = s => lock'[j][c] = s
    BY <1>1, <1>2, <1>3, LockFreedOf
  <1>9. SourceTypeOK'
    BY <1>1, <1>2, <1>4, <1>6, <1>7, <1>8 DEF SourceTypeOK
  <1>10. SourceLocked(r)' /\ SourceKnown(r)' /\ ScratchUsed(r)' /\ at'[r] \notin Fetched
    BY <1>1, <1>2, <1>4, <1>7
       DEF SourceLocked, SourceKnown, ScratchUsed, Archiving, Cloning, Planting, Fetched, Served
  <1>11. \A c \in Commits : /\ cached'["source-tree"][c] = cached["source-tree"][c]
                            /\ c # commit[r] => cached'["archive"][c] = cached["archive"][c]
    BY <1>3, <1>6
  <1>12. ResultsKept(r)
    BY <1>3, <1>5, <1>11 DEF ResultsKept
  <1>13. moves = 0 => ContentsKeyed'
    BY <1>5, <1>6, <1>11 DEF SourceInv, BranchStays, ContentsKeyed
  <1> QED
    BY <1>1, <1>2, <1>4, <1>7, <1>8, <1>9, <1>10, <1>12, <1>13, SourceAssemble

(* The archive is read without its lock: nobody replaces a readable one. *)
LEMMA ReadArchiveStep ==
    ASSUME SourceInv, NEW r \in Resolvers, ReadArchive(r)
    PROVE  SourceInv'
  <1>1. at[r] = "read archive" /\ ValidateGitArchiveCache(r) /\ SourceTypeOK /\ SourceLocked(r) /\ ScratchUsed(r) /\ SourceKnown(r) /\ commit[r] \in Commits
        /\ (moves = 0 /\ reference[r] = "branch" => commit[r] = "a")
        /\ (moves = 0 /\ at[r] \in Fetched => content[r] = commit[r])
    BY SourceBefore DEF ReadArchive
  <1>2. /\ cached' = cached /\ commit' = commit /\ reference' = reference /\ remote' = remote /\ moves' = moves
        /\ branch' = branch /\ lock' = lock /\ scratch' = scratch /\ at' = [at EXCEPT ![r] = "lock tree"]
        /\ content' = [content EXCEPT ![r] = cached["archive"][commit[r]]]
    BY DEF ReadArchive, world3
  <1>3. "lock tree" \in Places /\ cached["archive"][commit[r]] \in Commits
    BY <1>1 DEF Places, ValidateGitArchiveCache
  <1>4. at' \in [Resolvers -> Places] /\ at'[r] = "lock tree" /\ \A s \in Resolvers \ {r} : at'[s] = at[s]
    BY <1>1, <1>2, <1>3, Moved
  <1>5. /\ content' \in [Resolvers -> Commits \cup {Missing}] /\ content'[r] = cached["archive"][commit[r]]
        /\ \A s \in Resolvers \ {r} : content'[s] = content[s]
    BY <1>1, <1>2, <1>3 DEF SourceTypeOK
  <1>6. moves = 0 => content'[r] = commit[r]
    BY <1>1, <1>3, <1>5 DEF SourceInv, BranchStays, ContentsKeyed
  <1>7. SourceTypeOK'
    BY <1>1, <1>2, <1>4, <1>5 DEF SourceTypeOK
  <1>8. SourceLocked(r)' /\ SourceKnown(r)' /\ ScratchUsed(r)'
    BY <1>1, <1>2, <1>3, <1>4, <1>5
       DEF SourceLocked, SourceKnown, ScratchUsed, Archiving, Cloning, Planting, Fetched, Served
  <1> QED
    BY <1>1, <1>2, <1>4, <1>5, <1>6, <1>7, <1>8, SourceAssembleKept

(* cache_git_source_tree: a tree with a manifest is used as it is. *)
LEMMA CheckTreeStep ==
    ASSUME SourceInv, NEW r \in Resolvers, CheckTree(r)
    PROVE  SourceInv'
  <1>1. at[r] = "check tree" /\ SourceTypeOK /\ SourceLocked(r) /\ ScratchUsed(r) /\ SourceKnown(r) /\ commit[r] \in Commits
        /\ (moves = 0 /\ reference[r] = "branch" => commit[r] = "a")
        /\ (moves = 0 /\ at[r] \in Fetched => content[r] = commit[r])
    BY SourceBefore DEF CheckTree
  <1>2. /\ content' = content /\ commit' = commit /\ reference' = reference /\ remote' = remote /\ moves' = moves
        /\ branch' = branch
    BY DEF CheckTree, world3
  <1>3. "archive" \in Caches /\ "clone" \in Caches /\ "source-tree" \in Caches
        /\ "done" \in Places /\ "publish tree" \in Places /\ Missing \notin Commits
    BY DEF Places, Caches, Missing, Commits
  <1>4. ASSUME cached["source-tree"][commit[r]] \in Commits PROVE SourceInv'
    <2>1. at' = [at EXCEPT ![r] = "done"] /\ lock' = FreedOf(r, "source-tree") /\ cached' = cached /\ scratch' = scratch
      BY <1>4 DEF CheckTree
    <2>2. at' \in [Resolvers -> Places] /\ at'[r] = "done" /\ \A s \in Resolvers \ {r} : at'[s] = at[s]
      BY <1>1, <1>3, <2>1, Moved
    <2>3. /\ lock' \in [Caches -> [Commits -> Resolvers \cup {Nobody}]]
          /\ \A s \in Resolvers \ {r}, j \in Caches, c \in Commits : lock[j][c] = s => lock'[j][c] = s
      BY <1>1, <1>3, <2>1, LockFreedOf
    <2>4. SourceTypeOK'
      BY <1>1, <1>2, <2>1, <2>2, <2>3 DEF SourceTypeOK
    <2>5. SourceLocked(r)' /\ SourceKnown(r)' /\ ScratchUsed(r)' /\ at[r] \in Fetched
      BY <1>1, <1>2, <1>4, <2>1, <2>2
         DEF SourceLocked, SourceKnown, ScratchUsed, Archiving, Cloning, Planting, Fetched, Served
    <2> QED
      BY <1>1, <1>2, <2>1, <2>2, <2>3, <2>4, <2>5, SourceAssembleKept
  <1>5. ASSUME cached["source-tree"][commit[r]] \notin Commits PROVE SourceInv'
    <2>1. /\ at' = [at EXCEPT ![r] = "publish tree"] /\ lock' = lock /\ scratch' = [scratch EXCEPT ![r] = "source-tree"]
          /\ cached' = [cached EXCEPT !["source-tree"][commit[r]] = Missing]
      BY <1>5 DEF CheckTree
    <2>2. at' \in [Resolvers -> Places] /\ at'[r] = "publish tree" /\ \A s \in Resolvers \ {r} : at'[s] = at[s]
      BY <1>1, <1>3, <2>1, Moved
    <2>3. /\ cached' \in [Caches -> [Commits -> Commits \cup {Missing, Torn}]]
          /\ cached'["source-tree"][commit[r]] = Missing
          /\ \A j \in Caches, c \in Commits : j # "source-tree" \/ c # commit[r] => cached'[j][c] = cached[j][c]
      BY <1>1, <1>3, <2>1 DEF SourceTypeOK
    <2>4. /\ scratch' \in [Resolvers -> {"none"} \cup Caches] /\ scratch'[r] = "source-tree"
          /\ \A s \in Resolvers \ {r} : scratch'[s] = scratch[s]
      BY <1>1, <1>3, <2>1 DEF SourceTypeOK
    <2>5. SourceTypeOK'
      BY <1>1, <1>2, <2>1, <2>2, <2>3, <2>4 DEF SourceTypeOK
    <2>6. \A c \in Commits : /\ cached'["archive"][c] = cached["archive"][c]
                             /\ c # commit[r] => cached'["source-tree"][c] = cached["source-tree"][c]
      BY <1>3, <2>3
    <2>7. SourceLocked(r)' /\ ScratchUsed(r)' /\ at[r] \in Fetched
      BY <1>1, <1>2, <2>1, <2>2, <2>4 DEF SourceLocked, ScratchUsed, Archiving, Cloning, Planting, Fetched
    <2>8. SourceKnown(r)'
      BY <1>1, <1>2, <2>2, <2>6 DEF SourceKnown, Archiving, Fetched, Served
    <2>9. ResultsKept(r)
      BY <1>5, <2>6 DEF ResultsKept
    <2>10. moves = 0 => ContentsKeyed'
      BY <1>3, <2>3, <2>6 DEF SourceInv, BranchStays, ContentsKeyed
    <2> QED
      BY <1>1, <1>2, <2>1, <2>2, <2>4, <2>5, <2>7, <2>8, <2>9, <2>10, SourceAssemble
  <1> QED
    BY <1>4, <1>5

(* The tree is renamed into place, and its lock given back. *)
LEMMA PublishTreeStep ==
    ASSUME SourceInv, NEW r \in Resolvers, PublishTree(r)
    PROVE  SourceInv'
  <1>1. at[r] = "publish tree" /\ SourceTypeOK /\ SourceLocked(r) /\ ScratchUsed(r) /\ SourceKnown(r) /\ commit[r] \in Commits
        /\ (moves = 0 /\ reference[r] = "branch" => commit[r] = "a")
        /\ (moves = 0 /\ at[r] \in Fetched => content[r] = commit[r])
    BY SourceBefore DEF PublishTree
  <1>2. /\ content' = content /\ commit' = commit /\ reference' = reference /\ remote' = remote /\ moves' = moves
        /\ branch' = branch /\ lock' = FreedOf(r, "source-tree") /\ at' = [at EXCEPT ![r] = "done"]
        /\ cached["source-tree"][commit[r]] = Missing /\ scratch' = [scratch EXCEPT ![r] = "none"]
        /\ cached' = [cached EXCEPT !["source-tree"][commit[r]] = content[r]]
    BY DEF PublishTree, world3
  <1>3. "archive" \in Caches /\ "clone" \in Caches /\ "source-tree" \in Caches
        /\ "done" \in Places /\ Missing \notin Commits
    BY DEF Places, Caches, Missing, Commits
  <1>4. at' \in [Resolvers -> Places] /\ at'[r] = "done" /\ \A s \in Resolvers \ {r} : at'[s] = at[s]
    BY <1>1, <1>2, <1>3, Moved
  <1>5. at[r] \in Fetched /\ at[r] \in Served /\ content[r] \in Commits /\ (moves = 0 => content[r] = commit[r])
    BY <1>1 DEF SourceKnown, Fetched, Served
  <1>6. /\ cached' \in [Caches -> [Commits -> Commits \cup {Missing, Torn}]]
        /\ cached'["source-tree"][commit[r]] = content[r]
        /\ \A j \in Caches, c \in Commits : j # "source-tree" \/ c # commit[r] => cached'[j][c] = cached[j][c]
    BY <1>1, <1>2, <1>3, <1>5 DEF SourceTypeOK
  <1>7. /\ scratch' \in [Resolvers -> {"none"} \cup Caches] /\ scratch'[r] = "none"
        /\ \A s \in Resolvers \ {r} : scratch'[s] = scratch[s]
    BY <1>1, <1>2 DEF SourceTypeOK
  <1>8. /\ lock' \in [Caches -> [Commits -> Resolvers \cup {Nobody}]]
        /\ \A s \in Resolvers \ {r}, j \in Caches, c \in Commits : lock[j][c] = s => lock'[j][c] = s
    BY <1>1, <1>2, <1>3, LockFreedOf
  <1>9. SourceTypeOK'
    BY <1>1, <1>2, <1>4, <1>6, <1>7, <1>8 DEF SourceTypeOK
  <1>10. \A c \in Commits : /\ cached'["archive"][c] = cached["archive"][c]
                            /\ c # commit[r] => cached'["source-tree"][c] = cached["source-tree"][c]
    BY <1>3, <1>6
  <1>11. SourceLocked(r)' /\ ScratchUsed(r)'
    BY <1>1, <1>2, <1>4, <1>7 DEF SourceLocked, ScratchUsed, Archiving, Cloning, Planting
  <1>12. SourceKnown(r)'
    BY <1>1, <1>2, <1>4, <1>5, <1>6, <1>10 DEF SourceKnown, Archiving, Fetched
  <1>13. ResultsKept(r)
    BY <1>2, <1>3, <1>10 DEF ResultsKept
  <1>14. moves = 0 => ContentsKeyed'
    BY <1>5, <1>6, <1>10 DEF SourceInv, BranchStays, ContentsKeyed
  <1> QED
    BY <1>1, <1>2, <1>4, <1>5, <1>7, <1>8, <1>9, <1>11, <1>12, <1>13, <1>14, SourceAssemble

(* A process fails and cleans up, or dies and does not. *)
LEMMA SourceEnds ==
    ASSUME SourceInv, NEW r \in Resolvers, GiveUpSource(r) \/ Kill(r)
    PROVE  SourceInv'
  <1>1. at[r] # "start" /\ SourceTypeOK /\ ScratchUsed(r) /\ SourceKnown(r)
        /\ (moves = 0 /\ reference[r] = "branch" => commit[r] = "a")
    BY SourceBefore DEF GiveUpSource, Kill, Busy
  <1> PICK l : l = at'[r]
    OBVIOUS
  <1>2. /\ cached' = cached /\ content' = content /\ commit' = commit /\ reference' = reference /\ remote' = remote
        /\ moves' = moves /\ branch' = branch /\ lock' = Freed(r)
        /\ \/ at' = [at EXCEPT ![r] = "failed"] /\ scratch' = [scratch EXCEPT ![r] = "none"]
           \/ at' = [at EXCEPT ![r] = "killed"] /\ scratch' = scratch
    BY DEF GiveUpSource, Kill, world3
  <1>3. /\ at' \in [Resolvers -> Places] /\ l \in {"failed", "killed"} /\ (l = "failed" => scratch'[r] = "none")
        /\ \A s \in Resolvers \ {r} : at'[s] = at[s]
    BY <1>1, <1>2 DEF SourceTypeOK, Places
  <1>4. scratch' \in [Resolvers -> {"none"} \cup Caches] /\ \A s \in Resolvers \ {r} : scratch'[s] = scratch[s]
    BY <1>1, <1>2 DEF SourceTypeOK
  <1>5. /\ lock' \in [Caches -> [Commits -> Resolvers \cup {Nobody}]]
        /\ \A s \in Resolvers \ {r}, j \in Caches, c \in Commits : lock[j][c] = s => lock'[j][c] = s
    BY <1>1, <1>2, LocksFreed
  <1>6. SourceTypeOK'
    BY <1>1, <1>2, <1>3, <1>4, <1>5 DEF SourceTypeOK
  <1>7. SourceLocked(r)' /\ SourceKnown(r)' /\ ScratchUsed(r)' /\ at'[r] \notin Fetched
    BY <1>1, <1>2, <1>3 DEF SourceLocked, SourceKnown, ScratchUsed, Archiving, Cloning, Planting, Fetched, Served
  <1> QED
    BY <1>1, <1>2, <1>3, <1>4, <1>5, <1>6, <1>7, SourceAssembleKept

(* Every step of the source cache keeps the invariant. *)
LEMMA SourceStep ==
    ASSUME SourceInv, [SourceNext]_sourceVars
    PROVE  SourceInv'
  <1>1. CASE UNCHANGED sourceVars
    <2>1. SourceTypeOK' /\ BranchStays'
      BY <1>1 DEF sourceVars, SourceInv, SourceTypeOK, BranchStays, ContentsKeyed
    <2>2. ASSUME NEW r \in Resolvers PROVE SourceLocked(r)' /\ ScratchUsed(r)' /\ SourceKnown(r)'
      BY <1>1 DEF sourceVars, SourceInv, SourceLocked, ScratchUsed, SourceKnown
    <2> QED
      BY <2>1, <2>2 DEF SourceInv
  <1>2. CASE MoveBranch
    <2>1. /\ moves' = moves + 1 /\ moves' \in Nat /\ moves' # 0 /\ branch' \in Commits
          /\ remote' = remote /\ cached' = cached /\ lock' = lock /\ scratch' = scratch /\ at' = at
          /\ reference' = reference /\ commit' = commit /\ content' = content
      BY <1>2 DEF MoveBranch, SourceInv, SourceTypeOK, Commits
    <2>2. SourceTypeOK' /\ BranchStays'
      BY <2>1 DEF SourceInv, SourceTypeOK, BranchStays
    <2>3. ASSUME NEW r \in Resolvers PROVE SourceLocked(r)' /\ ScratchUsed(r)' /\ SourceKnown(r)'
      BY <2>1 DEF SourceInv, SourceLocked, ScratchUsed, SourceKnown
    <2> QED
      BY <2>2, <2>3 DEF SourceInv
  <1>3. ASSUME NEW r \in Resolvers, ResolverStep(r) PROVE SourceInv'
    BY <1>3, ResolveGitCommitStep, DownloadHostedStep, OpenArchiveStep, CheckArchiveStep, GitArchiveStep,
       OpenCloneStep, CloneRepositoryStep, PublishCloneStep, FetchCommitStep, WriteArchiveStep, PublishArchiveStep,
       ReadArchiveStep, OpenTreeStep, CheckTreeStep, PublishTreeStep DEF ResolverStep
  <1> QED
    BY <1>1, <1>2, <1>3, SourceEnds DEF SourceNext

(***************************************************************************)
(* The worlds of the run MCMetadata.                                       *)
(***************************************************************************)
MetadataInv == SchemaInv /\ LeaseInv /\ RegistrationInv /\ SourceInv

(* Each step is one of one world. *)
LEMMA MetadataStep ==
    ASSUME MetadataInv, [MachineNext]_machineVars
    PROVE  MetadataInv'
  <1>1. [SchemaNext]_schemaVars
    BY DEF MachineNext, machineVars
  <1>2. [LeaseNext]_leaseVars
    BY DEF MachineNext, machineVars
  <1>3. [RegistrationNext]_registrationVars
    BY DEF MachineNext, machineVars
  <1>4. [SourceNext]_sourceVars
    BY DEF MachineNext, machineVars
  <1> QED
    BY <1>1, <1>2, <1>3, <1>4, SchemaStep, LeaseStep, RegistrationStep, SourceStep DEF MetadataInv

(* The initial states, two stamps never being equal. *)
LEMMA MetadataStart == ~SameMs /\ MachineInit => MetadataInv
  <1> SUFFICES ASSUME ~SameMs, MachineInit PROVE MetadataInv
    OBVIOUS
  <1>1. SchemaInit /\ LeaseInit /\ RegistrationInit /\ SourceInit
    BY DEF MachineInit
  <1>2. SchemaInv
    BY <1>1 DEF SchemaInit, SchemaInv, MigrationSteps, OpenedSchemaWhole
  <1> QED
    BY <1>1, <1>2, LeaseStart, RegistrationStart, SourceStart DEF MetadataInv

(* For any connections and databases, any options and keys of a lease, any *)
(* projects, graphs and losses of the index: a connection that opened      *)
(* works on the whole schema; a lease survives one failed renewal, and one *)
(* that is lost is noticed within a renewal period and the waits for the   *)
(* index; the graph of an install that succeeded stays the one its project *)
(* owns.  The hypothesis: no two stamps are of the same millisecond.       *)
THEOREM IndexStaysSound == ~SameMs /\ MachineSpec => []IndexSound
  <1>1. MetadataInv => IndexSound
    <2> SUFFICES ASSUME MetadataInv PROVE IndexSound
      OBVIOUS
    <2>1. OwnerSurvives
      BY DEF MetadataInv, RegistrationInv, Finalizing, OwnerSurvives, Trusted
    <2> QED
      BY <2>1, LeaseSafe DEF MetadataInv, SchemaInv, IndexSound
  <1>2. MetadataInv /\ [MachineNext]_machineVars => MetadataInv'
    BY MetadataStep
  <1> QED
    BY <1>1, <1>2, MetadataStart, PTL DEF MachineSpec

(* For any number of processes that resolve, are killed or fail, any       *)
(* references and any pushes to the branch: what resolve_git_source        *)
(* returns is readable and, as long as the branch stays, of its commit;    *)
(* only a killed process leaves scratch behind; no two build one result.   *)
THEOREM SourcesStaySound == MachineSpec => []SourcesSound
  <1>1. MachineInit => SourceInv
    BY SourceStart DEF MachineInit
  <1>2. SourceInv /\ [MachineNext]_machineVars => SourceInv'
    <2> SUFFICES ASSUME SourceInv, [MachineNext]_machineVars PROVE SourceInv'
      OBVIOUS
    <2>1. [SourceNext]_sourceVars
      BY DEF MachineNext, machineVars
    <2> QED
      BY <2>1, SourceStep
  <1>3. SourceInv => SourcesSound
    BY SourceSafe DEF SourcesSound
  <1> QED
    BY <1>1, <1>2, <1>3, PTL DEF MachineSpec
=============================================================================
