----------------------------- MODULE StoreLocks -----------------------------
(***************************************************************************)
(* src/store_lock.rs: the advisory lock files under <store>/locks.         *)
(*                                                                         *)
(* Every store object (artifact, image, derived image, graph, plan) has    *)
(* one lock file.  acquire opens the file and blocks in flock; acquire_all *)
(* sorts and deduplicates the keys and acquires them one at a time; the    *)
(* guards are dropped together, on success, on an error in the middle of   *)
(* the list, or by the operating system when the process dies.             *)
(*                                                                         *)
(* A key is its position in the derived order of ObjectKey (artifacts,     *)
(* images, derived images, graphs, plans, then by id), so the sort is the  *)
(* order of the naturals.                                                  *)
(***************************************************************************)
EXTENDS Naturals

CONSTANTS
    Procs,      \* threads of any bpm process that shares the store
    NumKeys     \* number of object keys

ASSUME NumKeysAssumption == NumKeys \in Nat

VARIABLES
    pc,         \* pc[p]: "idle", "locking" (inside acquire_all) or "holding"
    todo,       \* todo[p]: the keys acquire_all has still to lock
    held        \* held[p]: the keys whose lock file p has locked

vars == <<pc, todo, held>>

Keys == 1 .. NumKeys

TypeOK ==
    /\ pc \in [Procs -> {"idle", "locking", "holding"}]
    /\ todo \in [Procs -> SUBSET Keys]
    /\ held \in [Procs -> SUBSET Keys]

Init ==
    /\ pc = [p \in Procs |-> "idle"]
    /\ todo = [p \in Procs |-> {}]
    /\ held = [p \in Procs |-> {}]

(* Mutant: the sort is forgotten and any remaining key may come next. *)
FirstOfUnsorted(S, k) == k \in S

(* `ordered.sort(); ordered.dedup()`: the set S, taken smallest first. *)
FirstOf(S, k) == k \in S /\ \A j \in S : k <= j

(* acquire_all is called with the keys S (acquire is the case of one key). *)
Call(p, S) ==
    /\ pc[p] = "idle"
    /\ S # {}
    /\ pc' = [pc EXCEPT ![p] = "locking"]
    /\ todo' = [todo EXCEPT ![p] = S]
    /\ UNCHANGED held

(* Mutant: the lock file is opened but the exclusive lock is not taken. *)
AcquireUnlocked(p) ==
    /\ pc[p] = "locking"
    /\ \E k \in Keys :
          /\ FirstOf(todo[p], k)
          /\ held' = [held EXCEPT ![p] = held[p] \cup {k}]
          /\ todo' = [todo EXCEPT ![p] = todo[p] \ {k}]
          /\ pc' = [pc EXCEPT ![p] = IF todo[p] = {k} THEN "holding" ELSE "locking"]

(* Mutant: the guard is recorded for the following key. *)
AcquireOffByOne(p) ==
    /\ pc[p] = "locking"
    /\ \E k \in Keys :
          /\ FirstOf(todo[p], k)
          /\ \A q \in Procs : k \notin held[q]
          /\ held' = [held EXCEPT ![p] = held[p] \cup {k + 1}]
          /\ todo' = [todo EXCEPT ![p] = todo[p] \ {k}]
          /\ pc' = [pc EXCEPT ![p] = IF todo[p] = {k} THEN "holding" ELSE "locking"]

(* Mutant: a busy file makes the caller drop its guards and start again. *)
AcquireBackingOff(p) ==
    /\ pc[p] = "locking"
    /\ \E k \in Keys :
          /\ FirstOf(todo[p], k)
          /\ IF \A q \in Procs : k \notin held[q]
             THEN /\ held' = [held EXCEPT ![p] = held[p] \cup {k}]
                  /\ todo' = [todo EXCEPT ![p] = todo[p] \ {k}]
                  /\ pc' = [pc EXCEPT ![p] = IF todo[p] = {k} THEN "holding" ELSE "locking"]
             ELSE /\ held' = [held EXCEPT ![p] = {}]
                  /\ todo' = [todo EXCEPT ![p] = todo[p] \cup held[p]]
                  /\ UNCHANGED pc

(* flock returns: the file of the next key is locked by nobody else.  The  *)
(* last one completes the vector of guards.                                *)
Acquire(p) ==
    /\ pc[p] = "locking"
    /\ \E k \in Keys :
          /\ FirstOf(todo[p], k)
          /\ \A q \in Procs : k \notin held[q]
          /\ held' = [held EXCEPT ![p] = held[p] \cup {k}]
          /\ todo' = [todo EXCEPT ![p] = todo[p] \ {k}]
          /\ pc' = [pc EXCEPT ![p] = IF todo[p] = {k} THEN "holding" ELSE "locking"]

(* create_dir_all, open or flock fails: `collect` returns the error and    *)
(* drops the guards it has gathered.  A killed process ends the same way.  *)
Abort(p) ==
    /\ pc[p] = "locking"
    /\ pc' = [pc EXCEPT ![p] = "idle"]
    /\ todo' = [todo EXCEPT ![p] = {}]
    /\ held' = [held EXCEPT ![p] = {}]

(* The guards go out of scope, or the process dies holding them. *)
Release(p) ==
    /\ pc[p] = "holding"
    /\ pc' = [pc EXCEPT ![p] = "idle"]
    /\ held' = [held EXCEPT ![p] = {}]
    /\ UNCHANGED todo

Next ==
    \E p \in Procs :
        \/ \E S \in SUBSET Keys : Call(p, S)
        \/ Acquire(p)
        \/ Abort(p)
        \/ Release(p)

Spec == Init /\ [][Next]_vars

(* flock hands a contended lock to each waiter in its turn, and a guard is *)
(* not kept for ever.  Nobody has to call, and no error has to happen.     *)
Fairness ==
    \A p \in Procs : SF_vars(Acquire(p)) /\ WF_vars(Release(p))

FairSpec == Spec /\ Fairness

-----------------------------------------------------------------------------
(* The order acquire_all's deadlock argument rests on: a caller never waits *)
(* for a key that is not above every key it already holds.                  *)
WaitsUpward ==
    \A p \in Procs : \A k \in todo[p] : \A j \in held[p] : j < k

(* k is the key p is blocked on. *)
WaitsFor(p, k) == pc[p] = "locking" /\ FirstOf(todo[p], k)

(* No caller is at the mercy of a circle of callers: whenever somebody is  *)
(* inside acquire_all, some caller can lock its next file or is past       *)
(* acquire_all and can drop its guards ("cannot deadlock").                *)
NoDeadlock ==
    (\E p \in Procs : pc[p] = "locking")
    => \E p \in Procs :
          \/ pc[p] = "holding"
          \/ \E k \in Keys : WaitsFor(p, k) /\ \A q \in Procs : k \notin held[q]

(* Two guards never cover the same object. *)
MutualExclusion ==
    \A p, q \in Procs : p # q => held[p] \cap held[q] = {}

(* What the callers see: the keys of callers whose acquire_all returned.   *)
(* The whole set appears at once and is given back at once.                *)
Atomic == INSTANCE AtomicLocks
            WITH owned <- [p \in Procs |-> IF pc[p] = "holding" THEN held[p] ELSE {}]

AtomicSpec == Atomic!Spec

(* Every acquire_all that does not fail returns. *)
EveryCallReturns ==
    \A p \in Procs : (pc[p] = "locking") ~> (pc[p] # "locking")
=============================================================================
