---------------------------- MODULE AtomicLocks ----------------------------
(***************************************************************************)
(* What the callers of store_lock::acquire_all rely on: a set of object    *)
(* locks is taken in one indivisible step, no two callers hold the same    *)
(* object, and a caller gives back everything it took at once.  The other  *)
(* modules of the project use this view of the lock files; StoreLocks      *)
(* shows that taking the files one by one implements it.                   *)
(***************************************************************************)
EXTENDS Naturals

CONSTANTS
    Procs,      \* threads of any bpm process that shares the store
    NumKeys     \* number of object keys

VARIABLE owned  \* owned[p] = the keys whose guards p holds

Keys == 1 .. NumKeys

TypeOK == owned \in [Procs -> SUBSET Keys]

Init == owned = [p \in Procs |-> {}]

(* No key of S belongs to another caller. *)
Free(p, S) == \A q \in Procs \ {p} : owned[q] \cap S = {}

Take(p) ==
    /\ owned[p] = {}
    /\ \E S \in SUBSET Keys :
          /\ S # {}
          /\ Free(p, S)
          /\ owned' = [owned EXCEPT ![p] = S]

Drop(p) ==
    /\ owned[p] # {}
    /\ owned' = [owned EXCEPT ![p] = {}]

Next == \E p \in Procs : Take(p) \/ Drop(p)

Spec == Init /\ [][Next]_owned

=============================================================================
