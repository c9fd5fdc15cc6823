--------------------------- MODULE LeaseHeartbeat ---------------------------
(***************************************************************************)
(* LeaseGuard in src/metadata/repository.rs with its heartbeat thread, on  *)
(* a clock: the rows it inserts and renews, the time the index makes it    *)
(* wait, the renewals that fail, the rows repair_index deletes, and the    *)
(* flag that check() reads.                                                *)
(***************************************************************************)
EXTENDS Naturals, FiniteSets

CONSTANTS
    LeaseKeys,
    Options,      \* pairs <<ttl, renewEvery>> a caller may ask for
    BusyWait,     \* how long the index may keep a transaction waiting: BUSY_TIMEOUT
    MaxTime       \* bound of the clock

ASSUME LeaseAssumption ==
    Options \subseteq Nat \X Nat /\ BusyWait \in Nat /\ MaxTime \in Nat \ {0}

VARIABLES
    now, options, row, guarded, expiry, lost, missed, phase,
    asked,        \* when the renewal under way read the clock
    wake          \* when the heartbeat is due: to renew, or to have its answer
leaseVars == <<now, options, row, guarded, expiry, asked, wake, lost, missed, phase>>

Absent == 0        \* row[k] is the expiry of k's row
Unasked == 0       \* asked, when no renewal is under way
Never == MaxTime + 1
Ttl == options[1]
RenewEvery == options[2]

LeaseInit ==
    /\ options \in Options
    /\ now = 1 /\ row = [k \in LeaseKeys |-> Absent] /\ guarded = {}
    /\ expiry = 0 /\ asked = Unasked /\ wake = Never /\ lost = FALSE /\ missed = 0 /\ phase = "none"

(* Mutant: two renewals in one lifetime are enough. *)
ValidOptionsTwice == RenewEvery > 0 /\ Ttl >= 2 * RenewEvery

(* validate_lease_options. *)
ValidOptions == RenewEvery > 0 /\ Ttl >= 3 * RenewEvery

(* The clock is read before the transaction that may have to wait. *)
ReadAt == {t \in 1 .. now : now <= t + BusyWait}

InsertLease(S) ==
    /\ \E t \in ReadAt : row' = [k \in LeaseKeys |-> IF k \in S THEN t + Ttl ELSE row[k]]
    /\ guarded' = guarded \cup S

(* acquire_lease inserts the rows ... *)
AcquireLease(S) ==
    /\ phase = "none"
    /\ IF ValidOptions
       THEN InsertLease(S) /\ phase' = "spawn"
       ELSE phase' = "refused" /\ UNCHANGED <<row, guarded>>
    /\ UNCHANGED <<now, options, expiry, asked, wake, lost, missed>>

(* ... and spawn_heartbeat reads the clock again. *)
Spawn ==
    /\ phase = "spawn"
    /\ expiry' = now + Ttl
    /\ wake' = now + RenewEvery
    /\ phase' = "held"
    /\ UNCHANGED <<now, options, row, guarded, asked, lost, missed>>

(* LeaseGuard::extend. *)
Extend(S) ==
    /\ phase = "held"
    /\ S \cap guarded = {}
    /\ InsertLease(S)
    /\ UNCHANGED <<now, options, expiry, asked, wake, lost, missed, phase>>

(* The heartbeat reads the clock; its transaction begins when the index is *)
(* free, and fails when it is not within BusyWait.                         *)
BeginRenewal ==
    /\ phase = "held" /\ asked = Unasked /\ wake <= now
    /\ asked' = now
    /\ wake' = now + BusyWait
    /\ UNCHANGED <<now, options, row, guarded, expiry, lost, missed, phase>>

Rows == {k \in LeaseKeys : row[k] # Absent}
LiveRows(at) == {k \in Rows : row[k] > at}

(* Mutant: the expiry moves before the renewal's result is known. *)
JudgeHopeful(renewed) ==
    /\ expiry' = asked + Ttl
    /\ missed' = IF renewed THEN 0 ELSE missed + 1
    /\ lost' = (~renewed /\ asked >= expiry')
    /\ asked' = Unasked
    /\ wake' = IF lost' THEN Never ELSE now + RenewEvery

(* The heartbeat after a renewal: the lease is lost when none succeeded    *)
(* until the last known expiry, by the clock as it was before the wait.    *)
Judge(renewed) ==
    /\ expiry' = IF renewed THEN asked + Ttl ELSE expiry
    /\ missed' = IF renewed THEN 0 ELSE missed + 1
    /\ lost' = (~renewed /\ asked >= expiry)
    /\ asked' = Unasked
    /\ wake' = IF lost' THEN Never ELSE now + RenewEvery

(* renew_lease: every row there is must have been live. *)
Renew ==
    /\ phase = "held" /\ asked # Unasked
    /\ row' = [k \in LeaseKeys |-> IF k \in LiveRows(asked) THEN asked + Ttl ELSE row[k]]
    /\ Judge(Rows # {} /\ LiveRows(asked) = Rows)
    /\ UNCHANGED <<now, options, guarded, phase>>

(* The index stays busy or cannot be opened. *)
RenewFails ==
    /\ phase = "held" /\ asked # Unasked
    /\ Judge(FALSE)
    /\ UNCHANGED <<now, options, row, guarded, phase>>

(* remove_stale_rows of a repair that did not find the object. *)
Repair(k) ==
    /\ row[k] # Absent
    /\ row' = [row EXCEPT ![k] = Absent]
    /\ UNCHANGED <<now, options, guarded, expiry, asked, wake, lost, missed, phase>>

(* check: the caller gives up a lost lease. *)
Check ==
    /\ phase = "held" /\ lost
    /\ phase' = "failed"
    /\ row' = [k \in LeaseKeys |-> Absent]
    /\ wake' = Never
    /\ UNCHANGED <<now, options, guarded, expiry, asked, lost, missed>>

(* release, and Drop: the heartbeat is joined before the rows go. *)
ReleaseLease ==
    /\ phase = "held" /\ asked = Unasked
    /\ phase' = "released"
    /\ row' = [k \in LeaseKeys |-> Absent]
    /\ wake' = Never
    /\ UNCHANGED <<now, options, guarded, expiry, asked, lost, missed>>

(* The heartbeat and the spawning thread run when they are due.            *)
Tick ==
    /\ now < MaxTime /\ wake > now /\ phase # "spawn"
    /\ now' = now + 1
    /\ UNCHANGED <<options, row, guarded, expiry, asked, wake, lost, missed, phase>>

LeaseNext ==
    \/ \E S \in SUBSET LeaseKeys \ {{}} : AcquireLease(S) \/ Extend(S)
    \/ \E k \in LeaseKeys : Repair(k)
    \/ Spawn \/ BeginRenewal \/ Renew \/ RenewFails \/ Check \/ ReleaseLease \/ Tick
-----------------------------------------------------------------------------
(* check() fails soon after a row the collector no longer honours: no row  *)
(* is expired and unnoticed for longer than a renewal period and the waits *)
(* of its insertion, of the last renewal and of the one under way.         *)
LossNoticed ==
    phase = "held" /\ ~lost => \A k \in Rows : now < row[k] + RenewEvery + 3 * BusyWait

(* The waits are short beside the period, as 5 s are beside 30 s.          *)
Prompt == RenewEvery > 4 * BusyWait

(* Three renewals per lifetime: one that fails loses nothing, nor does its *)
(* row expire meanwhile.                                                   *)
OneMissTolerated ==
    phase = "held" /\ missed <= 1 /\ Rows = guarded /\ Prompt => ~lost /\ LiveRows(now) = Rows
=============================================================================
