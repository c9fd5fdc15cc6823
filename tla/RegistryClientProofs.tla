------------------------ MODULE RegistryClientProofs ------------------------
(***************************************************************************)
(* Proofs about the registry client for any number of callers, workers and *)
(* packages: a slot in flight has exactly one party that will settle it,   *)
(* and the default mode serves nothing the registry did not confirm.       *)
(* And about the commands that change a registry, for any programs of any  *)
(* number of maintainers: what a command reports is what its requests did. *)
(***************************************************************************)
EXTENDS RegistryClient, RegistryControl, TLAPS, FiniteSetTheorems, WellFoundedInduction

Flying == {"read", "request", "put", "finish", "submit"}
Serves(t, k) == at[t] = k /\ pc[t] \in Flying

(* The key of a thread that is inside a call or has claimed a slot.        *)
KeysFit ==
    \A t \in Threads : pc[t] \in Flying \cup {"lookup", "waiting", "returned"} => at[t] \in Keys

(* OneOwnerPerFlight without counting: what is owned is in flight, what is *)
(* in flight has an owner, and no two parties own one slot.                *)
OwnedInFlight ==
    /\ \A t \in Threads : pc[t] \in Flying => slot[at[t]] = InFlight
    /\ \A i \in DOMAIN queue : slot[queue[i]] = InFlight
FlightOwned ==
    \A k \in Keys : slot[k] = InFlight =>
        \/ \E t \in Threads : Serves(t, k)
        \/ \E i \in DOMAIN queue : queue[i] = k
OwnersDiffer ==
    /\ \A t, u \in Threads : pc[t] \in Flying /\ pc[u] \in Flying /\ at[t] = at[u] => t = u
    /\ \A i, j \in DOMAIN queue : queue[i] = queue[j] => i = j
    /\ \A t \in Threads, i \in DOMAIN queue : pc[t] \in Flying => at[t] # queue[i]

(* Bodies on their way: in the default mode none is older than the client. *)
Confirmed(b) == b \in 1 .. MaxRevision /\ (mode = "Default" => b >= since)
BodiesFit ==
    /\ \A k \in Keys : slot[k] \in {Absent, InFlight} \/ Confirmed(slot[k])
    /\ \A t \in Threads :
        /\ pc[t] = "put" => body[t] = Garbage \/ Confirmed(body[t])
        /\ pc[t] = "finish" => body[t] \in {Garbage, Failed} \/ Confirmed(body[t])
        /\ pc[t] = "returned" => body[t] = Failed \/ Confirmed(body[t])

(* The batch has a level left to look at until it is done.                 *)
BatchFits == pc[Batch] # "done" => depth < MaxDepth

IInv == TypeOK /\ KeysFit /\ OwnedInFlight /\ FlightOwned /\ OwnersDiffer /\ BodiesFit /\ BatchFits
USE ClientAssumption
-----------------------------------------------------------------------------
(* Min of FiniteSetsExt, on sets of keys. *)
LEMMA MinIn == ASSUME NEW S \in SUBSET Keys, S # {} PROVE Min(S) \in S
<1>1. S \subseteq Nat
  OBVIOUS
<1>2. IsWellFoundedOn(OpToRel(<, Nat), Nat)
  BY NatLessThanWellFounded
<1>3. PICK x \in S : \A y \in S : ~ (<<y, x>> \in OpToRel(<, Nat))
  <2> HIDE ClientAssumption
  <2> QED BY <1>1, <1>2, WFMin
<1>4. \A y \in S : ~ (y < x)
  BY <1>1, <1>3 DEF OpToRel
<1>5. \A y \in S : x <= y
  BY <1>1, <1>4
<1> QED BY <1>5 DEF Min

(* The codes of slots and bodies do not collide. *)
LEMMA Codes ==
  /\ Absent # InFlight /\ {Absent, InFlight} \cap Bodies = {}
  /\ {None, Garbage} \subseteq Bodies /\ Failed \notin Bodies /\ Garbage # None
  /\ Failed # Absent
  /\ \A b \in Bodies : b \in 1 .. MaxRevision \/ b = None \/ b = Garbage
  /\ \A b \in 1 .. MaxRevision : b \in Bodies /\ b # None /\ b # Garbage /\ b # Failed
  BY DEF Bodies, None, Garbage, Failed, Absent, InFlight

(* A new client: empty slots and queue, and what an earlier command left   *)
(* in the disk cache.                                                      *)
LEMMA InitIInv == Init => IInv
<1> SUFFICES ASSUME Init PROVE IInv
  OBVIOUS
<1> USE DEF Init
<1>1. TypeOK
  <2>1. store \in [Keys -> Bodies]
    BY DEF Bodies
  <2>2. pc \in [Threads -> Stages]
    BY DEF Stages
  <2> QED BY <2>1, <2>2 DEF TypeOK, Bodies
<1>2. KeysFit /\ OwnedInFlight /\ FlightOwned /\ OwnersDiffer
  BY DEF KeysFit, OwnedInFlight, FlightOwned, OwnersDiffer, Flying, Absent, InFlight
<1>3. BodiesFit /\ BatchFits
  BY DEF BodiesFit, BatchFits
<1> QED BY <1>1, <1>2, <1>3 DEF IInv

(* What the owners of slots do, whatever else the step changes. *)
Ownership == OwnedInFlight /\ FlightOwned /\ OwnersDiffer

(* A step inside a request neither settles nor claims a slot, so its       *)
(* ownership does not change hands.                                        *)
LEMMA Keep ==
  ASSUME IInv, UNCHANGED <<slot, queue>>,
         \A t \in Threads : pc'[t] \in Flying <=> pc[t] \in Flying,
         \A t \in Threads : pc[t] \in Flying => at'[t] = at[t]
  PROVE  Ownership'
  BY DEF IInv, Ownership, OwnedInFlight, FlightOwned, OwnersDiffer, Serves

(* packument and enqueue_prefetch mark a slot they found empty, under the  *)
(* lock: the one who marks it owns it.                                     *)
LEMMA Take ==
  ASSUME IInv, NEW t \in Threads, NEW k \in Keys, UNCHANGED queue,
         slot[k] = Absent, slot' = [slot EXCEPT ![k] = InFlight],
         pc[t] \notin Flying, pc'[t] \in Flying, at'[t] = k,
         \A u \in Threads : u # t => pc'[u] = pc[u] /\ at'[u] = at[u]
  PROVE  Ownership'
<1>1. slot'[k] = InFlight /\ \A j \in Keys : j # k => slot'[j] = slot[j]
  BY DEF IInv, TypeOK
<1>2. \A u \in Threads : u # t /\ pc[u] \in Flying => at[u] \in Keys /\ at[u] # k
  BY DEF IInv, KeysFit, OwnedInFlight, Absent, InFlight
<1>3. \A i \in DOMAIN queue : queue[i] \in Keys /\ queue[i] # k
  BY DEF IInv, TypeOK, OwnedInFlight, Absent, InFlight
<1>4. OwnedInFlight'
  BY <1>1, <1>2, <1>3 DEF IInv, OwnedInFlight
<1>5. FlightOwned'
  BY <1>1, <1>2 DEF IInv, FlightOwned, Serves
<1>6. OwnersDiffer'
  BY <1>2, <1>3 DEF IInv, OwnersDiffer
<1> QED BY <1>4, <1>5, <1>6 DEF Ownership

(* Whoever owns a slot writes the answer into it, or empties it after an   *)
(* error, and owns it no more.                                             *)
LEMMA Settling ==
  ASSUME IInv, NEW t \in Threads, pc[t] \in Flying, UNCHANGED <<queue, at>>,
         NEW v, v # InFlight, slot' = [slot EXCEPT ![at[t]] = v],
         pc'[t] \notin Flying,
         \A u \in Threads : u # t => (pc'[u] \in Flying <=> pc[u] \in Flying)
  PROVE  Ownership'
<1>1. at[t] \in Keys /\ slot'[at[t]] # InFlight /\ \A j \in Keys : j # at[t] => slot'[j] = slot[j]
  BY DEF IInv, TypeOK, KeysFit
<1>2. \A u \in Threads : u # t /\ pc[u] \in Flying => at[u] \in Keys /\ at[u] # at[t]
  BY DEF IInv, KeysFit, OwnersDiffer
<1>3. \A i \in DOMAIN queue : queue[i] \in Keys /\ queue[i] # at[t]
  BY DEF IInv, TypeOK, OwnersDiffer
<1>4. OwnedInFlight'
  BY <1>1, <1>2, <1>3 DEF IInv, OwnedInFlight
<1>5. FlightOwned'
  BY <1>1, <1>2 DEF IInv, FlightOwned, Serves
<1>6. OwnersDiffer'
  BY <1>2, <1>3 DEF IInv, OwnersDiffer
<1> QED BY <1>4, <1>5, <1>6 DEF Ownership

(* Submitting hands a claimed slot from the thread to the queue. *)
LEMMA QueueUp ==
  ASSUME IInv, NEW t \in Threads, pc[t] \in Flying, UNCHANGED <<slot, at>>,
         queue' = Append(queue, at[t]), pc'[t] \notin Flying,
         \A u \in Threads : u # t => pc'[u] = pc[u]
  PROVE  Ownership'
<1>1. queue \in Seq(Keys) /\ at[t] \in Keys
  BY DEF IInv, TypeOK, KeysFit
<1>2. /\ DOMAIN queue' = DOMAIN queue \cup {Len(queue) + 1} /\ Len(queue) + 1 \notin DOMAIN queue
      /\ queue'[Len(queue) + 1] = at[t]
      /\ \A i \in DOMAIN queue : queue'[i] = queue[i]
  BY <1>1
<1>3. OwnedInFlight'
  BY <1>2 DEF IInv, OwnedInFlight
<1>4. FlightOwned'
  BY <1>2 DEF IInv, FlightOwned, Serves
<1>5. OwnersDiffer'
  BY <1>2 DEF IInv, OwnersDiffer
<1> QED BY <1>3, <1>4, <1>5 DEF Ownership

(* Receiving hands it from the queue to a worker. *)
LEMMA Dequeue ==
  ASSUME IInv, NEW t \in Threads, pc[t] \notin Flying, UNCHANGED slot,
         queue # <<>>, queue' = Tail(queue), pc'[t] \in Flying, at'[t] = Head(queue),
         \A u \in Threads : u # t => pc'[u] = pc[u] /\ at'[u] = at[u]
  PROVE  Ownership'
<1>1. queue \in Seq(Keys)
  BY DEF IInv, TypeOK
<1>2. /\ 1 \in DOMAIN queue /\ queue[1] = at'[t]
      /\ \A i \in DOMAIN queue' : i + 1 \in DOMAIN queue /\ i + 1 # 1 /\ queue'[i] = queue[i + 1] /\ i \in Int
      /\ \A i \in DOMAIN queue : i # 1 => i - 1 \in DOMAIN queue' /\ queue'[i - 1] = queue[i]
  BY <1>1
<1>3. OwnedInFlight'
  BY <1>2 DEF IInv, OwnedInFlight
<1>4. FlightOwned'
  <2>1. ASSUME NEW k \in Keys, slot[k] = InFlight
        PROVE  (\E u \in Threads : at'[u] = k /\ pc'[u] \in Flying) \/ \E i \in DOMAIN queue' : queue'[i] = k
    <3>1. CASE \E u \in Threads : at[u] = k /\ pc[u] \in Flying
      BY <3>1
    <3>2. CASE \E i \in DOMAIN queue : queue[i] = k
      <4>1. PICK i \in DOMAIN queue : queue[i] = k
        BY <3>2
      <4>2. CASE i = 1
        BY <1>2, <4>1, <4>2
      <4>3. CASE i # 1
        BY <1>2, <4>1, <4>3
      <4> QED BY <4>2, <4>3
    <3> QED BY <2>1, <3>1, <3>2 DEF IInv, FlightOwned, Serves
  <2> QED BY <2>1 DEF FlightOwned, Serves
<1>5. OwnersDiffer'
  <2>1. ASSUME NEW i \in DOMAIN queue', NEW j \in DOMAIN queue', queue'[i] = queue'[j] PROVE i = j
    BY <1>2, <2>1 DEF IInv, OwnersDiffer
  <2>2. ASSUME NEW u \in Threads, NEW i \in DOMAIN queue', pc'[u] \in Flying PROVE at'[u] # queue'[i]
    BY <1>2, <2>2 DEF IInv, OwnersDiffer
  <2>3. ASSUME NEW u \in Threads, u # t, pc[u] \in Flying PROVE at[u] # at'[t]
    BY <1>2, <2>3 DEF IInv, OwnersDiffer
  <2> QED BY <2>1, <2>2, <2>3 DEF IInv, OwnersDiffer
<1> QED BY <1>3, <1>4, <1>5 DEF Ownership

(* A body moves from the registry through a thread into a slot and to the  *)
(* caller; a step that adds no unconfirmed one adds none anywhere.         *)
LEMMA BodiesKept ==
  ASSUME IInv, NEW t \in Threads, UNCHANGED <<mode, since>>,
         \A k \in Keys : slot'[k] \in {Absent, InFlight} \/ slot'[k] = slot[k] \/ Confirmed(slot'[k]),
         \A u \in Threads : u # t => /\ body'[u] = body[u]
                                     /\ pc'[u] \in {"put", "finish", "returned"} => pc'[u] = pc[u],
         pc'[t] = "put" => body'[t] = Garbage \/ Confirmed(body'[t]),
         pc'[t] = "finish" => body'[t] \in {Garbage, Failed} \/ Confirmed(body'[t]),
         pc'[t] = "returned" => body'[t] = Failed \/ Confirmed(body'[t])
  PROVE  BodiesFit'
  BY DEF IInv, BodiesFit, Confirmed

(* fetch_with_cache, the disk: only a mode that serves stale bodies        *)
(* answers from it without asking.                                         *)
LEMMA ReadCacheInv == ASSUME IInv, NEW t \in Threads, ReadCache(t) PROVE IInv'
<1>1. pc[t] = "read" /\ UNCHANGED <<mode, slot, queue, sender, store, published, since, at, level, seen, depth, next, children, calls>>
  BY DEF ReadCache, looping
<1>2. PICK entry \in {store[at[t]], None} :
        /\ cached' = [cached EXCEPT ![t] = entry]
        /\ body' = [body EXCEPT ![t] = IF (~AllowsNetwork \/ (ServesStale /\ entry # None)) /\ entry # None THEN entry ELSE Failed]
        /\ pc' = [pc EXCEPT ![t] = IF ~AllowsNetwork \/ (ServesStale /\ entry # None) THEN "finish" ELSE "request"]
        /\ tries' = [tries EXCEPT ![t] = 0]
  BY DEF ReadCache
<1>3. at[t] \in Keys /\ entry \in Bodies
  BY <1>1, Codes DEF IInv, TypeOK, KeysFit, Flying
<1>4. pc'[t] \in {"finish", "request"} /\ \A u \in Threads : u # t => pc'[u] = pc[u] /\ body'[u] = body[u]
  BY <1>2 DEF IInv, TypeOK
<1>5. TypeOK'
  <2>1. pc' \in [Threads -> Stages]
    BY <1>2 DEF IInv, TypeOK, Stages
  <2>2. cached' \in [Threads -> Bodies] /\ tries' \in [Threads -> Nat]
    BY <1>2, <1>3 DEF IInv, TypeOK
  <2>3. body' \in [Threads -> Bodies \cup {Failed}]
    BY <1>2, <1>3 DEF IInv, TypeOK
  <2> QED BY <1>1, <2>1, <2>2, <2>3 DEF IInv, TypeOK
<1>6. KeysFit'
  BY <1>1, <1>3, <1>4 DEF IInv, KeysFit
<1>7. Ownership'
  <2>1. \A u \in Threads : pc'[u] \in Flying <=> pc[u] \in Flying
    BY <1>1, <1>4 DEF Flying
  <2> QED BY <1>1, <2>1, Keep
<1>8. BodiesFit'
  <2>1. pc'[t] = "finish" => body'[t] = Failed \/ (body'[t] = entry /\ entry # None /\ mode # "Default")
    BY <1>2 DEF IInv, TypeOK, AllowsNetwork, ServesStale
  <2>2. pc'[t] = "finish" => body'[t] \in {Garbage, Failed} \/ Confirmed(body'[t])
    BY <1>1, <1>3, <2>1, Codes DEF Confirmed
  <2> QED BY <1>1, <1>4, <2>2, BodiesKept
<1>9. BatchFits'
  BY <1>1, <1>4 DEF IInv, BatchFits, Threads, Clients
<1> QED BY <1>5, <1>6, <1>7, <1>8, <1>9 DEF IInv, Ownership

(* The answer to a request is the current revision, the registry's word    *)
(* that what was read is current, garbage, or a failure.                   *)
LEMMA RequestInv == ASSUME IInv, NEW t \in Threads, Request(t) PROVE IInv'
<1>1. pc[t] = "request" /\ UNCHANGED <<mode, slot, queue, sender, store, published, since, at, cached, level, seen, depth, next, children, calls>>
  BY DEF Request, looping
<1>2. at[t] \in Keys /\ cached[t] \in Bodies /\ Confirmed(published) /\ published \in Bodies /\ Garbage \in Bodies
  BY <1>1, Codes DEF IInv, TypeOK, KeysFit, Flying, Confirmed
<1>3. /\ \/ pc' = [pc EXCEPT ![t] = "finish"] /\ body' = [body EXCEPT ![t] = published]
         \/ pc' = [pc EXCEPT ![t] = "put"] /\ body' = [body EXCEPT ![t] = published]
         \/ pc' = [pc EXCEPT ![t] = "put"] /\ body' = [body EXCEPT ![t] = Garbage]
         \/ pc' = pc /\ body' = body
         \/ pc' = [pc EXCEPT ![t] = "finish"] /\ body' = [body EXCEPT ![t] = Failed]
      /\ tries' = tries \/ tries' = [tries EXCEPT ![t] = @ + 1]
  BY DEF Request
<1>4. /\ \A u \in Threads : u # t => pc'[u] = pc[u] /\ body'[u] = body[u]
      /\ \/ pc'[t] = "request"
         \/ pc'[t] = "put" /\ body'[t] \in {Garbage, published}
         \/ pc'[t] = "finish" /\ body'[t] \in {Failed, published}
  BY <1>1, <1>3 DEF IInv, TypeOK
<1>5. TypeOK'
  <2>1. pc' \in [Threads -> Stages]
    <3>1. {"finish", "put"} \subseteq Stages /\ pc \in [Threads -> Stages]
      BY DEF IInv, TypeOK, Stages
    <3> QED BY <1>3, <3>1
  <2>2. tries' \in [Threads -> Nat]
    <3>1. tries \in [Threads -> Nat]
      BY DEF IInv, TypeOK
    <3>2. CASE tries' = [tries EXCEPT ![t] = @ + 1]
      <4>1. tries[t] + 1 \in Nat
        BY <3>1
      <4> QED BY <3>1, <3>2, <4>1
    <3> QED BY <1>3, <3>1, <3>2
  <2>3. body' \in [Threads -> Bodies \cup {Failed}]
    <3>1. body \in [Threads -> Bodies \cup {Failed}]
      BY DEF IInv, TypeOK
    <3> QED BY <1>2, <1>3, <3>1
  <2> QED BY <1>1, <2>1, <2>2, <2>3 DEF IInv, TypeOK
<1>6. KeysFit'
  BY <1>1, <1>2, <1>4 DEF IInv, KeysFit
<1>7. Ownership'
  <2>1. \A u \in Threads : pc'[u] \in Flying <=> pc[u] \in Flying
    BY <1>1, <1>4 DEF Flying
  <2> QED BY <1>1, <2>1, Keep
<1>8. BodiesFit'
  BY <1>1, <1>2, <1>4, BodiesKept
<1>9. BatchFits'
  BY <1>1, <1>4 DEF IInv, BatchFits, Threads, Clients
<1> QED BY <1>5, <1>6, <1>7, <1>8, <1>9 DEF IInv, Ownership

(* Writing the disk cache, which may fail without failing the request. *)
LEMMA PutInv == ASSUME IInv, NEW t \in Threads, Put(t) PROVE IInv'
<1>1. /\ pc[t] = "put" /\ pc' = [pc EXCEPT ![t] = "finish"]
      /\ UNCHANGED <<mode, slot, queue, sender, published, since, at, cached, tries, body, level, seen, depth, next, children, calls>>
  BY DEF Put, fetching, looping
<1>2. PICK kept \in {body[t], store[at[t]]} : store' = [store EXCEPT ![at[t]] = kept]
  BY DEF Put
<1>3. at[t] \in Keys /\ kept \in Bodies
  <2>1. at[t] \in Keys
    BY <1>1 DEF IInv, KeysFit, Flying
  <2>2. body[t] = Garbage \/ body[t] \in 1 .. MaxRevision
    BY <1>1 DEF IInv, BodiesFit, Confirmed
  <2>3. store[at[t]] \in Bodies
    BY <2>1 DEF IInv, TypeOK
  <2> QED BY <2>1, <2>2, <2>3, Codes
<1>4. pc'[t] = "finish" /\ \A u \in Threads : u # t => pc'[u] = pc[u]
  BY <1>1 DEF IInv, TypeOK
<1>5. TypeOK'
  <2>1. pc' \in [Threads -> Stages]
    BY <1>1 DEF IInv, TypeOK, Stages
  <2>2. store' \in [Keys -> Bodies]
    BY <1>2, <1>3 DEF IInv, TypeOK
  <2> QED BY <1>1, <2>1, <2>2 DEF IInv, TypeOK
<1>6. KeysFit'
  BY <1>1, <1>3, <1>4 DEF IInv, KeysFit
<1>7. Ownership'
  <2>1. \A u \in Threads : pc'[u] \in Flying <=> pc[u] \in Flying
    BY <1>1, <1>4 DEF Flying
  <2> QED BY <1>1, <2>1, Keep
<1>8. BodiesFit'
  <2>1. body[t] = Garbage \/ Confirmed(body[t])
    BY <1>1 DEF IInv, BodiesFit
  <2> QED BY <1>1, <1>4, <2>1, BodiesKept
<1>9. BatchFits'
  BY <1>1, <1>4 DEF IInv, BatchFits
<1> QED BY <1>5, <1>6, <1>7, <1>8, <1>9 DEF IInv, Ownership

(* The answer is parsed and the slot settled; a body that does not parse   *)
(* empties it.                                                             *)
LEMMA FinishInv == ASSUME IInv, NEW t \in Threads, Finish(t) PROVE IInv'
<1> USE DEF IInv, Finish, fetching, looping, Parsed, Woken
<1>0. Batch \in Threads /\ Callers \subseteq Threads /\ Workers \subseteq Threads /\ Clients \subseteq Threads
  BY DEF Threads, Clients
<1>1. TypeOK'
  BY <1>0 DEF TypeOK, KeysFit, Stages, Bodies, Flying, BodiesFit, Confirmed
<1>2. KeysFit'
  BY <1>0 DEF KeysFit, Flying
<1>3. Ownership'
  <2> DEFINE v == IF Parsed(body[t]) = Failed THEN Absent ELSE Parsed(body[t])
  <2>1. v # InFlight
    <3>1. body[t] \in {Garbage, Failed} \/ body[t] \in 1 .. MaxRevision
      BY DEF BodiesFit, Confirmed
    <3> QED BY <3>1, Codes
  <2>2. pc[t] \in Flying /\ pc'[t] \notin Flying
    BY DEF TypeOK, Flying
  <2>3. \A u \in Threads : u # t => (pc'[u] \in Flying <=> pc[u] \in Flying)
    BY DEF Flying
  <2>4. slot' = [slot EXCEPT ![at[t]] = v] /\ UNCHANGED <<queue, at>>
    OBVIOUS
  <2> HIDE DEF v, Finish
  <2> QED BY <2>1, <2>2, <2>3, <2>4, Settling
<1>4. BodiesFit'
  BY <1>0 DEF TypeOK, BodiesFit, Confirmed
<1>5. BatchFits'
  BY <1>0 DEF BatchFits
<1> QED BY <1>1, <1>2, <1>3, <1>4, <1>5 DEF Ownership

(* The second half of enqueue_prefetch: the key goes into the queue, or    *)
(* the claim is given back when the pool is gone.                          *)
LEMMA SubmitInv == ASSUME IInv, NEW t \in Threads, Submit(t) PROVE IInv'
<1>1. /\ pc[t] = "submit" /\ pc' = [pc EXCEPT ![t] = IF t \in Workers THEN "enqueue" ELSE "prefetch"]
      /\ UNCHANGED <<mode, sender, store, published, since, at, cached, tries, body, level, seen, depth, next, children, calls>>
  BY DEF Submit, fetching, looping
<1>2. \/ queue' = Append(queue, at[t]) /\ UNCHANGED slot
      \/ slot' = [slot EXCEPT ![at[t]] = Absent] /\ UNCHANGED queue
  BY DEF Submit
<1>3. at[t] \in Keys /\ pc[t] \in Flying
  BY <1>1 DEF IInv, KeysFit, Flying
<1>4. pc'[t] \in {"enqueue", "prefetch"} /\ \A u \in Threads : u # t => pc'[u] = pc[u]
  BY <1>1 DEF IInv, TypeOK
<1>5. TypeOK'
  <2>1. pc' \in [Threads -> Stages]
    BY <1>1 DEF IInv, TypeOK, Stages
  <2>2. queue' \in Seq(Keys)
    <3>1. queue \in Seq(Keys)
      BY DEF IInv, TypeOK
    <3>2. Append(queue, at[t]) \in Seq(Keys)
      BY <1>3, <3>1
    <3> QED BY <1>2, <3>1, <3>2
  <2>3. slot' \in [Keys -> {Absent, InFlight} \cup 1 .. MaxRevision]
    BY <1>2, <1>3 DEF IInv, TypeOK
  <2> QED BY <1>1, <2>1, <2>2, <2>3 DEF IInv, TypeOK
<1>6. KeysFit'
  BY <1>1, <1>3, <1>4 DEF IInv, KeysFit
<1>7. Ownership'
  <2>1. pc'[t] \notin Flying
    BY <1>4 DEF Flying
  <2>2. CASE queue' = Append(queue, at[t]) /\ UNCHANGED slot
    BY <1>1, <1>3, <1>4, <2>1, <2>2, QueueUp
  <2>3. CASE slot' = [slot EXCEPT ![at[t]] = Absent] /\ UNCHANGED queue
    BY <1>1, <1>3, <1>4, <2>1, <2>3, Settling, Codes
  <2> QED BY <1>2, <2>2, <2>3
<1>8. BodiesFit'
  <2>1. \A k \in Keys : slot'[k] = Absent \/ slot'[k] = slot[k]
    BY <1>2, <1>3 DEF IInv, TypeOK
  <2> QED BY <1>1, <1>4, <2>1, BodiesKept
<1>9. BatchFits'
  BY <1>1, <1>4 DEF IInv, BatchFits
<1> QED BY <1>5, <1>6, <1>7, <1>8, <1>9 DEF IInv, Ownership

(* A caller asks for a package. *)
LEMMA CallPackumentInv == ASSUME IInv, NEW c \in Clients, CallPackument(c) PROVE IInv'
<1> USE DEF IInv, CallPackument, fetching, looping
<1>0. Batch \in Threads /\ Callers \subseteq Threads /\ Workers \subseteq Threads /\ Clients \subseteq Threads
  BY DEF Threads, Clients
<1>1. TypeOK'
  <2>1. PICK k \in Keys : at' = [at EXCEPT ![c] = k]
    OBVIOUS
  <2>2. at' \in [Threads -> Keys \cup {NoKey}]
    BY <2>1 DEF TypeOK
  <2>3. pc' \in [Threads -> Stages]
    BY DEF TypeOK, Stages
  <2>4. calls' \in [Callers -> Nat]
    BY DEF TypeOK
  <2> QED BY <2>2, <2>3, <2>4 DEF TypeOK
<1>2. KeysFit'
  BY <1>0 DEF TypeOK, KeysFit
<1>3. Ownership'
  BY <1>0, Keep DEF Flying
<1>4. BodiesFit'
  BY <1>0 DEF BodiesFit, Confirmed
<1>5. BatchFits'
  BY <1>0 DEF BatchFits
<1> QED BY <1>1, <1>2, <1>3, <1>4, <1>5 DEF Ownership

(* A caller finds an answer, waits for another party's, or claims the      *)
(* empty slot.                                                             *)
LEMMA LookupInv == ASSUME IInv, NEW c \in Clients, Lookup(c) PROVE IInv'
<1>0. c \in Threads /\ Batch \in Threads
  BY DEF Threads, Clients
<1>1. pc[c] = "lookup" /\ UNCHANGED <<mode, queue, sender, store, published, since, at, cached, tries, level, seen, depth, next, children, calls>>
  BY DEF Lookup, looping
<1>2. at[c] \in Keys /\ pc[c] \notin Flying /\ slot[at[c]] \in {Absent, InFlight} \cup 1 .. MaxRevision
  BY <1>0, <1>1 DEF IInv, TypeOK, KeysFit, Flying
<1>3. \/ /\ slot[at[c]] \in Bodies /\ UNCHANGED slot
         /\ body' = [body EXCEPT ![c] = slot[at[c]]] /\ pc' = [pc EXCEPT ![c] = "returned"]
      \/ pc' = [pc EXCEPT ![c] = "waiting"] /\ UNCHANGED <<slot, body>>
      \/ /\ slot[at[c]] \notin Bodies /\ slot[at[c]] # InFlight
         /\ slot' = [slot EXCEPT ![at[c]] = InFlight]
         /\ pc' = [pc EXCEPT ![c] = "read"] /\ UNCHANGED body
  BY DEF Lookup
<1>4. pc'[c] \in {"returned", "waiting", "read"} /\ \A u \in Threads : u # c => pc'[u] = pc[u] /\ body'[u] = body[u]
  BY <1>0, <1>3 DEF IInv, TypeOK
<1>5. TypeOK'
  <2>1. pc' \in [Threads -> Stages]
    <3>1. {"returned", "waiting", "read"} \subseteq Stages /\ pc \in [Threads -> Stages]
      BY DEF IInv, TypeOK, Stages
    <3> QED BY <1>3, <3>1
  <2>2. body' \in [Threads -> Bodies \cup {Failed}]
    <3>1. body \in [Threads -> Bodies \cup {Failed}]
      BY DEF IInv, TypeOK
    <3> QED BY <1>3, <3>1
  <2>3. slot' \in [Keys -> {Absent, InFlight} \cup 1 .. MaxRevision]
    <3>1. slot \in [Keys -> {Absent, InFlight} \cup 1 .. MaxRevision]
      BY DEF IInv, TypeOK
    <3> QED BY <1>2, <1>3, <3>1
  <2> QED BY <1>1, <2>1, <2>2, <2>3 DEF IInv, TypeOK
<1>6. KeysFit'
  BY <1>1, <1>2, <1>4 DEF IInv, KeysFit
<1>7. Ownership'
  <2>1. CASE UNCHANGED slot /\ pc'[c] \in {"returned", "waiting"}
    <3>1. \A u \in Threads : pc'[u] \in Flying <=> pc[u] \in Flying
      BY <1>2, <1>4, <2>1 DEF Flying
    <3> QED BY <1>1, <2>1, <3>1, Keep
  <2>2. CASE /\ slot[at[c]] \notin Bodies /\ slot[at[c]] # InFlight
             /\ slot' = [slot EXCEPT ![at[c]] = InFlight] /\ pc'[c] = "read"
    <3>1. slot[at[c]] = Absent
      BY <1>2, <2>2, Codes
    <3>2. pc'[c] \in Flying
      BY <2>2 DEF Flying
    <3> QED BY <1>0, <1>1, <1>2, <1>4, <2>2, <3>1, <3>2, Take
  <2> QED BY <1>0, <1>3, <2>1, <2>2 DEF IInv, TypeOK
<1>8. BodiesFit'
  <2>1. \A k \in Keys : slot'[k] = InFlight \/ slot'[k] = slot[k]
    BY <1>2, <1>3 DEF IInv, TypeOK
  <2>2. pc'[c] = "returned" => body'[c] = slot[at[c]] /\ slot[at[c]] \in Bodies
    BY <1>0, <1>3 DEF IInv, TypeOK
  <2>3. slot[at[c]] \in Bodies => Confirmed(slot[at[c]])
    BY <1>2, Codes DEF IInv, BodiesFit
  <2> QED BY <1>0, <1>1, <1>4, <2>1, <2>2, <2>3, BodiesKept
<1>9. BatchFits'
  BY <1>0, <1>1, <1>4 DEF IInv, BatchFits
<1> QED BY <1>5, <1>6, <1>7, <1>8, <1>9 DEF IInv, Ownership

(* A caller has its answer and is free again. *)
LEMMA ReturnInv == ASSUME IInv, NEW c \in Clients, Return(c) PROVE IInv'
<1> USE DEF IInv, Return, fetching, looping
<1>0. Batch \in Threads /\ Callers \subseteq Threads /\ Workers \subseteq Threads /\ Clients \subseteq Threads
  BY DEF Threads, Clients
<1>1. TypeOK'
  BY <1>0 DEF TypeOK, Stages, Bodies
<1>2. KeysFit'
  BY <1>0 DEF KeysFit
<1>3. Ownership'
  BY <1>0, Keep DEF Flying
<1>4. BodiesFit'
  BY <1>0 DEF TypeOK, BodiesFit, Confirmed
<1>5. BatchFits'
  BY <1>0 DEF BatchFits
<1> QED BY <1>1, <1>2, <1>3, <1>4, <1>5 DEF Ownership

(* A worker takes the next key, or ends when the queue is closed and       *)
(* empty.                                                                  *)
LEMMA ReceiveInv == ASSUME IInv, NEW w \in Workers, Receive(w) PROVE IInv'
<1>0. w \in Threads /\ Batch \in Threads /\ w # Batch
  BY DEF Threads, Clients
<1>1. pc[w] = "recv" /\ UNCHANGED <<mode, slot, sender, store, published, since, cached, tries, body, level, seen, depth, next, children, calls>>
  BY DEF Receive, fetching, looping
<1>2. \/ /\ queue # <<>> /\ queue' = Tail(queue)
         /\ at' = [at EXCEPT ![w] = Head(queue)] /\ pc' = [pc EXCEPT ![w] = "read"]
      \/ pc' = [pc EXCEPT ![w] = "ended"] /\ UNCHANGED <<at, queue>>
  BY DEF Receive
<1>3. queue \in Seq(Keys) /\ (queue # <<>> => Head(queue) \in Keys /\ Tail(queue) \in Seq(Keys))
  BY DEF IInv, TypeOK
<1>4. /\ \A u \in Threads : u # w => pc'[u] = pc[u] /\ at'[u] = at[u]
      /\ \/ pc'[w] = "read" /\ queue # <<>> /\ queue' = Tail(queue) /\ at'[w] = Head(queue)
         \/ pc'[w] = "ended" /\ UNCHANGED <<at, queue>>
  BY <1>0, <1>2 DEF IInv, TypeOK
<1>5. TypeOK'
  <2>1. pc' \in [Threads -> Stages]
    <3>1. {"read", "ended"} \subseteq Stages /\ pc \in [Threads -> Stages]
      BY DEF IInv, TypeOK, Stages
    <3> QED BY <1>2, <3>1
  <2>2. at' \in [Threads -> Keys \cup {NoKey}]
    <3>1. at \in [Threads -> Keys \cup {NoKey}]
      BY DEF IInv, TypeOK
    <3> QED BY <1>2, <1>3, <3>1
  <2>3. queue' \in Seq(Keys)
    BY <1>2, <1>3
  <2> QED BY <1>1, <2>1, <2>2, <2>3 DEF IInv, TypeOK
<1>6. KeysFit'
  BY <1>3, <1>4 DEF IInv, KeysFit, Flying
<1>7. Ownership'
  <2>1. pc[w] \notin Flying /\ "read" \in Flying /\ "ended" \notin Flying
    BY <1>1 DEF Flying
  <2>2. CASE pc'[w] = "read" /\ queue # <<>> /\ queue' = Tail(queue) /\ at'[w] = Head(queue)
    BY <1>0, <1>1, <1>4, <2>1, <2>2, Dequeue
  <2>3. CASE pc'[w] = "ended" /\ UNCHANGED <<at, queue>>
    <3>1. \A u \in Threads : pc'[u] \in Flying <=> pc[u] \in Flying
      BY <1>4, <2>1, <2>3
    <3> QED BY <1>1, <2>3, <3>1, Keep
  <2> QED BY <1>4, <2>2, <2>3
<1>8. BodiesFit'
  BY <1>0, <1>1, <1>4, BodiesKept
<1>9. BatchFits'
  BY <1>0, <1>1, <1>4 DEF IInv, BatchFits
<1> QED BY <1>5, <1>6, <1>7, <1>8, <1>9 DEF IInv, Ownership

(* enqueue_prefetch claims a slot only if it is empty, so a prefetch never *)
(* doubles a request under way.                                            *)
LEMMA ClaimKeeps ==
  ASSUME IInv, NEW t \in Threads, NEW k \in Keys, NEW after, after \in {"enqueue", "prefetch"},
         pc[t] \in {"enqueue", "prefetch"}, Claim(t, k, after),
         UNCHANGED <<mode, queue, since, body>>
  PROVE  /\ slot' \in [Keys -> {Absent, InFlight} \cup 1 .. MaxRevision]
         /\ pc' \in [Threads -> Stages] /\ at' \in [Threads -> Keys \cup {NoKey}]
         /\ KeysFit' /\ Ownership' /\ BodiesFit'
         /\ pc'[t] \in {"submit", "enqueue", "prefetch"}
<1>1. /\ slot \in [Keys -> {Absent, InFlight} \cup 1 .. MaxRevision]
      /\ pc \in [Threads -> Stages] /\ at \in [Threads -> Keys \cup {NoKey}]
  BY DEF IInv, TypeOK
<1>2. /\ slot' = [slot EXCEPT ![k] = IF slot[k] = Absent THEN InFlight ELSE slot[k]]
      /\ pc' = [pc EXCEPT ![t] = IF slot[k] = Absent THEN "submit" ELSE after]
      /\ at' = [at EXCEPT ![t] = k]
  BY <1>1 DEF Claim
<1>3. /\ slot' \in [Keys -> {Absent, InFlight} \cup 1 .. MaxRevision]
      /\ pc' \in [Threads -> Stages] /\ at' \in [Threads -> Keys \cup {NoKey}]
  <2>1. slot' \in [Keys -> {Absent, InFlight} \cup 1 .. MaxRevision]
    BY <1>1, <1>2
  <2>2. pc' \in [Threads -> Stages]
    BY <1>1, <1>2 DEF Stages
  <2>3. at' \in [Threads -> Keys \cup {NoKey}]
    BY <1>1, <1>2
  <2> QED BY <2>1, <2>2, <2>3
<1>4. /\ \A u \in Threads : u # t => pc'[u] = pc[u] /\ at'[u] = at[u]
      /\ pc'[t] = (IF slot[k] = Absent THEN "submit" ELSE after) /\ at'[t] = k
      /\ \A j \in Keys : slot'[j] = InFlight \/ slot'[j] = slot[j]
  BY <1>1, <1>2
<1>5. KeysFit'
  BY <1>4 DEF IInv, KeysFit
<1>6. pc[t] \notin Flying /\ after \notin Flying /\ "submit" \in Flying
  BY DEF Flying
<1>7. Ownership'
  <2>1. CASE slot[k] = Absent
    <3>1. slot' = [slot EXCEPT ![k] = InFlight] /\ pc'[t] \in Flying
      BY <1>2, <1>4, <1>6, <2>1
    <3> QED BY <1>4, <1>6, <2>1, <3>1, Take
  <2>2. CASE slot[k] # Absent
    <3>1. slot' = slot
      BY <1>1, <1>2, <2>2
    <3>2. \A u \in Threads : pc'[u] \in Flying <=> pc[u] \in Flying
      BY <1>4, <1>6, <2>2
    <3>3. \A u \in Threads : pc[u] \in Flying => at'[u] = at[u]
      BY <1>4, <1>6
    <3> QED BY <3>1, <3>2, <3>3, Keep
  <2> QED BY <2>1, <2>2
<1>8. BodiesFit'
  BY <1>4, BodiesKept
<1>9. pc'[t] \in {"submit", "enqueue", "prefetch"}
  BY <1>4
<1> QED BY <1>3, <1>5, <1>7, <1>8, <1>9

(* A worker that has fetched a package claims its dependencies one by one. *)
LEMMA LookaheadInv == ASSUME IInv, NEW w \in Workers, Lookahead(w) PROVE IInv'
<1>0. w \in Threads /\ Batch \in Threads /\ w # Batch
  BY DEF Threads, Clients
<1>1. pc[w] = "enqueue" /\ UNCHANGED <<mode, queue, sender, store, published, since, cached, tries, body, level, seen, depth, next, calls>>
  BY DEF Lookahead, fetching, looping
<1>2. CASE children[w] = {}
  <2>1. pc' = [pc EXCEPT ![w] = "recv"] /\ UNCHANGED <<slot, at, children>>
    BY <1>2 DEF Lookahead
  <2>2. pc'[w] = "recv" /\ \A u \in Threads : u # w => pc'[u] = pc[u]
    BY <1>0, <2>1 DEF IInv, TypeOK
  <2>3. TypeOK'
    <3>1. pc' \in [Threads -> Stages]
      BY <2>1 DEF IInv, TypeOK, Stages
    <3> QED BY <1>1, <2>1, <3>1 DEF IInv, TypeOK
  <2>4. KeysFit'
    BY <2>1, <2>2 DEF IInv, KeysFit, Flying
  <2>5. Ownership'
    <3>1. \A u \in Threads : pc'[u] \in Flying <=> pc[u] \in Flying
      BY <1>1, <2>2 DEF Flying
    <3> QED BY <1>1, <2>1, <3>1, Keep
  <2>6. BodiesFit'
    BY <1>0, <1>1, <2>1, <2>2, BodiesKept
  <2>7. BatchFits'
    BY <1>0, <1>1, <2>2 DEF IInv, BatchFits
  <2> QED BY <2>3, <2>4, <2>5, <2>6, <2>7 DEF IInv, Ownership
<1>3. CASE children[w] # {}
  <2> DEFINE k == Min(children[w])
  <2>1. Claim(w, k, "enqueue") /\ children' = [children EXCEPT ![w] = children[w] \ {k}]
    BY <1>3 DEF Lookahead
  <2>2. children[w] \in SUBSET Keys
    BY DEF IInv, TypeOK
  <2>3. k \in Keys
    BY <1>3, <2>2, MinIn
  <2>4. children' \in [Workers -> SUBSET Keys]
    BY <2>1, <2>2 DEF IInv, TypeOK
  <2> HIDE DEF k
  <2>5. /\ slot' \in [Keys -> {Absent, InFlight} \cup 1 .. MaxRevision]
        /\ pc' \in [Threads -> Stages] /\ at' \in [Threads -> Keys \cup {NoKey}]
        /\ KeysFit' /\ Ownership' /\ BodiesFit'
    BY <1>0, <1>1, <2>1, <2>3, ClaimKeeps
  <2>6. TypeOK'
    BY <1>1, <2>4, <2>5 DEF IInv, TypeOK
  <2>7. BatchFits'
    BY <1>0, <1>1, <2>1 DEF IInv, BatchFits, Claim
  <2> QED BY <2>5, <2>6, <2>7 DEF IInv, Ownership
<1> QED BY <1>2, <1>3

(* The batch claims the packages of its level one by one. *)
LEMMA BatchPrefetchInv == ASSUME IInv, BatchPrefetch PROVE IInv'
<1>0. Batch \in Threads
  BY DEF Threads, Clients
<1>1. pc[Batch] = "prefetch" /\ UNCHANGED <<mode, queue, sender, store, published, since, cached, tries, body, level, seen, depth, children, calls>>
  BY DEF BatchPrefetch, fetching
<1>2. depth < MaxDepth
  BY <1>1 DEF IInv, BatchFits
<1>3. CASE {k \in level : k \notin next} = {}
  <2>1. pc' = [pc EXCEPT ![Batch] = "await"] /\ next' = {} /\ UNCHANGED <<slot, at>>
    BY <1>3 DEF BatchPrefetch
  <2>2. pc'[Batch] = "await" /\ \A u \in Threads : u # Batch => pc'[u] = pc[u]
    BY <1>0, <2>1 DEF IInv, TypeOK
  <2>3. TypeOK'
    <3>1. pc' \in [Threads -> Stages]
      BY <2>1 DEF IInv, TypeOK, Stages
    <3> QED BY <1>1, <2>1, <3>1 DEF IInv, TypeOK
  <2>4. KeysFit'
    BY <2>1, <2>2 DEF IInv, KeysFit, Flying
  <2>5. Ownership'
    <3>1. \A u \in Threads : pc'[u] \in Flying <=> pc[u] \in Flying
      BY <1>1, <2>2 DEF Flying
    <3> QED BY <1>1, <2>1, <3>1, Keep
  <2>6. BodiesFit'
    BY <1>0, <1>1, <2>1, <2>2, BodiesKept
  <2>7. BatchFits'
    BY <1>1, <1>2 DEF BatchFits
  <2> QED BY <2>3, <2>4, <2>5, <2>6, <2>7 DEF IInv, Ownership
<1>4. CASE {k \in level : k \notin next} # {}
  <2> DEFINE left == {k \in level : k \notin next}
             key == Min(left)
  <2>1. Claim(Batch, key, "prefetch") /\ next' = next \cup {key}
    BY <1>4 DEF BatchPrefetch
  <2>2. left \in SUBSET level /\ level \cup next \subseteq seen /\ seen \subseteq Keys
    BY DEF IInv, TypeOK
  <2> HIDE DEF left
  <2>3. key \in left
    <3>1. left \in SUBSET Keys /\ left # {}
      BY <1>4, <2>2 DEF left
    <3> QED BY <3>1, MinIn
  <2> HIDE DEF key
  <2>4. key \in Keys /\ level' \cup next' \subseteq seen' /\ seen' \subseteq Keys
    BY <1>1, <2>1, <2>2, <2>3
  <2>5. /\ slot' \in [Keys -> {Absent, InFlight} \cup 1 .. MaxRevision]
        /\ pc' \in [Threads -> Stages] /\ at' \in [Threads -> Keys \cup {NoKey}]
        /\ KeysFit' /\ Ownership' /\ BodiesFit'
    BY <1>0, <1>1, <2>1, <2>4, ClaimKeeps
  <2>6. TypeOK'
    BY <1>1, <2>4, <2>5 DEF IInv, TypeOK
  <2>7. BatchFits'
    BY <1>1, <1>2 DEF BatchFits
  <2> QED BY <2>5, <2>6, <2>7 DEF IInv, Ownership
<1> QED BY <1>3, <1>4

(* The batch looks up the next package of its level as any caller does, or *)
(* goes on to the next level.                                              *)
LEMMA BatchAwaitInv == ASSUME IInv, BatchAwait PROVE IInv'
<1>0. Batch \in Threads
  BY DEF Threads, Clients
<1>1. pc[Batch] = "await" /\ UNCHANGED <<mode, slot, queue, sender, store, published, since, cached, tries, body, seen, children, calls>>
  BY DEF BatchAwait, fetching
<1>2. \/ /\ level # {} /\ at' = [at EXCEPT ![Batch] = Min(level)] /\ level' = level \ {Min(level)}
         /\ pc' = [pc EXCEPT ![Batch] = "lookup"] /\ UNCHANGED <<depth, next>>
      \/ /\ level' = next /\ next' = {} /\ depth' = depth + 1 /\ UNCHANGED at
         /\ pc' = [pc EXCEPT ![Batch] =
                     IF depth + 1 >= MaxDepth \/ next = {} THEN "done" ELSE "prefetch"]
  BY DEF BatchAwait
<1>3. depth \in 0 .. MaxDepth /\ depth < MaxDepth /\ level \cup next \subseteq seen /\ seen \subseteq Keys
  BY <1>1 DEF IInv, TypeOK, BatchFits
<1>4. level # {} => Min(level) \in Keys
  <2>1. level \in SUBSET Keys
    BY <1>3
  <2> QED BY <2>1, MinIn
<1>5. /\ \A u \in Threads : u # Batch => pc'[u] = pc[u] /\ at'[u] = at[u]
      /\ \/ pc'[Batch] = "lookup" /\ at'[Batch] \in Keys
         \/ pc'[Batch] \in {"done", "prefetch"}
  <2>1. pc \in [Threads -> Stages] /\ at \in [Threads -> Keys \cup {NoKey}]
    BY DEF IInv, TypeOK
  <2> QED BY <1>0, <1>2, <1>4, <2>1
<1>6. TypeOK'
  <2>1. pc' \in [Threads -> Stages]
    <3>1. {"lookup", "done", "prefetch"} \subseteq Stages /\ pc \in [Threads -> Stages]
      BY DEF IInv, TypeOK, Stages
    <3> QED BY <1>2, <3>1
  <2>2. at' \in [Threads -> Keys \cup {NoKey}]
    <3>1. at \in [Threads -> Keys \cup {NoKey}]
      BY DEF IInv, TypeOK
    <3> QED BY <1>2, <1>4, <3>1
  <2>3. level' \cup next' \subseteq seen'
    BY <1>1, <1>2, <1>3
  <2>4. depth' \in 0 .. MaxDepth
    BY <1>2, <1>3
  <2> QED BY <1>1, <2>1, <2>2, <2>3, <2>4 DEF IInv, TypeOK
<1>7. KeysFit'
  BY <1>5 DEF IInv, KeysFit, Flying
<1>8. Ownership'
  <2>1. \A u \in Threads : pc'[u] \in Flying <=> pc[u] \in Flying
    BY <1>1, <1>5 DEF Flying
  <2>2. \A u \in Threads : pc[u] \in Flying => at'[u] = at[u]
    BY <1>1, <1>5 DEF Flying
  <2> QED BY <1>1, <2>1, <2>2, Keep
<1>9. BodiesFit'
  BY <1>0, <1>1, <1>5, BodiesKept
<1>10. BatchFits'
  BY <1>0, <1>2, <1>3 DEF IInv, TypeOK, BatchFits
<1> QED BY <1>6, <1>7, <1>8, <1>9, <1>10 DEF IInv, Ownership

(* What the batch was given adds its dependencies to the next level. *)
LEMMA BatchCollectInv == ASSUME IInv, BatchCollect PROVE IInv'
<1> USE DEF IInv, BatchCollect, fetching, looping
<1>0. Batch \in Threads /\ Callers \subseteq Threads /\ Workers \subseteq Threads /\ Clients \subseteq Threads
  BY DEF Threads, Clients
<1>1. TypeOK'
  BY <1>0 DEF TypeOK, KeysFit, Stages, Bodies, Modes
<1>2. KeysFit'
  BY <1>0 DEF TypeOK, KeysFit
<1>3. Ownership'
  BY <1>0, Keep DEF TypeOK, Flying, InFlight
<1>4. BodiesFit'
  BY <1>0 DEF TypeOK, BodiesFit, Confirmed
<1>5. BatchFits'
  BY <1>0 DEF BatchFits
<1> QED BY <1>1, <1>2, <1>3, <1>4, <1>5 DEF Ownership

(* Dropping the pool closes the queue; what is queued is still served. *)
LEMMA DropPoolInv == ASSUME IInv, DropPool PROVE IInv'
<1> USE DEF IInv, DropPool, fetching, looping
<1>0. Batch \in Threads /\ Callers \subseteq Threads /\ Workers \subseteq Threads /\ Clients \subseteq Threads
  BY DEF Threads, Clients
<1>1. TypeOK'
  BY <1>0 DEF TypeOK
<1>2. KeysFit'
  BY <1>0 DEF KeysFit
<1>3. Ownership'
  BY <1>0, Keep
<1>4. BodiesFit'
  BY <1>0 DEF BodiesFit, Confirmed
<1>5. BatchFits'
  BY <1>0 DEF BatchFits
<1> QED BY <1>1, <1>2, <1>3, <1>4, <1>5 DEF Ownership

(* The registry publishes a new version at any time: a newer body is       *)
(* confirmed as well.                                                      *)
LEMMA PublishInv == ASSUME IInv, Publish PROVE IInv'
<1> USE DEF IInv, Publish, fetching, looping
<1>0. Batch \in Threads /\ Callers \subseteq Threads /\ Workers \subseteq Threads /\ Clients \subseteq Threads
  BY DEF Threads, Clients
<1>1. TypeOK'
  BY <1>0 DEF TypeOK, BodiesFit, Confirmed, Garbage, Failed, Modes
<1>2. KeysFit'
  BY <1>0 DEF KeysFit
<1>3. Ownership'
  BY <1>0, Keep
<1>4. BodiesFit'
  BY <1>0 DEF BodiesFit, Confirmed
<1>5. BatchFits'
  BY <1>0 DEF BatchFits
<1> QED BY <1>1, <1>2, <1>3, <1>4, <1>5 DEF Ownership

(* Every step keeps the invariant. *)
LEMMA NextIInv == IInv /\ [Next]_vars => IInv'
<1> SUFFICES ASSUME IInv, [Next]_vars PROVE IInv'
  OBVIOUS
<1>1. ASSUME NEW t \in Threads, Step(t) PROVE IInv'
  BY <1>1, ReadCacheInv, RequestInv, PutInv, FinishInv, SubmitInv DEF Step, Fetch
<1>2. ASSUME NEW c \in Clients, CallPackument(c) \/ Lookup(c) \/ Return(c) PROVE IInv'
  BY <1>2, CallPackumentInv, LookupInv, ReturnInv
<1>3. ASSUME NEW w \in Workers, Receive(w) \/ Lookahead(w) PROVE IInv'
  BY <1>3, ReceiveInv, LookaheadInv
<1>4. CASE BatchPrefetch \/ BatchAwait \/ BatchCollect
  BY <1>4, BatchPrefetchInv, BatchAwaitInv, BatchCollectInv
<1>5. CASE DropPool \/ Publish
  BY <1>5, DropPoolInv, PublishInv
<1>6. CASE UNCHANGED vars
  BY <1>6 DEF IInv, TypeOK, KeysFit, OwnedInFlight, FlightOwned, Serves, OwnersDiffer,
     BodiesFit, Confirmed, BatchFits, vars, fetching, looping
<1> QED BY <1>1, <1>2, <1>3, <1>4, <1>5, <1>6 DEF Next

(* The inductive invariant holds in every reachable state. *)
THEOREM Invariance == Spec => []IInv
  BY InitIInv, NextIInv, PTL DEF Spec

(* The types of slots, queue, caches and threads, for any number of each. *)
THEOREM TypeCorrect == Spec => []TypeOK
<1>1. IInv => TypeOK
  BY DEF IInv
<1> QED BY <1>1, Invariance, PTL

(* A slot that is in flight has exactly one party that will settle it (a   *)
(* caller, a worker, or its place in the queue), and a slot that is not    *)
(* has none: nobody waits for an answer no one is fetching, and no package *)
(* is requested twice at once.                                             *)
THEOREM OneOwner == Spec => []OneOwnerPerFlight
<1>1. ASSUME IInv, NEW k \in Keys PROVE Owners(k) = IF slot[k] = InFlight THEN 1 ELSE 0
  <2>1. \A t \in Threads : t \in Answering(k) <=> Serves(t, k)
    BY DEF Answering, Serves, Flying
  <2>2. Answering(k) \subseteq Threads /\ Queued(k) \subseteq DOMAIN queue
    BY DEF Answering, Queued
  <2>3. \A i \in DOMAIN queue : i \in Queued(k) <=> queue[i] = k
    BY DEF Queued
  <2>4. CASE slot[k] # InFlight
    <3>1. Answering(k) = {} /\ Queued(k) = {}
      BY <1>1, <2>1, <2>2, <2>3, <2>4 DEF IInv, OwnedInFlight, Serves
    <3> QED BY <2>4, <3>1, FS_EmptySet DEF Owners
  <2>5. CASE slot[k] = InFlight /\ \E t \in Threads : Serves(t, k)
    <3>1. PICK t \in Threads : Serves(t, k)
      BY <2>5
    <3>2. Answering(k) = {t}
      BY <1>1, <2>1, <2>2, <3>1 DEF IInv, OwnersDiffer, Serves
    <3>3. Queued(k) = {}
      BY <1>1, <2>2, <2>3, <3>1 DEF IInv, OwnersDiffer, Serves
    <3>4. Cardinality(Answering(k)) = 1 /\ Cardinality(Queued(k)) = 0
      BY <3>2, <3>3, FS_EmptySet, FS_Singleton
    <3> QED BY <2>5, <3>4 DEF Owners
  <2>6. CASE slot[k] = InFlight /\ ~ \E t \in Threads : Serves(t, k)
    <3>1. PICK i \in DOMAIN queue : queue[i] = k
      BY <1>1, <2>6 DEF IInv, FlightOwned
    <3>2. Queued(k) = {i}
      BY <1>1, <2>2, <2>3, <3>1 DEF IInv, OwnersDiffer
    <3>3. Answering(k) = {}
      BY <2>1, <2>2, <2>6
    <3>4. Cardinality(Answering(k)) = 0 /\ Cardinality(Queued(k)) = 1
      BY <3>2, <3>3, FS_EmptySet, FS_Singleton
    <3> QED BY <2>6, <3>4 DEF Owners
  <2> QED BY <2>4, <2>5, <2>6
<1>2. IInv => OneOwnerPerFlight
  BY <1>1 DEF OneOwnerPerFlight
<1> QED BY <1>2, Invariance, PTL

(* In the default mode a caller is given what the registry had at some     *)
(* moment since the client was made, never an older body from the disk     *)
(* cache, and never one that did not parse.                                *)
THEOREM Revalidated == Spec => []ServedIsRevalidated
<1>1. IInv => ServedIsRevalidated
  BY Codes DEF IInv, BodiesFit, Confirmed, ServedIsRevalidated, Threads
<1> QED BY <1>1, Invariance, PTL

-----------------------------------------------------------------------------
HIDE ClientAssumption
(***************************************************************************)
(* Commands that change a registry.                                        *)
(***************************************************************************)
(* What a registry holds, what a command may end with, and how far a       *)
(* maintainer has got.                                                     *)
Registry == [tag : Nat, owners : SUBSET Nat, versions : SUBSET Nat, tokens : SUBSET (Maintainers \cup {Session})]
Outcomes == {"ok", "refused", "lost", "local"}
Progress == [at : Nat \ {0}, pc : {"start", "send"}, attempt : Nat \ {0}, outs : Seq(Outcomes), shown : Nat]

(* The types, with which command a maintainer is at after how many ended.  *)
ControlTypeOK ==
    /\ server \in [{"main", "own"} -> Registry]
    /\ program \in [Maintainers -> Programs]
    /\ cmd \in [Maintainers -> Progress]
    /\ \A m \in Maintainers : Len(cmd[m].outs) = cmd[m].at - 1 /\ cmd[m].at <= Len(program[m]) + 1
    /\ \A x \in late : x = <<x[1], x[2]>> /\ x[1] \in Maintainers /\ x[2] \in DOMAIN program[x[1]]
    /\ DOMAIN minted = Maintainers /\ \A m \in Maintainers : minted[m] \in [DOMAIN program[m] -> Nat]

(* No request of the command has reached the registry, and none is on its  *)
(* way.                                                                    *)
Unsent(m, i) == minted[m][i] = 0 /\ <<m, i>> \notin late

(* A command sends nothing before its turn, and a token's creation nothing *)
(* before its only attempt.                                                *)
UnsentBefore(m) ==
    \A i \in DOMAIN program[m] :
        \/ i > cmd[m].at
        \/ i = cmd[m].at /\ (cmd[m].pc = "start" \/ Kind(m, i) = "tokenCreate")
        => Unsent(m, i)

(* What the outcome of a command says of its requests; the request for a   *)
(* token has been carried out, is on its way, or neither, but not both.    *)
OutcomesTrue(m) ==
    \A i \in DOMAIN program[m] :
        /\ Out(m, i) = "ok" => minted[m][i] >= 1
        /\ Out(m, i) = "local" => Unsent(m, i)
        /\ Kind(m, i) = "tokenCreate" =>
              /\ minted[m][i] <= 1 /\ (<<m, i>> \in late => minted[m][i] = 0)
              /\ Out(m, i) = "refused" => Unsent(m, i)

(* m adds the tag, then lists it, and nobody else writes it.               *)
Tags(m) ==
    /\ Len(program[m]) >= 2 /\ Kind(m, 1) = "tagAdd" /\ Kind(m, 2) = "tagLs" /\ ~program[m][2].scoped
    /\ \A n \in Maintainers \ {m} : \A i \in DOMAIN program[n] : Kind(n, i) \notin {"tagAdd", "tagRm", "publish"}
TagSet(m) ==
    Tags(m) =>
        /\ cmd[m].at = 2 /\ Out(m, 1) = "ok" => server["main"].tag = program[m][1].arg
        /\ cmd[m].at = 3 /\ Out(m, 1) = "ok" /\ Out(m, 2) = "ok" => cmd[m].shown = program[m][1].arg

ControlInv == ControlTypeOK /\ \A m \in Maintainers : UnsentBefore(m) /\ OutcomesTrue(m) /\ TagSet(m)

(* A program's commands are commands. *)
LEMMA ProgramsTyped ==
    ASSUME ControlTypeOK, NEW m \in Maintainers
    PROVE  /\ program[m] \in Seq(Command) /\ Len(program[m]) \in Nat /\ DOMAIN program[m] = 1 .. Len(program[m])
           /\ \A i \in DOMAIN program[m] : program[m][i] \in Command /\ RegistryOf(program[m][i]) \in {"main", "own"}
  <1>1. program[m] \in Seq(Command)
    BY ControlAssumption DEF ControlTypeOK
  <1>2. \A c : RegistryOf(c) \in {"main", "own"}
    BY DEF RegistryOf, ReadRegistry, WriteRegistry
  <1> QED
    BY <1>1, <1>2

(* What a registry does with any command; only three of them write the     *)
(* tag, and dist-tag add sets it to the version asked for.                 *)
LEMMA Handles ==
    ASSUME NEW reg \in Registry, NEW c \in Command, NEW by \in Maintainers
    PROVE  LET done == Handle(reg, c, by) IN
           /\ done.state \in Registry /\ done.status \in {"ok", "refused"}
           /\ c.kind \notin {"tagAdd", "tagRm", "publish"} => done.state.tag = reg.tag
           /\ c.kind = "tagAdd" => IF done.status = "ok" THEN done.state.tag = c.arg ELSE done.state = reg
  <1> DEFINE done == Handle(reg, c, by)
             Good == /\ done.state \in Registry /\ done.status \in {"ok", "refused"}
                     /\ c.kind \notin {"tagAdd", "tagRm", "publish"} => done.state.tag = reg.tag
                     /\ c.kind = "tagAdd" => IF done.status = "ok" THEN done.state.tag = c.arg ELSE done.state = reg
  <1> SUFFICES Good
    OBVIOUS
  <1> HIDE DEF done
  <1>1. c.arg \in Nat /\ c.kind \in Reads \cup Writes
    BY DEF Command
  <1>2. CASE c.kind \in {"tagLs", "ownerLs"} \/ Session \notin reg.tokens \/ c.kind \in {"whoami", "tokenLs"}
    BY <1>2 DEF done, Handle, Ok, No, Whoami
  <1>3. CASE Session \in reg.tokens /\ c.kind = "tagAdd"
    <2>1. done = Ok([reg EXCEPT !.tag = c.arg])
      BY <1>3 DEF done, Handle, SetDistTag
    <2>2. [reg EXCEPT !.tag = c.arg] \in Registry /\ [reg EXCEPT !.tag = c.arg].tag = c.arg
      BY <1>1 DEF Registry
    <2> QED
      BY <1>3, <2>1, <2>2 DEF Ok
  <1>4. CASE Session \in reg.tokens /\ c.kind = "tagRm"
    <2>1. done \in {No(reg), Ok([reg EXCEPT !.tag = 0])}
      BY <1>4 DEF done, Handle, DeleteDistTag
    <2>2. [reg EXCEPT !.tag = 0] \in Registry
      BY DEF Registry
    <2> QED
      BY <1>4, <2>1, <2>2 DEF Ok, No
  <1>5. CASE Session \in reg.tokens /\ c.kind \in {"ownerAdd", "ownerRm"}
    <2>1. PICK s \in SUBSET Nat : done \in {No(reg), Ok([reg EXCEPT !.owners = s])}
      <3>1. reg.owners \cup {c.arg} \in SUBSET Nat /\ reg.owners \ {c.arg} \in SUBSET Nat
        BY <1>1 DEF Registry
      <3> QED
        BY <1>5, <3>1 DEF done, Handle, AddOwner, RemoveOwner
    <2>2. [reg EXCEPT !.owners = s] \in Registry /\ [reg EXCEPT !.owners = s].tag = reg.tag
      BY DEF Registry
    <2>3. CASE done = No(reg)
      BY <1>5, <2>3 DEF No
    <2>4. CASE done = Ok([reg EXCEPT !.owners = s])
      BY <1>5, <2>2, <2>4 DEF Ok
    <2> QED
      BY <2>1, <2>3, <2>4
  <1>6. CASE Session \in reg.tokens /\ c.kind \in {"tokenCreate", "tokenRevoke"}
    <2>1. PICK s \in SUBSET (Maintainers \cup {Session}) : done = Ok([reg EXCEPT !.tokens = s])
      <3>1. /\ reg.tokens \cup {by} \in SUBSET (Maintainers \cup {Session})
            /\ reg.tokens \ {Session} \in SUBSET (Maintainers \cup {Session})
        BY DEF Registry
      <3> QED
        BY <1>6, <3>1 DEF done, Handle, CreateToken, RevokeToken
    <2>2. [reg EXCEPT !.tokens = s] \in Registry /\ [reg EXCEPT !.tokens = s].tag = reg.tag
      BY DEF Registry
    <2> QED
      BY <1>6, <2>1, <2>2 DEF Ok
  <1>7. CASE Session \in reg.tokens /\ c.kind = "publish"
    <2>1. done \in {No(reg), Ok([reg EXCEPT !.versions = reg.versions \cup {c.arg}, !.tag = c.arg])}
      BY <1>7 DEF done, Handle, PublishVersion
    <2>2. [reg EXCEPT !.versions = reg.versions \cup {c.arg}, !.tag = c.arg] \in Registry
      BY <1>1 DEF Registry
    <2> QED
      BY <1>7, <2>1, <2>2 DEF Ok, No
  <1> QED
    BY <1>1, <1>2, <1>3, <1>4, <1>5, <1>6, <1>7 DEF Reads, Writes

(* The server carries out a request of command i of m. *)
LEMMA Carries ==
    ASSUME ControlTypeOK, NEW m \in Maintainers, NEW i \in DOMAIN program[m], Carry(m, i)
    PROVE  LET done == Handle(server[RegistryOf(program[m][i])], program[m][i], m) IN
           /\ server' \in [{"main", "own"} -> Registry]
           /\ done.status \in {"ok", "refused"}
           /\ DOMAIN minted' = Maintainers
           /\ \A n \in Maintainers : n # m => minted'[n] = minted[n]
           /\ minted'[m] \in [DOMAIN program[m] -> Nat]
           /\ \A j \in DOMAIN program[m] : j # i => minted'[m][j] = minted[m][j]
           /\ minted'[m][i] = minted[m][i] + IF done.status = "ok" THEN 1 ELSE 0
           /\ Kind(m, i) \notin {"tagAdd", "tagRm", "publish"} => server'["main"].tag = server["main"].tag
           /\ Kind(m, i) = "tagAdd" =>
                 server'["main"].tag = IF done.status = "ok" THEN program[m][i].arg ELSE server["main"].tag
  <1> DEFINE c == program[m][i]
             r == RegistryOf(c)
             done == Handle(server[r], c, m)
             more == IF done.status = "ok" THEN 1 ELSE 0
  <1>1. c \in Command /\ r \in {"main", "own"}
    BY ProgramsTyped
  <1>2. server[r] \in Registry
    BY <1>1 DEF ControlTypeOK
  <1>3. /\ done.state \in Registry /\ done.status \in {"ok", "refused"}
        /\ c.kind \notin {"tagAdd", "tagRm", "publish"} => done.state.tag = server[r].tag
        /\ c.kind = "tagAdd" => IF done.status = "ok" THEN done.state.tag = c.arg ELSE done.state = server[r]
    BY <1>1, <1>2, Handles
  <1>4. server' = [server EXCEPT ![r] = done.state] /\ minted' = [minted EXCEPT ![m][i] = minted[m][i] + more]
    BY DEF Carry, ControlTypeOK
  <1>5. c.kind = "tagAdd" => r = "main"
    BY DEF RegistryOf, Reads, WriteRegistry
  <1>6. Kind(m, i) = c.kind
    BY DEF Kind
  <1> HIDE DEF done, r, c
  <1>7. more \in Nat
    OBVIOUS
  <1>8. server' \in [{"main", "own"} -> Registry] /\ (r # "main" => server'["main"] = server["main"])
        /\ (r = "main" => server'["main"] = done.state)
    BY <1>1, <1>3, <1>4 DEF ControlTypeOK
  <1> HIDE DEF more
  <1>9. /\ DOMAIN minted' = Maintainers
        /\ \A n \in Maintainers : n # m => minted'[n] = minted[n]
        /\ minted'[m] = [minted[m] EXCEPT ![i] = minted[m][i] + more]
    BY <1>4 DEF ControlTypeOK
  <1>10. minted[m] \in [DOMAIN program[m] -> Nat]
    BY DEF ControlTypeOK
  <1>11. /\ minted'[m] \in [DOMAIN program[m] -> Nat]
         /\ \A j \in DOMAIN program[m] : j # i => minted'[m][j] = minted[m][j]
         /\ minted'[m][i] = minted[m][i] + more
    BY <1>7, <1>9, <1>10
  <1> QED
    BY <1>3, <1>5, <1>6, <1>8, <1>9, <1>11 DEF done, r, c, more

(***************************************************************************)
(* How a command goes on.                                                  *)
(***************************************************************************)
EndsWith(m, out) ==
    /\ cmd'[m] \in Progress /\ cmd'[m].at = cmd[m].at + 1 /\ cmd'[m].pc = "start"
    /\ Len(cmd'[m].outs) = cmd[m].at
    /\ \A i \in Nat : Out(m, i)' = IF i = cmd[m].at THEN out ELSE Out(m, i)
GoesOn(m) ==
    /\ cmd'[m] \in Progress /\ cmd'[m].at = cmd[m].at /\ cmd'[m].pc = "send" /\ cmd'[m].outs = cmd[m].outs
    /\ cmd'[m].shown = cmd[m].shown

(* A command that ends adds its outcome to those before. *)
LEMMA Ending ==
    ASSUME ControlTypeOK, NEW m \in Maintainers, NEW out \in Outcomes, NEW shown \in Nat,
           \/ cmd'[m] = Ended(cmd[m], out) /\ shown = cmd[m].shown
           \/ cmd'[m] = [Ended(cmd[m], out) EXCEPT !.shown = shown]
    PROVE  EndsWith(m, out) /\ cmd'[m].shown = shown
  <1> DEFINE c == cmd[m]
             s == c.outs
             e == [c EXCEPT !.at = c.at + 1, !.pc = "start", !.attempt = 1, !.outs = Append(s, out)]
  <1>1. c \in Progress /\ s \in Seq(Outcomes) /\ Len(s) = c.at - 1 /\ c.at \in Nat \ {0} /\ c.shown \in Nat
    BY DEF ControlTypeOK, Progress
  <1>2. e = Ended(c, out)
    BY <1>1 DEF Ended, Progress
  <1> HIDE DEF e, c
  <1>3. e \in Progress /\ e.at = c.at + 1 /\ e.pc = "start" /\ e.outs = Append(s, out) /\ e.shown = c.shown
    <2>1. Append(s, out) \in Seq(Outcomes) /\ c.at + 1 \in Nat \ {0} /\ 1 \in Nat \ {0}
      BY <1>1
    <2> QED
      BY <1>1, <2>1 DEF e, Progress
  <1>4. /\ cmd'[m] \in Progress /\ cmd'[m].at = c.at + 1 /\ cmd'[m].pc = "start" /\ cmd'[m].outs = Append(s, out)
        /\ cmd'[m].shown = shown
    <2>1. CASE cmd'[m] = e /\ shown = c.shown
      BY <1>3, <2>1
    <2>2. CASE cmd'[m] = [e EXCEPT !.shown = shown]
      BY <1>3, <2>2 DEF Progress
    <2> QED
      BY <1>2, <2>1, <2>2 DEF c
  <1> DEFINE t == cmd'[m].outs
  <1>5. /\ Len(t) = c.at /\ DOMAIN t = 1 .. c.at /\ t[c.at] = out
        /\ DOMAIN s = 1 .. (c.at - 1) /\ \A i \in 1 .. (c.at - 1) : t[i] = s[i]
    BY <1>1, <1>4
  <1>6. ASSUME NEW i \in Nat PROVE Out(m, i)' = IF i = c.at THEN out ELSE Out(m, i)
    <2>1. Out(m, i)' = IF i \in DOMAIN t THEN t[i] ELSE "running"
      BY DEF Out
    <2>2. Out(m, i) = IF i \in DOMAIN s THEN s[i] ELSE "running"
      BY DEF Out, c
    <2>3. i \in DOMAIN t <=> i \in DOMAIN s \/ i = c.at
      BY <1>1, <1>5
    <2>4. c.at \notin DOMAIN s
      BY <1>1, <1>5
    <2> QED
      BY <1>5, <2>1, <2>2, <2>3, <2>4
  <1> QED
    BY <1>4, <1>5, <1>6 DEF EndsWith, c

(* A lost answer or request: the command tries again, which a token's      *)
(* creation does not, or it ends.                                          *)
LEMMA Losing ==
    ASSUME ControlTypeOK, NEW m \in Maintainers, Sending(m),
           cmd'[m] = Settle(cmd[m], Current(m), "lost")
    PROVE  /\ cmd'[m].shown = cmd[m].shown
           /\ \/ EndsWith(m, "lost")
              \/ GoesOn(m) /\ Kind(m, cmd[m].at) # "tokenCreate"
  <1> DEFINE c == cmd[m]
             a == c.attempt
             kind == Kind(m, cmd[m].at)
  <1>1. c \in Progress /\ a \in Nat \ {0} /\ c.pc = "send"
    BY DEF ControlTypeOK, Progress, Sending
  <1>2. CASE a < Tries(Current(m))
    <2>1. cmd'[m] = [c EXCEPT !.attempt = a + 1]
      BY <1>1, <1>2 DEF Settle, Progress
    <2>2. kind = Current(m).kind
      BY DEF Kind, Current
    <2>3. kind = "tokenCreate" => Tries(Current(m)) = 1
      BY <2>2 DEF Tries
    <2> HIDE DEF a, kind
    <2>4. kind # "tokenCreate"
      BY <1>1, <1>2, <2>3
    <2>5. a + 1 \in Nat \ {0}
      BY <1>1
    <2>6. GoesOn(m) /\ cmd'[m].shown = c.shown
      BY <1>1, <2>1, <2>5 DEF GoesOn, Progress
    <2> QED
      BY <2>4, <2>6 DEF kind
  <1>3. CASE ~(a < Tries(Current(m)))
    <2>1. cmd'[m] = Ended(c, "lost") /\ c.shown \in Nat
      BY <1>1, <1>3 DEF Settle, Progress
    <2> QED
      BY <2>1, Ending DEF Outcomes
  <1> QED
    BY <1>2, <1>3

(***************************************************************************)
(* One maintainer's part of the invariant.                                 *)
(***************************************************************************)
(* What nobody touched stays as it is. *)
LEMMA OthersStay ==
    ASSUME ControlTypeOK, NEW n \in Maintainers, UnsentBefore(n), OutcomesTrue(n),
           cmd'[n] = cmd[n], minted'[n] = minted[n], program' = program,
           \A i \in DOMAIN program[n] : <<n, i>> \in late' <=> <<n, i>> \in late
    PROVE  UnsentBefore(n)' /\ OutcomesTrue(n)'
  BY DEF UnsentBefore, OutcomesTrue, Unsent, Kind, Out

(* A request of the command m is at: it is carried out or delayed or       *)
(* neither, and the command goes on or ends by what it heard.              *)
LEMMA Sends ==
    ASSUME ControlTypeOK, NEW m \in Maintainers, NEW k, k = cmd[m].at, Sending(m), UnsentBefore(m), OutcomesTrue(m),
           NEW more \in {0, 1}, program' = program,
           minted'[m] \in [DOMAIN program[m] -> Nat],
           \A j \in DOMAIN program[m] : j # k => minted'[m][j] = minted[m][j],
           minted'[m][k] = minted[m][k] + more,
           late' = late \/ (late' = late \cup {<<m, k>>} /\ more = 0),
           \/ GoesOn(m) /\ Kind(m, k) # "tokenCreate"
           \/ EndsWith(m, "lost")
           \/ EndsWith(m, "ok") /\ more = 1
           \/ EndsWith(m, "refused") /\ more = 0 /\ late' = late
    PROVE  UnsentBefore(m)' /\ OutcomesTrue(m)'
  <1>1. k \in Nat \ {0} /\ k \in DOMAIN program[m] /\ DOMAIN program[m] \subseteq Nat /\ cmd[m].pc = "send"
    <2>1. cmd[m] \in Progress /\ cmd[m].pc = "send" /\ k <= Len(program[m])
      BY DEF ControlTypeOK, Sending, Running
    <2>2. k \in Nat \ {0}
      BY <2>1 DEF Progress
    <2>3. DOMAIN program[m] = 1 .. Len(program[m]) /\ Len(program[m]) \in Nat
      BY ProgramsTyped
    <2> QED
      BY <2>1, <2>2, <2>3
  <1>2. minted[m] \in [DOMAIN program[m] -> Nat]
    BY DEF ControlTypeOK
  <1>3. cmd'[m].at \in {k, k + 1} /\ (cmd'[m].at = k => cmd'[m].pc = "send" /\ Kind(m, k) # "tokenCreate")
    BY <1>1 DEF GoesOn, EndsWith
  <1>4. \A i \in DOMAIN program[m] : i # k => (Unsent(m, i)' <=> Unsent(m, i))
    BY DEF Unsent
  <1>5. \A i : Kind(m, i)' = Kind(m, i)
    BY DEF Kind
  <1>6. UnsentBefore(m)'
    <2> SUFFICES ASSUME NEW i \in DOMAIN program[m],
                        \/ i > cmd'[m].at
                        \/ i = cmd'[m].at /\ (cmd'[m].pc = "start" \/ Kind(m, i) = "tokenCreate")
                 PROVE  Unsent(m, i)'
      BY <1>5 DEF UnsentBefore
    <2>1. i > k
      BY <1>1, <1>3
    <2> QED
      BY <1>1, <1>4, <2>1 DEF UnsentBefore
  <1>7. ASSUME NEW i \in DOMAIN program[m], i # k
        PROVE  Out(m, i)' = Out(m, i) /\ minted'[m][i] = minted[m][i] /\ (<<m, i>> \in late' <=> <<m, i>> \in late)
    BY <1>1, <1>7 DEF GoesOn, EndsWith, Out
  <1>8. ASSUME Kind(m, k) = "tokenCreate" PROVE Unsent(m, k)
    BY <1>1, <1>8 DEF UnsentBefore
  <1>9. Out(m, k) = "running"
    BY <1>1 DEF Out, ControlTypeOK, Progress
  <1>10. /\ Out(m, k)' \in {"running", "lost", "ok", "refused"}
         /\ Out(m, k)' = "ok" => more = 1
         /\ Out(m, k)' = "refused" => more = 0 /\ late' = late
    BY <1>1, <1>9 DEF GoesOn, EndsWith, Out
  <1>11. /\ Out(m, k)' = "ok" => minted'[m][k] >= 1
         /\ Out(m, k)' # "local"
         /\ Kind(m, k) = "tokenCreate" =>
              /\ minted'[m][k] <= 1 /\ (<<m, k>> \in late' => minted'[m][k] = 0)
              /\ Out(m, k)' = "refused" => Unsent(m, k)'
    BY <1>1, <1>2, <1>8, <1>10 DEF Unsent
  <1>12. OutcomesTrue(m)'
    BY <1>4, <1>5, <1>7, <1>11 DEF OutcomesTrue
  <1> QED
    BY <1>6, <1>12

(* A late request arrives. *)
LEMMA Arrives ==
    ASSUME ControlTypeOK, NEW m \in Maintainers, UnsentBefore(m), OutcomesTrue(m), NEW k \in DOMAIN program[m],
           <<m, k>> \in late, late' = late \ {<<m, k>>}, NEW more \in {0, 1}, program' = program, cmd' = cmd,
           minted'[m] \in [DOMAIN program[m] -> Nat],
           \A j \in DOMAIN program[m] : j # k => minted'[m][j] = minted[m][j],
           minted'[m][k] = minted[m][k] + more
    PROVE  UnsentBefore(m)' /\ OutcomesTrue(m)'
  <1>1. ~Unsent(m, k) /\ minted[m][k] \in Nat
    BY DEF Unsent, ControlTypeOK
  <1>2. \A i \in DOMAIN program[m] : i # k => (Unsent(m, i)' <=> Unsent(m, i))
    BY DEF Unsent
  <1>3. \A i : Kind(m, i)' = Kind(m, i) /\ Out(m, i)' = Out(m, i)
    BY DEF Kind, Out
  <1>4. UnsentBefore(m)'
    BY <1>1, <1>2, <1>3 DEF UnsentBefore
  <1>5. /\ Out(m, k) = "ok" => minted'[m][k] >= 1
        /\ Out(m, k) # "local"
        /\ Kind(m, k) = "tokenCreate" =>
              minted'[m][k] <= 1 /\ Out(m, k) # "refused" /\ <<m, k>> \notin late'
    BY <1>1 DEF OutcomesTrue
  <1>6. ASSUME NEW i \in DOMAIN program[m], i # k
        PROVE  minted'[m][i] = minted[m][i] /\ (<<m, i>> \in late' <=> <<m, i>> \in late)
    BY <1>6
  <1>7. OutcomesTrue(m)'
    BY <1>2, <1>3, <1>5, <1>6 DEF OutcomesTrue
  <1> QED
    BY <1>4, <1>7

(* The tag stays what m set it to: a request of anybody else does not      *)
(* write it, and one of m's writes the same version or was not sent yet.   *)
LEMMA TagStays ==
    ASSUME ControlTypeOK, NEW n \in Maintainers, Tags(n), UnsentBefore(n), cmd[n].at = 2,
           server["main"].tag = program[n][1].arg,
           NEW m \in Maintainers, NEW i \in DOMAIN program[m], Carry(m, i),
           <<m, i>> \in late \/ i = cmd[m].at
    PROVE  server'["main"].tag = program[n][1].arg
  <1>1. CASE m # n
    <2>1. Kind(m, i) \notin {"tagAdd", "tagRm", "publish"}
      BY <1>1 DEF Tags
    <2> QED
      BY <2>1, Carries
  <1>2. CASE m = n
    <2>1. i \in Nat \ {0}
      BY ProgramsTyped
    <2>2. i = 1 \/ i = 2
      <3>1. ASSUME i > 2 PROVE FALSE
        BY <1>2, <2>1, <3>1 DEF UnsentBefore, Unsent
      <3> QED
        BY <2>1, <3>1
    <2>3. CASE i = 1
      <3>1. Kind(m, i) = "tagAdd" /\ program[m][i].arg = program[n][1].arg
        BY <1>2, <2>3 DEF Tags
      <3> QED
        BY <3>1, Carries
    <2>4. CASE i = 2
      <3>1. Kind(m, i) = "tagLs"
        BY <1>2, <2>4 DEF Tags
      <3> QED
        BY <3>1, Carries
    <2> QED
      BY <2>2, <2>3, <2>4
  <1> QED
    BY <1>1, <1>2

(***************************************************************************)
(* The steps.                                                              *)
(***************************************************************************)
(* An attempt of m, whatever became of the request and of its answer. *)
LEMMA AttemptInv ==
    ASSUME ControlInv, NEW m \in Maintainers, Sending(m), NEW k, k = cmd[m].at, NEW more \in {0, 1},
           program' = program, \A n \in Maintainers : n # m => cmd'[n] = cmd[n],
           cmd' \in [Maintainers -> Progress],
           DOMAIN minted' = Maintainers, \A n \in Maintainers : n # m => minted'[n] = minted[n],
           minted'[m] \in [DOMAIN program[m] -> Nat],
           \A j \in DOMAIN program[m] : j # k => minted'[m][j] = minted[m][j],
           minted'[m][k] = minted[m][k] + more,
           server' \in [{"main", "own"} -> Registry], UNCHANGED server \/ Carry(m, k),
           late' = late \/ (late' = late \cup {<<m, k>>} /\ more = 0),
           \/ GoesOn(m) /\ Kind(m, k) # "tokenCreate"
           \/ EndsWith(m, "lost")
           \/ /\ EndsWith(m, "ok") /\ more = 1
              /\ Kind(m, k) = "tagAdd" => server'["main"].tag = program[m][k].arg
              /\ Kind(m, k) = "tagLs" => cmd'[m].shown = server[RegistryOf(program[m][k])].tag
           \/ EndsWith(m, "refused") /\ more = 0 /\ late' = late
    PROVE  ControlInv'
  <1>1. ControlTypeOK /\ \A n \in Maintainers : UnsentBefore(n) /\ OutcomesTrue(n) /\ TagSet(n)
    BY DEF ControlInv
  <1>2. k \in Nat \ {0} /\ k \in DOMAIN program[m] /\ k <= Len(program[m]) /\ Len(program[m]) \in Nat
    <2>1. cmd[m] \in Progress /\ k <= Len(program[m])
      BY <1>1 DEF ControlTypeOK, Sending, Running
    <2>2. k \in Nat \ {0}
      BY <2>1 DEF Progress
    <2> QED
      BY <1>1, <2>1, <2>2, ProgramsTyped
  <1>3. Len(cmd[m].outs) = k - 1
    BY <1>1 DEF ControlTypeOK
  <1>4. cmd'[m].at \in {k, k + 1} /\ Len(cmd'[m].outs) = cmd'[m].at - 1
    BY <1>2, <1>3 DEF GoesOn, EndsWith
  <1>5. ControlTypeOK'
    <2>1. ASSUME NEW n \in Maintainers PROVE Len(cmd'[n].outs) = cmd'[n].at - 1 /\ cmd'[n].at <= Len(program[n]) + 1
      <3>1. CASE n = m
        BY <1>2, <1>4, <3>1
      <3>2. CASE n # m
        BY <1>1, <3>2 DEF ControlTypeOK
      <3> QED
        BY <3>1, <3>2
    <2>2. \A x \in late' : x = <<x[1], x[2]>> /\ x[1] \in Maintainers /\ x[2] \in DOMAIN program[x[1]]
      BY <1>1, <1>2 DEF ControlTypeOK
    <2>3. \A n \in Maintainers : minted'[n] \in [DOMAIN program[n] -> Nat]
      BY <1>1 DEF ControlTypeOK
    <2> QED
      BY <1>1, <2>1, <2>2, <2>3 DEF ControlTypeOK
  <1>6. ASSUME NEW n \in Maintainers PROVE UnsentBefore(n)' /\ OutcomesTrue(n)'
    <2>1. CASE n = m
      BY <1>1, <2>1, Sends
    <2>2. CASE n # m
      BY <1>1, <2>2, OthersStay
    <2> QED
      BY <2>1, <2>2
  <1>7. ASSUME NEW n \in Maintainers, Tags(n), cmd[n].at = 2, server["main"].tag = program[n][1].arg
        PROVE  server'["main"].tag = program[n][1].arg
    <2>1. CASE UNCHANGED server
      BY <1>7, <2>1
    <2>2. CASE Carry(m, k)
      BY <1>1, <1>2, <1>7, <2>2, TagStays
    <2> QED
      BY <2>1, <2>2
  <1>8. \A n \in Maintainers : Tags(n)' <=> Tags(n)
    BY DEF Tags, Kind
  <1>9. ASSUME NEW n \in Maintainers, n # m PROVE TagSet(n)'
    <2>1. \A i : Out(n, i)' = Out(n, i)
      BY <1>9 DEF Out
    <2> QED
      BY <1>1, <1>7, <1>8, <1>9, <2>1 DEF TagSet
  <1>10. TagSet(m)'
    <2> SUFFICES ASSUME Tags(m)
                 PROVE  /\ cmd'[m].at = 2 /\ Out(m, 1)' = "ok" => server'["main"].tag = program[m][1].arg
                        /\ cmd'[m].at = 3 /\ Out(m, 1)' = "ok" /\ Out(m, 2)' = "ok" => cmd'[m].shown = program[m][1].arg
      BY <1>8 DEF TagSet
    <2>1. /\ k = 2 /\ Out(m, 1) = "ok" => server["main"].tag = program[m][1].arg
          /\ k = 3 /\ Out(m, 1) = "ok" /\ Out(m, 2) = "ok" => cmd[m].shown = program[m][1].arg
      BY <1>1 DEF TagSet
    <2>2. Kind(m, 1) = "tagAdd" /\ Kind(m, 2) = "tagLs" /\ RegistryOf(program[m][2]) = "main"
      BY DEF Tags, RegistryOf, ReadRegistry, WriteRegistry, Kind
    <2>3. k = 2 /\ Out(m, 1) = "ok" => server'["main"].tag = program[m][1].arg
      BY <1>7, <2>1
    <2>4. CASE GoesOn(m)
      <3>1. \A i : Out(m, i)' = Out(m, i)
        BY <2>4 DEF GoesOn, Out
      <3> QED
        BY <2>1, <2>3, <2>4, <3>1 DEF GoesOn
    <2>5. ASSUME NEW out, EndsWith(m, out)
          PROVE  /\ cmd'[m].at = k + 1 /\ Out(m, k)' = out
                 /\ k # 1 => Out(m, 1)' = Out(m, 1)
      BY <1>2, <2>5 DEF EndsWith
    <2>6. CASE EndsWith(m, "lost") \/ EndsWith(m, "refused")
      BY <1>2, <2>5, <2>6
    <2>7. CASE /\ EndsWith(m, "ok") /\ more = 1
               /\ Kind(m, k) = "tagAdd" => server'["main"].tag = program[m][k].arg
               /\ Kind(m, k) = "tagLs" => cmd'[m].shown = server[RegistryOf(program[m][k])].tag
      <3>1. CASE k = 1
        BY <2>2, <2>5, <2>7, <3>1
      <3>2. CASE k = 2
        BY <2>1, <2>2, <2>5, <2>7, <3>2
      <3>3. CASE k > 2
        BY <1>2, <2>5, <2>7, <3>3
      <3> QED
        BY <1>2, <3>1, <3>2, <3>3
    <2> QED
      BY <2>4, <2>6, <2>7
  <1> QED
    BY <1>5, <1>6, <1>9, <1>10 DEF ControlInv

(* The records of a step that changes m's alone. *)
LEMMA Others ==
    ASSUME ControlTypeOK, NEW m \in Maintainers, NEW c \in Progress, cmd' = [cmd EXCEPT ![m] = c]
    PROVE  cmd' \in [Maintainers -> Progress] /\ cmd'[m] = c /\ \A n \in Maintainers : n # m => cmd'[n] = cmd[n]
  BY DEF ControlTypeOK

(* What settles a command is again a record. *)
LEMMA SettledTyped ==
    ASSUME ControlTypeOK, NEW m \in Maintainers, NEW answer \in {"ok", "refused", "lost"}
    PROVE  Settle(cmd[m], Current(m), answer) \in Progress
  <1> DEFINE c == cmd[m]
  <1>1. c \in Progress
    BY DEF ControlTypeOK
  <1> HIDE DEF c
  <1>2. \A out \in Outcomes : Ended(c, out) \in Progress
    <2> SUFFICES ASSUME NEW out \in Outcomes PROVE Ended(c, out) \in Progress
      OBVIOUS
    <2>1. Append(c.outs, out) \in Seq(Outcomes) /\ c.at + 1 \in Nat \ {0} /\ 1 \in Nat \ {0}
      BY <1>1 DEF Progress
    <2> QED
      BY <1>1, <2>1 DEF Ended, Progress
  <1>3. [c EXCEPT !.attempt = c.attempt + 1] \in Progress
    <2>1. c.attempt + 1 \in Nat \ {0}
      BY <1>1 DEF Progress
    <2> QED
      BY <1>1, <2>1 DEF Progress
  <1> QED
    BY <1>2, <1>3 DEF Settle, Outcomes, c

(* The command m is at, while it sends. *)
LEMMA SendingAt ==
    ASSUME ControlTypeOK, NEW m \in Maintainers, Sending(m)
    PROVE  cmd[m].at \in DOMAIN program[m] /\ Current(m) = program[m][cmd[m].at]
  <1>1. cmd[m] \in Progress /\ cmd[m].at <= Len(program[m])
    BY DEF ControlTypeOK, Sending, Running
  <1>2. cmd[m].at \in Nat \ {0}
    BY <1>1 DEF Progress
  <1>3. DOMAIN program[m] = 1 .. Len(program[m]) /\ Len(program[m]) \in Nat
    BY ProgramsTyped
  <1> QED
    BY <1>1, <1>2, <1>3 DEF Current

(* The answer arrives. *)
LEMMA AnsweredInv ==
    ASSUME ControlInv, NEW m \in Maintainers, Answered(m)
    PROVE  ControlInv'
  <1>1. ControlTypeOK /\ Sending(m) /\ program' = program /\ late' = late
    BY DEF ControlInv, Answered
  <1>2. PICK k : k = cmd[m].at
    OBVIOUS
  <1>3. k \in DOMAIN program[m] /\ Current(m) = program[m][k]
    BY <1>1, <1>2, SendingAt
  <1> DEFINE reg == server[RegistryOf(program[m][k])]
             status == Handle(reg, program[m][k], m).status
             settled == Settle(cmd[m], Current(m), status)
             c == IF Current(m).kind = "tagLs" THEN [settled EXCEPT !.shown = reg.tag] ELSE settled
             more == IF status = "ok" THEN 1 ELSE 0
  <1>4. Carry(m, k) /\ cmd' = [cmd EXCEPT ![m] = c]
    BY <1>2, <1>3 DEF Answered
  <1>5. reg \in Registry /\ reg.tag \in Nat
    BY <1>1, <1>3, ProgramsTyped DEF ControlTypeOK, Registry
  <1>6. /\ status \in {"ok", "refused"}
        /\ server' \in [{"main", "own"} -> Registry]
        /\ DOMAIN minted' = Maintainers
        /\ \A n \in Maintainers : n # m => minted'[n] = minted[n]
        /\ minted'[m] \in [DOMAIN program[m] -> Nat]
        /\ \A j \in DOMAIN program[m] : j # k => minted'[m][j] = minted[m][j]
        /\ minted'[m][k] = minted[m][k] + more
        /\ Kind(m, k) = "tagAdd" /\ status = "ok" => server'["main"].tag = program[m][k].arg
    BY <1>1, <1>3, <1>4, Carries
  <1> HIDE DEF status, reg
  <1>7. settled = Ended(cmd[m], status) /\ settled \in Progress /\ status \in Outcomes /\ cmd[m].shown \in Nat
    BY <1>1, <1>6, SettledTyped DEF Settle, Outcomes, ControlTypeOK, Progress
  <1>8. c \in Progress
    BY <1>5, <1>7 DEF Progress
  <1>9. cmd' \in [Maintainers -> Progress] /\ cmd'[m] = c /\ \A n \in Maintainers : n # m => cmd'[n] = cmd[n]
    BY <1>1, <1>4, <1>8, Others
  <1>10. EndsWith(m, status) /\ (Current(m).kind = "tagLs" => cmd'[m].shown = reg.tag)
    <2>1. CASE Current(m).kind = "tagLs"
      BY <1>1, <1>5, <1>7, <1>9, <2>1, Ending
    <2>2. CASE Current(m).kind # "tagLs"
      BY <1>1, <1>7, <1>9, <2>2, Ending
    <2> QED
      BY <2>1, <2>2
  <1>11. Current(m).kind = Kind(m, k) /\ more \in {0, 1}
    BY <1>3 DEF Kind
  <1>12. \/ /\ EndsWith(m, "ok") /\ more = 1
            /\ Kind(m, k) = "tagAdd" => server'["main"].tag = program[m][k].arg
            /\ Kind(m, k) = "tagLs" => cmd'[m].shown = server[RegistryOf(program[m][k])].tag
         \/ EndsWith(m, "refused") /\ more = 0 /\ late' = late
    BY <1>1, <1>6, <1>10, <1>11 DEF reg
  <1> HIDE DEF more
  <1> QED
    BY <1>1, <1>2, <1>4, <1>6, <1>9, <1>11, <1>12, AttemptInv

(* The request is carried out, and its answer is lost. *)
LEMMA AnswerLostInv ==
    ASSUME ControlInv, NEW m \in Maintainers, AnswerLost(m)
    PROVE  ControlInv'
  <1>1. ControlTypeOK /\ Sending(m) /\ program' = program /\ late' = late
    BY DEF ControlInv, AnswerLost
  <1>2. PICK k : k = cmd[m].at
    OBVIOUS
  <1>3. k \in DOMAIN program[m]
    BY <1>1, <1>2, SendingAt
  <1> DEFINE status == Handle(server[RegistryOf(program[m][k])], program[m][k], m).status
             c == Settle(cmd[m], Current(m), "lost")
             more == IF status = "ok" THEN 1 ELSE 0
  <1>4. Carry(m, k) /\ cmd' = [cmd EXCEPT ![m] = c]
    BY <1>1, <1>2 DEF AnswerLost, ControlTypeOK
  <1>5. /\ server' \in [{"main", "own"} -> Registry]
        /\ DOMAIN minted' = Maintainers
        /\ \A n \in Maintainers : n # m => minted'[n] = minted[n]
        /\ minted'[m] \in [DOMAIN program[m] -> Nat]
        /\ \A j \in DOMAIN program[m] : j # k => minted'[m][j] = minted[m][j]
        /\ minted'[m][k] = minted[m][k] + more
    BY <1>1, <1>3, <1>4, Carries
  <1>6. more \in {0, 1} /\ c \in Progress
    BY <1>1, SettledTyped
  <1> HIDE DEF more, c
  <1>7. cmd' \in [Maintainers -> Progress] /\ cmd'[m] = c /\ \A n \in Maintainers : n # m => cmd'[n] = cmd[n]
    BY <1>1, <1>4, <1>6, Others
  <1>8. EndsWith(m, "lost") \/ (GoesOn(m) /\ Kind(m, k) # "tokenCreate")
    BY <1>1, <1>2, <1>7, Losing DEF c
  <1> QED
    BY <1>1, <1>2, <1>4, <1>5, <1>6, <1>7, <1>8, AttemptInv

(* The request is lost, or still on its way when the client gives up. *)
LEMMA RequestLostInv ==
    ASSUME ControlInv, NEW m \in Maintainers, RequestLost(m) \/ Delayed(m)
    PROVE  ControlInv'
  <1>1. ControlTypeOK /\ Sending(m) /\ program' = program /\ server' = server /\ minted' = minted
    BY DEF ControlInv, RequestLost, Delayed
  <1>2. PICK k : k = cmd[m].at
    OBVIOUS
  <1>3. k \in DOMAIN program[m]
    BY <1>1, <1>2, SendingAt
  <1> DEFINE c == Settle(cmd[m], Current(m), "lost")
  <1>4. cmd' = [cmd EXCEPT ![m] = c] /\ (late' = late \/ late' = late \cup {<<m, k>>})
    BY <1>1, <1>2 DEF RequestLost, Delayed, ControlTypeOK
  <1>5. c \in Progress
    BY <1>1, SettledTyped
  <1> HIDE DEF c
  <1>6. cmd' \in [Maintainers -> Progress] /\ cmd'[m] = c /\ \A n \in Maintainers : n # m => cmd'[n] = cmd[n]
    BY <1>1, <1>4, <1>5, Others
  <1>7. EndsWith(m, "lost") \/ (GoesOn(m) /\ Kind(m, k) # "tokenCreate")
    BY <1>1, <1>2, <1>6, Losing DEF c
  <1>8. /\ server \in [{"main", "own"} -> Registry] /\ DOMAIN minted = Maintainers
        /\ minted[m] \in [DOMAIN program[m] -> Nat]
    BY <1>1 DEF ControlTypeOK
  <1>9. minted[m][k] = minted[m][k] + 0 /\ 0 \in {0, 1}
    BY <1>3, <1>8
  <1> QED
    BY <1>1, <1>2, <1>4, <1>6, <1>7, <1>8, <1>9, AttemptInv

(* A command begins, or fails before it has sent anything. *)
LEMMA StartInv ==
    ASSUME ControlInv, NEW m \in Maintainers, Start(m)
    PROVE  ControlInv'
  <1>1. ControlTypeOK /\ \A n \in Maintainers : UnsentBefore(n) /\ OutcomesTrue(n) /\ TagSet(n)
    BY DEF ControlInv
  <1>2. UNCHANGED <<server, program, late, minted>> /\ cmd[m].pc = "start" /\ cmd[m] \in Progress
    BY <1>1 DEF Start, ControlTypeOK
  <1>3. PICK k : k = cmd[m].at
    OBVIOUS
  <1>4. k \in Nat \ {0} /\ k \in DOMAIN program[m] /\ k <= Len(program[m]) /\ Len(program[m]) \in Nat
    <2>1. k \in Nat \ {0} /\ k <= Len(program[m])
      BY <1>2, <1>3 DEF Progress, Start, Running
    <2> QED
      BY <1>1, <2>1, ProgramsTyped
  <1>5. cmd' = [cmd EXCEPT ![m] = Ended(cmd[m], "local")] \/ cmd' = [cmd EXCEPT ![m] = [cmd[m] EXCEPT !.pc = "send"]]
    BY <1>1 DEF Start, ControlTypeOK
  <1>6. /\ cmd' \in [Maintainers -> Progress] /\ \A n \in Maintainers : n # m => cmd'[n] = cmd[n]
        /\ EndsWith(m, "local") \/ GoesOn(m)
    <2>1. CASE cmd' = [cmd EXCEPT ![m] = Ended(cmd[m], "local")]
      <3>1. Ended(cmd[m], "local") \in Progress
        <4>1. Append(cmd[m].outs, "local") \in Seq(Outcomes) /\ cmd[m].at + 1 \in Nat \ {0} /\ 1 \in Nat \ {0}
          BY <1>2 DEF Progress, Outcomes
        <4> QED
          BY <1>2, <4>1 DEF Ended, Progress
      <3>2. /\ cmd' \in [Maintainers -> Progress] /\ cmd'[m] = Ended(cmd[m], "local")
            /\ \A n \in Maintainers : n # m => cmd'[n] = cmd[n]
        BY <1>1, <2>1, <3>1, Others
      <3>3. cmd[m].shown \in Nat /\ "local" \in Outcomes
        BY <1>2 DEF Progress, Outcomes
      <3> QED
        BY <1>1, <3>2, <3>3, Ending
    <2>2. CASE cmd' = [cmd EXCEPT ![m] = [cmd[m] EXCEPT !.pc = "send"]]
      <3>1. [cmd[m] EXCEPT !.pc = "send"] \in Progress
        BY <1>2 DEF Progress
      <3>2. /\ cmd' \in [Maintainers -> Progress] /\ cmd'[m] = [cmd[m] EXCEPT !.pc = "send"]
            /\ \A n \in Maintainers : n # m => cmd'[n] = cmd[n]
        BY <1>1, <2>2, <3>1, Others
      <3> QED
        BY <1>2, <3>1, <3>2 DEF GoesOn, Progress
    <2> QED
      BY <1>5, <2>1, <2>2
  <1>7. Len(cmd[m].outs) = k - 1
    BY <1>1, <1>3 DEF ControlTypeOK
  <1>8. cmd'[m].at \in {k, k + 1} /\ Len(cmd'[m].outs) = cmd'[m].at - 1
    BY <1>3, <1>4, <1>6, <1>7 DEF GoesOn, EndsWith
  <1>9. ControlTypeOK'
    <2>1. ASSUME NEW n \in Maintainers PROVE Len(cmd'[n].outs) = cmd'[n].at - 1 /\ cmd'[n].at <= Len(program[n]) + 1
      <3>1. CASE n = m
        BY <1>4, <1>8, <3>1
      <3>2. CASE n # m
        BY <1>1, <1>6, <3>2 DEF ControlTypeOK
      <3> QED
        BY <3>1, <3>2
    <2> QED
      BY <1>1, <1>2, <1>6, <2>1 DEF ControlTypeOK
  <1>10. \A n, i : Kind(n, i)' = Kind(n, i) /\ (Unsent(n, i)' <=> Unsent(n, i))
    BY <1>2 DEF Kind, Unsent
  <1>11. \A n \in Maintainers : Tags(n)' <=> Tags(n)
    BY <1>2 DEF Tags, Kind
  <1>12. Unsent(m, k)
    BY <1>1, <1>2, <1>3, <1>4 DEF UnsentBefore
  <1>13. UnsentBefore(m)'
    <2> SUFFICES ASSUME NEW i \in DOMAIN program[m],
                        \/ i > cmd'[m].at
                        \/ i = cmd'[m].at /\ (cmd'[m].pc = "start" \/ Kind(m, i) = "tokenCreate")
                 PROVE  Unsent(m, i)
      BY <1>2, <1>10 DEF UnsentBefore
    <2>1. i \in Nat
      BY <1>1, ProgramsTyped
    <2>2. i = k \/ i > k
      BY <1>4, <1>8, <2>1
    <2> QED
      BY <1>1, <1>3, <1>12, <2>2 DEF UnsentBefore
  <1>14. OutcomesTrue(m)'
    <2>1. Out(m, k) = "running"
      BY <1>3, <1>4, <1>7, <1>2 DEF Out, Progress
    <2>2. \A i \in DOMAIN program[m] : Out(m, i)' = Out(m, i) \/ (i = k /\ Out(m, i)' = "local")
      <3>1. DOMAIN program[m] \subseteq Nat
        BY <1>1, ProgramsTyped
      <3> QED
        BY <1>3, <1>6, <3>1 DEF GoesOn, EndsWith, Out
    <2> SUFFICES ASSUME NEW i \in DOMAIN program[m]
                 PROVE  /\ Out(m, i)' = "ok" => minted[m][i] >= 1
                        /\ Out(m, i)' = "local" => Unsent(m, i)
                        /\ Kind(m, i) = "tokenCreate" =>
                              /\ minted[m][i] <= 1 /\ (<<m, i>> \in late => minted[m][i] = 0)
                              /\ Out(m, i)' = "refused" => Unsent(m, i)
      BY <1>2, <1>10 DEF OutcomesTrue
    <2> QED
      BY <1>1, <1>12, <2>2 DEF OutcomesTrue
  <1>15. ASSUME NEW n \in Maintainers, n # m PROVE UnsentBefore(n)' /\ OutcomesTrue(n)' /\ TagSet(n)'
    <2>1. UnsentBefore(n)' /\ OutcomesTrue(n)'
      BY <1>1, <1>2, <1>6, <1>15, OthersStay
    <2>2. \A i : Out(n, i)' = Out(n, i)
      BY <1>6, <1>15 DEF Out
    <2> QED
      BY <1>1, <1>2, <1>6, <1>11, <1>15, <2>1, <2>2 DEF TagSet
  <1>16. TagSet(m)'
    <2>1. CASE GoesOn(m)
      <3>1. \A i : Out(m, i)' = Out(m, i)
        BY <2>1 DEF GoesOn, Out
      <3> QED
        BY <1>1, <1>2, <1>11, <2>1, <3>1 DEF GoesOn, TagSet
    <2>2. CASE EndsWith(m, "local")
      <3>1. cmd'[m].at = k + 1 /\ Out(m, k)' = "local"
        BY <1>3, <1>4, <2>2 DEF EndsWith
      <3>2. /\ cmd'[m].at = 2 => Out(m, 1)' = "local"
            /\ cmd'[m].at = 3 => Out(m, 2)' = "local"
        <4>1. cmd'[m].at = 2 => k = 1
          BY <1>4, <3>1
        <4>2. cmd'[m].at = 3 => k = 2
          BY <1>4, <3>1
        <4> QED
          BY <3>1, <4>1, <4>2
      <3> QED
        BY <3>2 DEF TagSet
    <2> QED
      BY <1>6, <2>1, <2>2
  <1> QED
    BY <1>9, <1>13, <1>14, <1>15, <1>16 DEF ControlInv

(* A request arrives after its client gave up. *)
LEMMA ArriveInv ==
    ASSUME ControlInv, NEW x \in late, Arrive(x)
    PROVE  ControlInv'
  <1>1. ControlTypeOK /\ \A n \in Maintainers : UnsentBefore(n) /\ OutcomesTrue(n) /\ TagSet(n)
    BY DEF ControlInv
  <1>2. PICK m \in Maintainers : \E k \in DOMAIN program[m] : x = <<m, k>>
    BY <1>1 DEF ControlTypeOK
  <1>3. PICK k \in DOMAIN program[m] : x = <<m, k>>
    BY <1>2
  <1> DEFINE status == Handle(server[RegistryOf(program[m][k])], program[m][k], m).status
             more == IF status = "ok" THEN 1 ELSE 0
  <1>4. Carry(m, k) /\ late' = late \ {<<m, k>>} /\ <<m, k>> \in late /\ program' = program /\ cmd' = cmd
    BY <1>3 DEF Arrive
  <1>5. /\ server' \in [{"main", "own"} -> Registry]
        /\ DOMAIN minted' = Maintainers
        /\ \A n \in Maintainers : n # m => minted'[n] = minted[n]
        /\ minted'[m] \in [DOMAIN program[m] -> Nat]
        /\ \A j \in DOMAIN program[m] : j # k => minted'[m][j] = minted[m][j]
        /\ minted'[m][k] = minted[m][k] + more
    BY <1>1, <1>4, Carries
  <1>6. more \in {0, 1}
    OBVIOUS
  <1> HIDE DEF more
  <1>7. ControlTypeOK'
    <2>1. \A n \in Maintainers : minted'[n] \in [DOMAIN program[n] -> Nat]
      BY <1>1, <1>5 DEF ControlTypeOK
    <2> QED
      BY <1>1, <1>4, <1>5, <2>1 DEF ControlTypeOK
  <1>8. ASSUME NEW n \in Maintainers PROVE UnsentBefore(n)' /\ OutcomesTrue(n)'
    <2>1. CASE n = m
      BY <1>1, <1>4, <1>5, <1>6, <2>1, Arrives
    <2>2. CASE n # m
      BY <1>1, <1>4, <1>5, <2>2, OthersStay
    <2> QED
      BY <2>1, <2>2
  <1>9. ASSUME NEW n \in Maintainers PROVE TagSet(n)'
    <2>1. \A i : Out(n, i)' = Out(n, i)
      BY <1>4 DEF Out
    <2>2. Tags(n)' <=> Tags(n)
      BY <1>4 DEF Tags, Kind
    <2>3. ASSUME Tags(n), cmd[n].at = 2, server["main"].tag = program[n][1].arg
          PROVE  server'["main"].tag = program[n][1].arg
      BY <1>1, <1>4, <2>3, TagStays
    <2> QED
      BY <1>1, <1>4, <2>1, <2>2, <2>3 DEF TagSet
  <1> QED
    BY <1>7, <1>8, <1>9 DEF ControlInv

(* No command has been started, and the registries are new. *)
LEMMA ControlInvInit ==
    ASSUME ControlInit
    PROVE  ControlInv
  <1>1. NewServer \in [{"main", "own"} -> Registry]
    BY DEF NewServer, Registry
  <1>2. ASSUME NEW m \in Maintainers
        PROVE  /\ cmd[m] \in Progress /\ cmd[m].at = 1 /\ cmd[m].pc = "start" /\ Len(cmd[m].outs) = 0
               /\ minted[m] = [i \in DOMAIN program[m] |-> 0] /\ cmd[m].outs = <<>>
    BY DEF ControlInit, Progress
  <1>3. \A m \in Maintainers : Len(program[m]) \in Nat
    BY ControlAssumption DEF ControlInit
  <1>4. ControlTypeOK
    <2>1. cmd \in [Maintainers -> Progress]
      BY <1>2 DEF ControlInit
    <2>2. ASSUME NEW m \in Maintainers
          PROVE  Len(cmd[m].outs) = cmd[m].at - 1 /\ cmd[m].at <= Len(program[m]) + 1
      <3>1. Len(cmd[m].outs) = 0 /\ cmd[m].at = 1
        BY <1>2
      <3>2. 1 <= Len(program[m]) + 1
        BY <1>3
      <3> QED
        BY <3>1, <3>2
    <2>3. DOMAIN minted = Maintainers /\ \A m \in Maintainers : minted[m] \in [DOMAIN program[m] -> Nat]
      BY <1>2 DEF ControlInit
    <2> QED
      BY <1>1, <2>1, <2>2, <2>3 DEF ControlTypeOK, ControlInit
  <1>5. ASSUME NEW m \in Maintainers PROVE UnsentBefore(m) /\ OutcomesTrue(m) /\ TagSet(m)
    <2>1. minted[m] = [i \in DOMAIN program[m] |-> 0] /\ cmd[m].outs = <<>> /\ late = {}
      BY <1>2 DEF ControlInit
    <2>2. \A i : Out(m, i) = "running"
      <3>1. DOMAIN <<>> = {}
        OBVIOUS
      <3> QED
        BY <2>1, <3>1 DEF Out
    <2>3. \A i \in DOMAIN program[m] : minted[m][i] = 0 /\ minted[m][i] <= 1
      BY <2>1
    <2>4. \A i \in DOMAIN program[m] : Unsent(m, i)
      BY <2>1, <2>3 DEF Unsent
    <2> QED
      BY <1>2, <2>2, <2>3, <2>4 DEF UnsentBefore, OutcomesTrue, TagSet
  <1> QED
    BY <1>4, <1>5 DEF ControlInv

(* Every step of a maintainer or of the network keeps the invariant. *)
LEMMA ControlInvNext ==
    ASSUME ControlInv, [ControlNext]_controlVars
    PROVE  ControlInv'
  <1>1. CASE UNCHANGED controlVars
    BY <1>1 DEF controlVars, ControlInv, ControlTypeOK, UnsentBefore, OutcomesTrue, TagSet, Tags, Unsent, Kind, Out
  <1>2. CASE ControlNext
    <2>1. ASSUME NEW x \in late, Arrive(x) PROVE ControlInv'
      BY <2>1, ArriveInv
    <2>2. ASSUME NEW m \in Maintainers, Start(m) \/ Answered(m) \/ AnswerLost(m) \/ RequestLost(m) \/ Delayed(m)
          PROVE  ControlInv'
      BY <2>2, StartInv, AnsweredInv, AnswerLostInv, RequestLostInv
    <2> QED
      BY <1>2, <2>1, <2>2 DEF ControlNext
  <1> QED
    BY <1>1, <1>2

(* For any number of maintainers, programs of any length and any number of *)
(* retries, over a network that loses requests and answers and delivers    *)
(* some after their client gave up: a command that reports success was     *)
(* carried out and one that failed locally never is; create_token mints at *)
(* most one token; dist-tag ls shows one's own dist-tag add.               *)
THEOREM CommandsStaySound == ControlSpec => []CommandsSound
  <1>1. ControlInit => ControlInv
    BY ControlInvInit
  <1>2. ControlInv /\ [ControlNext]_controlVars => ControlInv'
    BY ControlInvNext
  <1>3. ControlInv => CommandsSound
    <2> SUFFICES ASSUME ControlInv PROVE CommandsSound
      OBVIOUS
    <2>1. SuccessTookEffect
      BY DEF ControlInv, OutcomesTrue, SuccessTookEffect, Unsent
    <2>2. MintedOnce
      BY DEF ControlInv, OutcomesTrue, MintedOnce, Unsent
    <2>3. ReadsOwnWrites
      <3> SUFFICES ASSUME NEW m \in Maintainers,
                          Len(cmd[m].outs) = 2, cmd[m].outs = <<"ok", "ok">>,
                          Kind(m, 1) = "tagAdd", Kind(m, 2) = "tagLs", ~program[m][2].scoped,
                          \A n \in Maintainers \ {m} : \A i \in DOMAIN program[n] :
                              Kind(n, i) \notin {"tagAdd", "tagRm", "publish"}
                   PROVE  cmd[m].shown = program[m][1].arg
        BY DEF ReadsOwnWrites
      <3>1. ControlTypeOK /\ TagSet(m)
        BY DEF ControlInv
      <3>2. cmd[m] \in Progress /\ 2 = cmd[m].at - 1 /\ cmd[m].at <= Len(program[m]) + 1
        BY <3>1 DEF ControlTypeOK
      <3>3. cmd[m].at = 3 /\ Len(program[m]) >= 2
        BY <3>1, <3>2, ProgramsTyped DEF Progress
      <3>4. Out(m, 1) = "ok" /\ Out(m, 2) = "ok"
        BY DEF Out
      <3>5. Tags(m)
        BY <3>3 DEF Tags
      <3> QED
        BY <3>1, <3>3, <3>4, <3>5 DEF TagSet
    <2> QED
      BY <2>1, <2>2, <2>3 DEF CommandsSound
  <1> QED
    BY <1>1, <1>2, <1>3, PTL DEF ControlSpec
=============================================================================
