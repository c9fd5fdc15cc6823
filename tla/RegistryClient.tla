--------------------------- MODULE RegistryClient ---------------------------
(***************************************************************************)
(* src/registry/mod.rs: one registry client shared by threads.  A package  *)
(* document (packument) is memoised per package in slots; a slot in flight *)
(* is claimed by whoever fetches it and everyone else waits on one         *)
(* condition variable.  A pool of workers prefetches documents and, from   *)
(* them, those of the dependencies.  Below is the persistent metadata      *)
(* cache (src/metadata_cache.rs), revalidated with conditional requests.   *)
(*                                                                         *)
(* A document is the number of the registry's revision it was served at.   *)
(* Batch is the thread in prefetch_batch_closure; Callers call packument().*)
(***************************************************************************)
EXTENDS Naturals, Sequences, FiniteSets, FiniteSetsExt

CONSTANTS Keys, Roots, Deps, Callers, Batch, Workers,
          MaxDepth, MaxCalls, Attempts, MaxRevision

Clients == Callers \cup {Batch}
Threads == Clients \cup Workers
None == 0
Garbage == MaxRevision + 1          \* a body that is no packument: a proxy's page
Failed == MaxRevision + 2
Absent == MaxRevision + 3
InFlight == MaxRevision + 4
NoKey == 0

ASSUME ClientAssumption ==
    /\ Keys \subseteq Nat \ {NoKey} /\ Roots \subseteq Keys /\ Deps \in [Keys -> SUBSET Keys]
    /\ Callers \cap Workers = {} /\ Batch \notin Callers \cup Workers
    /\ {MaxDepth, MaxCalls, Attempts} \subseteq Nat /\ MaxDepth > 0
    /\ MaxRevision \in Nat /\ MaxRevision > 1

VARIABLES
  mode,                             \* the CacheMode
  slot,                             \* PackumentCache.map
  queue, sender,                    \* the pool's channel, and whether its sender is there
  store,                            \* MetadataCache: the body kept for each url
  published, since,                 \* the registry's revision, now and when the client began
  pc, at, cached, tries, body,      \* each thread: what it does, for which key, with what
  level, seen, depth, next,         \* prefetch_batch_closure's loop
  children,                         \* the dependencies a worker has yet to enqueue
  calls                             \* calls of packument() each caller has left

fetching == <<cached, tries, body>>
looping == <<level, seen, depth, next>>
vars == <<mode, slot, queue, sender, store, published, since, pc, at, fetching,
          looping, children, calls>>

Modes == {"Default", "PreferOffline", "Offline"}
AllowsNetwork == mode # "Offline"
ServesStale == mode \in {"PreferOffline", "Offline"}
Bodies == {None, Garbage} \cup 1 .. MaxRevision

Init ==
    /\ mode \in Modes
    /\ slot = [k \in Keys |-> Absent]
    /\ queue = <<>> /\ sender = TRUE
    /\ published = MaxRevision - 1 /\ since = published
    /\ store \in {[k \in Keys |-> b] : b \in {None, Garbage, 1}}
    /\ pc = [t \in Threads |-> CASE t \in Callers -> "idle" [] t = Batch -> "prefetch"
                                 [] OTHER -> "recv"]
    /\ at = [t \in Threads |-> NoKey]
    /\ cached = [t \in Threads |-> None] /\ tries = [t \in Threads |-> 0]
    /\ body = [t \in Threads |-> None]
    /\ level = Roots /\ seen = Roots /\ depth = 0 /\ next = {}
    /\ children = [w \in Workers |-> {}]
    /\ calls = [c \in Callers |-> MaxCalls]
-----------------------------------------------------------------------------
(* notify_all: every thread in cv.wait looks again, whatever its key.      *)
Woken(pcs) == [t \in Threads |-> IF pcs[t] = "waiting" THEN "lookup" ELSE pcs[t]]

(* A caller asks for a package. *)
CallPackument(c) ==
    /\ c \in Callers /\ pc[c] = "idle" /\ calls[c] > 0
    /\ \E k \in Keys : at' = [at EXCEPT ![c] = k]
    /\ calls' = [calls EXCEPT ![c] = @ - 1]
    /\ pc' = [pc EXCEPT ![c] = "lookup"]
    /\ UNCHANGED <<mode, slot, queue, sender, store, published, since, fetching, looping, children>>

(* packument's loop, one turn of it under the mutex: a hit, a wait, or the *)
(* slot is claimed.                                                        *)
Lookup(c) ==
    /\ pc[c] = "lookup"
    /\ CASE slot[at[c]] \in Bodies ->
              /\ body' = [body EXCEPT ![c] = slot[at[c]]]
              /\ pc' = [pc EXCEPT ![c] = "returned"] /\ UNCHANGED slot
         [] slot[at[c]] = InFlight ->
              pc' = [pc EXCEPT ![c] = "waiting"] /\ UNCHANGED <<slot, body>>
         [] OTHER ->
              /\ slot' = [slot EXCEPT ![at[c]] = InFlight]
              /\ pc' = [pc EXCEPT ![c] = "read"] /\ UNCHANGED body
    /\ UNCHANGED <<mode, queue, sender, store, published, since, at, cached, tries, looping,
                   children, calls>>

(* Mutant: every mode serves a kept body without asking. *)
ReadStale(t) ==
    /\ pc[t] = "read"
    /\ \E entry \in {store[at[t]], None} :
         /\ cached' = [cached EXCEPT ![t] = entry]
         /\ body' = [body EXCEPT ![t] = IF entry # None THEN entry ELSE Failed]
         /\ pc' = [pc EXCEPT ![t] = IF entry # None THEN "finish"
                                    ELSE IF AllowsNetwork THEN "request" ELSE "finish"]
    /\ tries' = [tries EXCEPT ![t] = 0]
    /\ UNCHANGED <<mode, slot, queue, sender, store, published, since, at, looping, children, calls>>

(* fetch_with_cache up to the request.  A cache that cannot be read is a   *)
(* miss.  Offline answers from it or fails; prefer-offline answers from it *)
(* if it can.                                                              *)
ReadCache(t) ==
    /\ pc[t] = "read"
    /\ \E entry \in {store[at[t]], None} :
         LET answered == ~AllowsNetwork \/ (ServesStale /\ entry # None) IN
         /\ cached' = [cached EXCEPT ![t] = entry]
         /\ body' = [body EXCEPT ![t] = IF answered /\ entry # None THEN entry ELSE Failed]
         /\ pc' = [pc EXCEPT ![t] = IF answered THEN "finish" ELSE "request"]
    /\ tries' = [tries EXCEPT ![t] = 0]
    /\ UNCHANGED <<mode, slot, queue, sender, store, published, since, at, looping, children, calls>>

(* The validators sent are those of the entry that was read: the registry  *)
(* answers 304 for its current revision, else 200.  Garbage came without   *)
(* validators.  The HTTP client retries what is worth retrying.            *)
Request(t) ==
    /\ pc[t] = "request"
    /\ \/ /\ cached[t] = published
          /\ body' = [body EXCEPT ![t] = cached[t]]
          /\ pc' = [pc EXCEPT ![t] = "finish"] /\ UNCHANGED tries
       \/ \E answer \in ({published} \ {cached[t]}) \cup {Garbage} :
             /\ body' = [body EXCEPT ![t] = answer]
             /\ pc' = [pc EXCEPT ![t] = "put"] /\ UNCHANGED tries
       \/ /\ tries[t] + 1 < Attempts
          /\ tries' = [tries EXCEPT ![t] = @ + 1] /\ UNCHANGED <<body, pc>>
       \/ /\ body' = [body EXCEPT ![t] = Failed]
          /\ pc' = [pc EXCEPT ![t] = "finish"] /\ UNCHANGED tries
    /\ UNCHANGED <<mode, slot, queue, sender, store, published, since, at, cached, looping,
                   children, calls>>

(* The 200 body is kept as it came, before it is parsed; a failed write is *)
(* ignored.                                                                *)
Put(t) ==
    /\ pc[t] = "put"
    /\ \E kept \in {body[t], store[at[t]]} : store' = [store EXCEPT ![at[t]] = kept]
    /\ pc' = [pc EXCEPT ![t] = "finish"]
    /\ UNCHANGED <<mode, slot, queue, sender, published, since, at, fetching, looping, children, calls>>

Parsed(b) == IF b = Garbage THEN Failed ELSE b

(* Mutant: a failure frees the slot and tells nobody. *)
FinishSilently(t) ==
    LET result == Parsed(body[t])
        after == [pc EXCEPT ![t] = IF t \in Workers THEN "enqueue" ELSE "returned"] IN
    /\ pc[t] = "finish"
    /\ body' = [body EXCEPT ![t] = IF t \in Workers THEN None ELSE result]
    /\ cached' = [cached EXCEPT ![t] = None] /\ tries' = [tries EXCEPT ![t] = 0]
    /\ slot' = [slot EXCEPT ![at[t]] = IF result = Failed THEN Absent ELSE result]
    /\ pc' = IF result = Failed THEN after ELSE Woken(after)
    /\ children' = IF t \in Workers /\ result # Failed
                   THEN [children EXCEPT ![t] = Deps[at[t]]] ELSE children
    /\ UNCHANGED <<mode, queue, sender, store, published, since, at, looping, calls>>

(* The end of packument and of a worker's job, under the mutex: the slot   *)
(* is filled, or freed for another attempt, and everyone is woken.         *)
Finish(t) ==
    LET result == Parsed(body[t])
        after == [pc EXCEPT ![t] = IF t \in Workers THEN "enqueue" ELSE "returned"] IN
    /\ pc[t] = "finish"
    /\ body' = [body EXCEPT ![t] = IF t \in Workers THEN None ELSE result]
    /\ cached' = [cached EXCEPT ![t] = None] /\ tries' = [tries EXCEPT ![t] = 0]
    /\ slot' = [slot EXCEPT ![at[t]] = IF result = Failed THEN Absent ELSE result]
    /\ pc' = Woken(after)
    /\ children' = IF t \in Workers /\ result # Failed
                   THEN [children EXCEPT ![t] = Deps[at[t]]] ELSE children
    /\ UNCHANGED <<mode, queue, sender, store, published, since, at, looping, calls>>

Return(c) ==
    /\ c \in Callers /\ pc[c] = "returned"
    /\ pc' = [pc EXCEPT ![c] = "idle"] /\ body' = [body EXCEPT ![c] = None]
    /\ UNCHANGED <<mode, slot, queue, sender, store, published, since, at, cached, tries, looping,
                   children, calls>>
-----------------------------------------------------------------------------
(* enqueue_prefetch's two steps: the claim, if nobody has the slot, and    *)
(* the job, if the pool is still open (else the claim is given back).      *)
(* Mutant: the job is queued whoever has the slot. *)
ClaimAlways(t, k, after) ==
    /\ slot' = [slot EXCEPT ![k] = IF @ \in Bodies THEN @ ELSE InFlight]
    /\ pc' = [pc EXCEPT ![t] = IF slot[k] \in Bodies THEN after ELSE "submit"]
    /\ at' = [at EXCEPT ![t] = k]

Claim(t, k, after) ==
    /\ slot' = [slot EXCEPT ![k] = IF @ = Absent THEN InFlight ELSE @]
    /\ pc' = [pc EXCEPT ![t] = IF slot[k] = Absent THEN "submit" ELSE after]
    /\ at' = [at EXCEPT ![t] = k]

Submit(t) ==
    /\ pc[t] = "submit"
    /\ IF sender THEN queue' = Append(queue, at[t]) /\ UNCHANGED slot
       ELSE slot' = [slot EXCEPT ![at[t]] = Absent] /\ UNCHANGED queue
    /\ pc' = [pc EXCEPT ![t] = IF t \in Workers THEN "enqueue" ELSE "prefetch"]
    /\ UNCHANGED <<mode, sender, store, published, since, at, fetching, looping, children, calls>>

(* A worker takes a job, even after the pool closed, and ends when the     *)
(* channel is empty and closed.                                            *)
Receive(w) ==
    /\ w \in Workers /\ pc[w] = "recv"
    /\ IF queue # <<>>
       THEN /\ at' = [at EXCEPT ![w] = Head(queue)] /\ queue' = Tail(queue)
            /\ pc' = [pc EXCEPT ![w] = "read"]
       ELSE /\ ~sender /\ pc' = [pc EXCEPT ![w] = "ended"] /\ UNCHANGED <<at, queue>>
    /\ UNCHANGED <<mode, slot, sender, store, published, since, fetching, looping, children, calls>>

(* Recursive lookahead: the dependencies of what was fetched. *)
Lookahead(w) ==
    /\ w \in Workers /\ pc[w] = "enqueue"
    /\ IF children[w] = {}
       THEN pc' = [pc EXCEPT ![w] = "recv"] /\ UNCHANGED <<slot, at, children>>
       ELSE LET k == Min(children[w]) IN
            Claim(w, k, "enqueue") /\ children' = [children EXCEPT ![w] = @ \ {k}]
    /\ UNCHANGED <<mode, queue, sender, store, published, since, fetching, looping, calls>>
-----------------------------------------------------------------------------
(* prefetch_batch_closure, breadth first: every package of the level is    *)
(* enqueued, then each is waited for in turn and its dependencies make the *)
(* next level.  While it enqueues, next holds what it has enqueued; while  *)
(* it waits, what it has found.                                            *)
BatchPrefetch ==
    /\ pc[Batch] = "prefetch" /\ children' = children
    /\ LET left == {k \in level : k \notin next} IN
       IF left = {}
       THEN /\ pc' = [pc EXCEPT ![Batch] = "await"] /\ next' = {} /\ UNCHANGED <<slot, at>>
       ELSE LET k == Min(left) IN Claim(Batch, k, "prefetch") /\ next' = next \cup {k}
    /\ UNCHANGED <<mode, queue, sender, store, published, since, fetching, level, seen, depth, calls>>

BatchAwait ==
    /\ pc[Batch] = "await"
    /\ IF level # {}
       THEN /\ at' = [at EXCEPT ![Batch] = Min(level)] /\ level' = level \ {Min(level)}
            /\ pc' = [pc EXCEPT ![Batch] = "lookup"] /\ UNCHANGED <<depth, next>>
       ELSE /\ level' = next /\ next' = {} /\ depth' = depth + 1 /\ UNCHANGED at
            /\ pc' = [pc EXCEPT ![Batch] =
                        IF depth + 1 >= MaxDepth \/ next = {} THEN "done" ELSE "prefetch"]
    /\ UNCHANGED <<mode, slot, queue, sender, store, published, since, fetching, seen, children, calls>>

(* A root that cannot be fetched fails the batch; a deeper one is skipped. *)
BatchCollect ==
    /\ pc[Batch] = "returned"
    /\ IF body[Batch] = Failed
       THEN /\ pc' = [pc EXCEPT ![Batch] = IF depth = 0 THEN "done" ELSE "await"]
            /\ UNCHANGED <<next, seen>>
       ELSE /\ pc' = [pc EXCEPT ![Batch] = "await"]
            /\ next' = next \cup (Deps[at[Batch]] \ seen)
            /\ seen' = seen \cup Deps[at[Batch]]
    /\ body' = [body EXCEPT ![Batch] = None]
    /\ UNCHANGED <<mode, slot, queue, sender, store, published, since, at, cached, tries, level,
                   depth, children, calls>>

(* The last clone of the client goes away: nobody is in a call any more,   *)
(* the pool loses its sender and the workers are joined.                   *)
DropPool ==
    /\ sender /\ \A c \in Callers : pc[c] = "idle" /\ calls[c] = 0
    /\ pc[Batch] = "done"
    /\ sender' = FALSE
    /\ UNCHANGED <<mode, slot, queue, store, published, since, pc, at, fetching, looping,
                   children, calls>>

(* The registry publishes. *)
Publish ==
    /\ published < MaxRevision /\ published' = published + 1
    /\ UNCHANGED <<mode, slot, queue, sender, store, since, pc, at, fetching, looping, children, calls>>

Fetch(t) == ReadCache(t) \/ Request(t) \/ Put(t) \/ Finish(t)
Step(t) == Fetch(t) \/ Submit(t)
Next ==
    \/ \E t \in Threads : Step(t)
    \/ \E c \in Clients : CallPackument(c) \/ Lookup(c) \/ Return(c)
    \/ \E w \in Workers : Receive(w) \/ Lookahead(w)
    \/ BatchPrefetch \/ BatchAwait \/ BatchCollect
    \/ DropPool \/ Publish

(* Threads are scheduled, requests end (the transport's timeouts), and the *)
(* callers finish their calls and drop the client.  Nobody has to call.    *)
Fairness ==
    /\ \A t \in Threads : WF_vars(Step(t))
    /\ \A c \in Clients : WF_vars(Lookup(c) \/ Return(c))
    /\ \A w \in Workers : WF_vars(Receive(w) \/ Lookahead(w))
    /\ WF_vars(BatchPrefetch \/ BatchAwait \/ BatchCollect) /\ WF_vars(DropPool)
Spec == Init /\ [][Next]_vars /\ Fairness
-----------------------------------------------------------------------------
Stages == {"idle", "prefetch", "recv", "lookup", "waiting", "read", "request", "put", "finish",
           "returned", "submit", "enqueue", "await", "done", "ended"}

TypeOK ==
    /\ mode \in Modes /\ sender \in BOOLEAN
    /\ slot \in [Keys -> {Absent, InFlight} \cup 1 .. MaxRevision]
    /\ queue \in Seq(Keys) /\ store \in [Keys -> Bodies]
    /\ published \in 1 .. MaxRevision /\ since \in 1 .. published
    /\ pc \in [Threads -> Stages] /\ at \in [Threads -> Keys \cup {NoKey}]
    /\ cached \in [Threads -> Bodies] /\ tries \in [Threads -> Nat]
    /\ body \in [Threads -> Bodies \cup {Failed}]
    /\ level \cup next \subseteq seen /\ seen \subseteq Keys
    /\ depth \in 0 .. MaxDepth
    /\ children \in [Workers -> SUBSET Keys] /\ calls \in [Callers -> Nat]

(* Who answers for a slot in flight: the thread that fetches it, the one   *)
(* about to queue it, or the queue.                                        *)
Answering(k) == {t \in Threads : at[t] = k /\ pc[t] \in {"read", "request", "put", "finish", "submit"}}
Queued(k) == {i \in DOMAIN queue : queue[i] = k}
Owners(k) == Cardinality(Answering(k)) + Cardinality(Queued(k))

(* A slot is in flight exactly while one party answers for it: no package  *)
(* is fetched twice at a time by packument and the prefetch workers, and   *)
(* no marker is left behind on which later callers would wait for ever.    *)
OneOwnerPerFlight ==
    \A k \in Keys : Owners(k) = IF slot[k] = InFlight THEN 1 ELSE 0

(* In the default mode nothing that is kept on disk from before is served  *)
(* unless the registry confirmed it: what a call of packument returns is   *)
(* at least the revision the registry had when the client began, and never *)
(* a body that is no packument, although fetch_with_cache keeps one.       *)
ServedIsRevalidated ==
    \A c \in Clients : pc[c] = "returned" /\ body[c] # Failed =>
        body[c] # Garbage /\ (mode = "Default" => body[c] >= since)

(* Every call of packument returns, the batch ends, and dropping the       *)
(* client ends every worker: nobody sleeps through the last notify_all.    *)
EveryCallReturns ==
    /\ \A c \in Callers : (pc[c] = "lookup") ~> (pc[c] = "returned")
    /\ <>(pc[Batch] = "done")
    /\ (~sender) ~> (\A w \in Workers : pc[w] = "ended")
=============================================================================
