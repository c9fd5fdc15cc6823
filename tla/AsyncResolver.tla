---------------------------- MODULE AsyncResolver ----------------------------
(***************************************************************************)
(* src/async_resolver.rs: the depth-first resolution as one task that      *)
(* suspends at every packument, beside detached tasks that fetch what it   *)
(* may need next.  They meet in the packument cache, in the map of flights *)
(* (one fetch per key, joined by whoever wants the same) and at the        *)
(* semaphore that bounds open requests.                                    *)
(*                                                                         *)
(* The resolution is an explicit stack: a frame is a loop over a package's *)
(* children, and between two suspensions Run takes it as far as it goes.   *)
(* Its graph is judged against Placement, the blocking resolver.           *)
(***************************************************************************)
EXTENDS Placement

CONSTANTS Worlds, Limit, Budget, Levels, MaxFailures

VARIABLES
    world,      \* what is resolved
    conf,       \* the resolution: graph, stack, calls still to make
    tasks,      \* the resolution's own await is task 1, then the detached
    cache,      \* keys of the packuments in memory
    flights,    \* key -> [by, post] of the fetches in the map
    permits,    \* tasks that hold a request permit
    budget,     \* what is left of the lookahead
    failures,   \* requests that failed
    disk        \* how the metadata cache answers: not, or offline with a body or none
vars == <<world, conf, tasks, cache, flights, permits, budget, failures, disk>>

Main == 1
Ok == "ok"
Err == "err"
NotYet == "not yet"

(* packument_cache_key and version_cache_key. *)
KeyOf(request) == <<request.to, IF request.kind = "exact" THEN Min(request.match) ELSE None>>
Task(pc, request, levels) == [pc |-> pc, request |-> request, levels |-> levels, got |-> NotYet]
Fetchable(w, deps) ==
    {name \in DOMAIN deps : deps[name].kind \in {"range", "exact", "latest"} /\ name \notin DOMAIN w.members}
Spawned(w, deps, names, pc, levels) ==
    [i \in DOMAIN Ascending(names) |-> Task(pc, deps[Ascending(names)[i]], levels)]
-----------------------------------------------------------------------------
(* The resolution.  A call is what resolve_dependency is called with.      *)
CallOf(parent, name, request, optional, dev) ==
    [parent |-> parent, name |-> name, request |-> request, optional |-> optional, dev |-> dev]
Push(c, path, hoisted, optional, dev) ==
    LET names == Ascending(DOMAIN c.s.nodes[path].meta.deps)
    IN  [c EXCEPT !.stack = Append(@, [path |-> path, todo |-> names, hoisted |-> hoisted,
                                       nested |-> FALSE, optional |-> optional, dev |-> dev]),
                  !.call = <<>>]

(* What resolve_dependency, or an error in it, gives its caller.           *)
Give(c, at) == [c EXCEPT !.call = <<>>, !.ret = <<at>>]
Raise(c, why) == [c EXCEPT !.call = <<>>, !.s.error = why]

PlatformAllows(c, node) ==
    IF node.meta.supported THEN <<>>
    ELSE <<IF node.optional THEN Give(c, Nowhere) ELSE Raise(c, "platform")>>
AnnounceNode(c, path) ==
    IF c.s.nodes[path].link THEN c ELSE [c EXCEPT !.s.announced = Append(@, path)]

(* A node that the platform allows is inserted and announced, its registry *)
(* children are prefetched unless it is a member or a source.              *)
Enter(w, c, path, node, hoisted, prefetch) ==
    LET refused == PlatformAllows(c, node)
        told == AnnounceNode([c EXCEPT !.s = Insert(@, path, node)], path)
        warmed == IF ~prefetch THEN told
                  ELSE [told EXCEPT !.spawn = @ \o Spawned(w, node.meta.deps, Fetchable(w, node.meta.deps), "peek", 1)]
    IN  IF refused # <<>> THEN refused[1] ELSE Push(warmed, path, hoisted, node.optional, node.dev)

(* resolve_source_dependency: source.resolve has no resolver to read the   *)
(* inner source of a patch with, so that it fails for every patch.         *)
EnterSource(w, c, k, request, at) ==
    IF request.patch THEN Raise(c, "patch")
    ELSE IF ~request.readable THEN Raise(c, "source")
    ELSE Enter(w, c, at, NewNode(k.name, k.name, request.version, request.meta, k.optional, k.dev, request.link),
               FALSE, FALSE)

(* resolve_dependency up to the packument it waits for. *)
Begin(w, c) ==
    LET k == c.call[1]
        request == EffectiveSpecFor(w.rules, k.name, k.request, AncestorChain(c.s, k.parent))
        local == WorkspaceResolve(w, k.name, request)
        own == Append(k.parent, k.name)
        at == IF local = "link" THEN <<k.name>> ELSE own
        Known(path) == Give([c EXCEPT !.s = UpgradeReachability(@, path, k.optional, k.dev)], path)
    IN  IF local = "error" THEN Raise(c, "workspace")
        ELSE IF local = "link" \/ request.kind = "source"
        THEN IF at \in DOMAIN c.s.nodes THEN Known(at)
             ELSE IF local = "link"
             THEN Enter(w, c, at, NewNode(k.name, k.name, w.members[k.name].version, w.members[k.name].meta,
                                          k.optional, k.dev, TRUE), TRUE, FALSE)
             ELSE EnterSource(w, c, k, request, at)
        ELSE LET visible == FindVisible(c.s, k.parent, k.name, request)
             IN  IF visible # Nowhere THEN Known(visible)
                 ELSE IF own \in DOMAIN c.s.nodes THEN Raise(c, "conflict")
                 ELSE [c EXCEPT !.await = <<request>>]

(* resolve_dependency once the packument is there. *)
Resume(w, c) ==
    LET k == c.call[1]
        request == c.await[1]
        version == ChooseVersion(w, c.s, request.to, request, k.parent)
        back == [c EXCEPT !.await = <<>>]
    IN  IF version = None THEN Raise(back, "registry")
        ELSE Enter(w, back, Append(k.parent, k.name),
                   NewNode(k.name, request.to, version, w.registry[request.to][version], k.optional, k.dev, FALSE),
                   FALSE, TRUE)

(* Mutant: the copy of a hoisted child below the link is forgotten.        *)
LoopDeaf(c) ==
    LET top == Last(c.stack)
        deps == c.s.nodes[top.path].meta.deps
        name == Head(top.todo)
        Next(parent) == <<CallOf(parent, name, deps[name], ChildOptional(c.s, top.path, name, top.optional), top.dev)>>
    IN  IF c.ret # <<>> /\ top.todo # <<>>
        THEN [c EXCEPT !.ret = <<>>, !.s = IF top.nested THEN @ ELSE SetTarget(@, top.path, name, c.ret[1]),
                       !.stack = [@ EXCEPT ![Len(@)].todo = Tail(@), ![Len(@)].nested = FALSE]]
        ELSE IF top.todo = <<>> THEN [c EXCEPT !.stack = Front(@), !.ret = <<top.path>>]
        ELSE [c EXCEPT !.call = Next(IF top.hoisted /\ ~top.nested THEN <<>> ELSE top.path)]

(* resolve_children and resolve_children_hoisted: the next child, or the   *)
(* end of the loop.                                                        *)
Loop(c) ==
    LET top == Last(c.stack)
        deps == c.s.nodes[top.path].meta.deps
        name == Head(top.todo)
        Next(parent) == <<CallOf(parent, name, deps[name], ChildOptional(c.s, top.path, name, top.optional), top.dev)>>
    IN  IF c.ret # <<>> /\ top.todo # <<>>
        THEN [c EXCEPT !.ret = <<>>, !.s = SetTarget(@, top.path, name, c.ret[1]),
                       !.stack = [@ EXCEPT ![Len(@)].todo = Tail(@), ![Len(@)].nested = FALSE]]
        ELSE IF top.todo = <<>> THEN [c EXCEPT !.stack = Front(@), !.ret = <<top.path>>]
        ELSE [c EXCEPT !.call = Next(IF top.hoisted /\ ~top.nested THEN <<>> ELSE top.path)]

(* An error ends the frames it passes, but a conflict stops at a member's  *)
(* loop that has tried the root and now tries below the link.              *)
Unwind(c) ==
    LET catchers == {i \in DOMAIN c.stack : c.stack[i].hoisted /\ ~c.stack[i].nested}
    IN  IF c.s.error = "conflict" /\ catchers # {}
        THEN [c EXCEPT !.s.error = "none", !.ret = <<>>,
                       !.stack = [SubSeq(@, 1, Max(catchers)) EXCEPT ![Max(catchers)].nested = TRUE]]
        ELSE [c EXCEPT !.stack = <<>>, !.plan = <<>>, !.phase = "done"]

BindFinal(w, c) == [c EXCEPT !.s = BindAll(w, @), !.phase = "done"]

(* The calls at the top: the roots, the members nobody asked for, rounds   *)
(* of missing peers, and then the final binding.                           *)
Phase(w, c) ==
    CASE c.phase = "roots" ->
           LET left == Ascending(DOMAIN w.members \ DOMAIN c.s.roots)
           IN  [c EXCEPT !.phase = "members",
                  !.plan = [i \in DOMAIN left |->
                     CallOf(<<>>, left[i], [kind |-> "range", to |-> left[i], match |-> {w.members[left[i]].version}],
                            FALSE, FALSE)]]
      [] c.phase = "members" -> [c EXCEPT !.phase = "peers"]
      [] c.phase = "peers" ->
           LET binds == [path \in DOMAIN c.s.nodes |-> BindPeerContext(w, c.s, path)]
               missing == SelectSeq(Paths(c.s), LAMBDA path : binds[path].status = "missing")
           IN  IF \E path \in DOMAIN binds : binds[path].status = "unsatisfied" THEN Raise(c, "peer")
               ELSE IF missing = <<>> \/ c.round = Rounds THEN BindFinal(w, c)
               ELSE [c EXCEPT !.round = @ + 1,
                       !.plan = [i \in DOMAIN missing |->
                          CallOf(Front(missing[i]), binds[missing[i]].peer,
                                 c.s.nodes[missing[i]].meta.peers[binds[missing[i]].peer], FALSE, FALSE)]]

(* A root call is over. *)
Keep(c) ==
    LET name == c.plan[1].name
        named == c.phase \in {"roots", "members"} /\ c.ret[1] # Nowhere
    IN  [c EXCEPT !.ret = <<>>, !.plan = Tail(@), !.s.roots = IF named THEN (name :> c.ret[1]) @@ @ ELSE @]

RECURSIVE Run(_, _)
Run(w, c) ==
    IF c.phase = "done" \/ c.await # <<>> THEN c
    ELSE Run(w, IF c.s.error # "none" THEN Unwind(c)
                ELSE IF c.call # <<>> THEN Begin(w, c)
                ELSE IF c.stack # <<>> THEN Loop(c)
                ELSE IF c.ret # <<>> THEN Keep(c)
                ELSE IF c.plan # <<>> THEN [c EXCEPT !.call = <<Head(c.plan)>>]
                ELSE Phase(w, c))

Opening(w) ==
    LET names == Ascending(DOMAIN w.root)
    IN  [s |-> EmptyGraph, stack |-> <<>>, call |-> <<>>, ret |-> <<>>, await |-> <<>>, spawn |-> <<>>,
         round |-> 0, phase |-> "roots",
         plan |-> [i \in DOMAIN names |-> CallOf(<<>>, names[i], w.root[names[i]],
                                                 names[i] \in w.rootOptional, names[i] \in w.rootDev)]]
-----------------------------------------------------------------------------
(* Suspended: the main task's await as a task of its own.                  *)
NoRequest == [kind |-> "none", to |-> None, match |-> {}]
AwaitOf(c) == IF c.await = <<>> THEN Task("idle", NoRequest, 0) ELSE Task("check", c.await[1], 0)

(* The root warm-up tasks are spawned before the first root is resolved.   *)
Init ==
    /\ world \in Worlds
    /\ LET c == Run(world, Opening(world))
       IN  /\ conf = [c EXCEPT !.spawn = <<>>]
           /\ tasks = <<AwaitOf(c)>> \o Spawned(world, world.root, Fetchable(world, world.root), "check", Levels) \o c.spawn
    /\ disk \in {"unused", "warm", "cold"}
    /\ cache = {}
    /\ flights = <<>>
    /\ permits = {}
    /\ budget = Budget
    /\ failures = 0

Key(t) == KeyOf(tasks[t].request)
Goto(t, pc) == tasks' = [tasks EXCEPT ![t].pc = pc]
Got(t, result) == tasks' = [tasks EXCEPT ![t].pc = "got", ![t].got = result]

(* The fast paths: prefetch_parsed_packument's look into the cache, then   *)
(* packument_shared's two, or the one of an exact version.                 *)
Peek(t) ==
    /\ tasks[t].pc \in {"peek", "check", "recheck"}
    /\ IF Key(t) \in cache THEN Got(t, Ok)
       ELSE Goto(t, CASE tasks[t].pc = "peek" -> IF Key(t)[2] = None THEN "flight" ELSE "recheck"
                      [] tasks[t].pc = "check" /\ Key(t)[2] = None -> "recheck"
                      [] OTHER -> "flight")
    /\ UNCHANGED <<world, conf, cache, flights, permits, budget, failures, disk>>

(* singleflight_fetch: insert, or join, or find a flight already over.     *)
Join(t) ==
    /\ tasks[t].pc = "flight"
    /\ IF Key(t) \notin DOMAIN flights
       THEN /\ flights' = (Key(t) :> [by |-> t, post |-> NotYet]) @@ flights
            /\ Goto(t, "fetch")
       ELSE /\ IF flights[Key(t)].post = NotYet THEN Goto(t, "wait") ELSE Got(t, flights[Key(t)].post)
            /\ UNCHANGED flights
    /\ UNCHANGED <<world, conf, cache, permits, budget, failures, disk>>

(* Mutant: the request is sent without a permit being free. *)
FetchUnbounded(t) ==
    /\ tasks[t].pc = "fetch"
    /\ disk = "unused"
    /\ permits' = permits \cup {t}
    /\ Goto(t, "asked")
    /\ UNCHANGED <<world, conf, cache, flights, budget, failures, disk>>

(* async_fetch_with_cache: a body on disk is served where the mode allows, *)
(* offline without one fails, and otherwise the request takes a permit.    *)
Fetch(t) ==
    /\ tasks[t].pc = "fetch"
    /\ IF disk # "unused"
       THEN Goto(t, IF disk = "warm" /\ Published(world, tasks[t].request) # {} THEN "fetched" ELSE "failed")
            /\ UNCHANGED permits
       ELSE Cardinality(permits) < Limit /\ permits' = permits \cup {t} /\ Goto(t, "asked")
    /\ UNCHANGED <<world, conf, cache, flights, budget, failures, disk>>

(* async_send_with_retry and the body; the permit goes with the response.  *)
Answer(t) ==
    /\ tasks[t].pc = "asked"
    /\ permits' = permits \ {t}
    /\ \/ Published(world, tasks[t].request) # {} /\ Goto(t, "fetched") /\ UNCHANGED failures
       \/ /\ failures < MaxFailures \/ Published(world, tasks[t].request) = {}
          /\ failures' = IF Published(world, tasks[t].request) = {} THEN failures ELSE failures + 1
          /\ Goto(t, "failed")
    /\ UNCHANGED <<world, conf, cache, flights, budget, disk>>

(* Success is cached, an error is not. *)
Store(t) ==
    /\ tasks[t].pc \in {"fetched", "failed"}
    /\ cache' = IF tasks[t].pc = "fetched" THEN cache \cup {Key(t)} ELSE cache
    /\ tasks' = [tasks EXCEPT ![t].got = IF tasks[t].pc = "fetched" THEN Ok ELSE Err, ![t].pc = "post"]
    /\ UNCHANGED <<world, conf, flights, permits, budget, failures, disk>>

(* Mutant: only a packument is worth telling the waiters. *)
PostOkOnly(t) ==
    /\ tasks[t].pc = "post"
    /\ flights' = [flights EXCEPT ![Key(t)].post = tasks[t].got]
    /\ tasks' = [u \in DOMAIN tasks |->
                   IF u = t THEN [tasks[u] EXCEPT !.pc = "remove"]
                   ELSE IF tasks[u].pc = "wait" /\ Key(u) = Key(t) /\ tasks[t].got = Ok
                   THEN [tasks[u] EXCEPT !.pc = "got", !.got = tasks[t].got]
                   ELSE tasks[u]]
    /\ UNCHANGED <<world, conf, cache, permits, budget, failures, disk>>

(* The waiters get the producer's result, good or bad. *)
Post(t) ==
    /\ tasks[t].pc = "post"
    /\ flights' = [flights EXCEPT ![Key(t)].post = tasks[t].got]
    /\ tasks' = [u \in DOMAIN tasks |->
                   IF u = t THEN [tasks[u] EXCEPT !.pc = "remove"]
                   ELSE IF tasks[u].pc = "wait" /\ Key(u) = Key(t)
                   THEN [tasks[u] EXCEPT !.pc = "got", !.got = tasks[t].got]
                   ELSE tasks[u]]
    /\ UNCHANGED <<world, conf, cache, permits, budget, failures, disk>>

RemoveFlight(t) ==
    /\ tasks[t].pc = "remove"
    /\ flights' = Restrict(flights, DOMAIN flights \ {Key(t)})
    /\ Goto(t, "got")
    /\ UNCHANGED <<world, conf, cache, permits, budget, failures, disk>>

(* The registry children of the version a request would be given. *)
SelectedRegistryChildren(w, request) ==
    LET version == SelectVersion(w, request.to, request)
        deps == IF version = None THEN <<>> ELSE w.registry[request.to][version].deps
    IN  LET kept == {name \in DOMAIN deps : deps[name].kind \in {"range", "exact", "latest"}}
        IN  [name \in kept |-> deps[name]]

(* prefetch_selected_children: the children of the version that would be   *)
(* chosen, as long as the budget lasts.                                    *)
Lookahead(t) ==
    /\ t # Main /\ tasks[t].pc = "got"
    /\ LET deps == SelectedRegistryChildren(world, tasks[t].request)
           wanted == IF tasks[t].got # Ok \/ tasks[t].levels = 0 THEN <<>>
                     ELSE Spawned(world, deps, DOMAIN deps, "peek", tasks[t].levels - 1)
           count == Min({budget, Len(wanted)})
       IN  /\ budget' = budget - count
           /\ tasks' = [tasks EXCEPT ![t].pc = "idle"] \o SubSeq(wanted, 1, count)
    /\ UNCHANGED <<world, conf, cache, flights, permits, failures, disk>>

(* Mutant: a failed guess fails the resolution that did not ask for it.    *)
ProceedAny ==
    /\ tasks[Main].pc = "got"
    /\ LET guessed == \E t \in DOMAIN tasks : tasks[t].got = Err
           c == IF ~guessed THEN Resume(world, conf) ELSE Raise([conf EXCEPT !.await = <<>>], "registry")
           n == Run(world, c)
       IN  /\ conf' = [n EXCEPT !.spawn = <<>>]
           /\ tasks' = [tasks EXCEPT ![Main] = AwaitOf(n)] \o n.spawn
    /\ UNCHANGED <<world, cache, flights, permits, budget, failures, disk>>

(* The resolution goes on to its next packument, or fails. *)
Proceed ==
    /\ tasks[Main].pc = "got"
    /\ LET c == IF tasks[Main].got = Ok THEN Resume(world, conf) ELSE Raise([conf EXCEPT !.await = <<>>], "registry")
           n == Run(world, c)
       IN  /\ conf' = [n EXCEPT !.spawn = <<>>]
           /\ tasks' = [tasks EXCEPT ![Main] = AwaitOf(n)] \o n.spawn
    /\ UNCHANGED <<world, cache, flights, permits, budget, failures, disk>>

Step(t) == Peek(t) \/ Join(t) \/ Fetch(t) \/ Answer(t) \/ Store(t) \/ Post(t) \/ RemoveFlight(t) \/ Lookahead(t)
Next == Proceed \/ \E t \in DOMAIN tasks : Step(t)

(* The runtime polls some task that can run as long as there is one: weak  *)
(* fairness of Next, with what enables it written out.                     *)
MaxTasks == 12
Runnable ==
    \E t \in DOMAIN tasks :
        /\ tasks[t].pc \notin {"idle", "wait"}
        /\ tasks[t].pc = "fetch" /\ disk = "unused" => Cardinality(permits) < Limit
Fairness == []<>~Runnable \/ []<><<Next>>_vars
Spec == Init /\ [][Next]_vars /\ Fairness
-----------------------------------------------------------------------------
(* Who is in the map is fetching, and who holds a permit has asked.        *)
TypeOK ==
    /\ Len(tasks) <= MaxTasks
    /\ budget \in 0 .. Budget
    /\ \A t \in permits : tasks[t].pc = "asked"
    /\ \A key \in DOMAIN flights :
         tasks[flights[key].by].pc \in {"fetch", "asked", "fetched", "failed", "post", "remove"}

(* The resolution the tasks make together is the blocking resolver's: the  *)
(* same copies in the same places with the same edges, flags and peers, or *)
(* the same failure.  One that a failed request or a patch: dependency     *)
(* stops has announced, and so downloads, nothing the blocking one does    *)
(* not announce, in the same order.                                        *)
MatchesBlocking ==
    conf.phase = "done" =>
        IF conf.s.error \in {"registry", "patch"}
        THEN IsPrefix(conf.s.announced, ResolveManifest(world).announced)
        ELSE conf.s = ResolveManifest(world)

(* max_in_flight bounds the open requests, and a request that is open is   *)
(* its key's only one: a second can only follow it.                        *)
RequestsBounded ==
    /\ Cardinality(permits) <= Limit
    /\ \A t, u \in permits : Key(t) = Key(u) => t = u

(* A failed guess alone never fails a resolution: with a registry that     *)
(* answers, it fails only where the blocking one does.                     *)
FailuresAreReal ==
    conf.phase = "done" /\ conf.s.error = "registry" /\ disk # "cold" /\ failures = 0
      => ResolveManifest(world).error = "registry"

(* Claim: "the resulting lockfile is byte-identical to the blocking        *)
(* resolver's output for the same manifest/peer-mode": where the registry  *)
(* answers there is a lock from one resolver when there is from the other. *)
LocksIdentical ==
    conf.phase = "done" /\ conf.s.error # "registry" => conf.s = ResolveManifest(world)

(* Claim: a prefetch's failure is dropped and "the inline                  *)
(* `resolve_children` path re-fetches and surfaces real errors": what the  *)
(* resolution joins never hands it a failure it did not meet itself.       *)
InlineRefetches ==
    [][tasks[Main].pc = "wait" /\ tasks'[Main].pc = "got" => tasks'[Main].got = Ok]_vars

(* Every resolution ends. *)
ResolutionEnds == <>(conf.phase = "done")
=============================================================================
