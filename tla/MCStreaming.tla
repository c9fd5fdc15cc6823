----------------------------- MODULE MCStreaming -----------------------------
(***************************************************************************)
(* A streaming install, in two parts.  In "fetch" the pipeline fetches x   *)
(* and y, which is nested in x.  In "resolve" the asynchronous resolver    *)
(* that feeds it resolves a few graphs whose resolution needs every kind   *)
(* of call, each under every order of the prefetches.                      *)
(***************************************************************************)
EXTENDS FetchPipeline, FiniteSetsExt, TLC

CONSTANTS x, y, ax, ay, d1, d2, e1, e2
VARIABLES part, world, conf, tasks, cache, flights, permits, budget, failures, disk
resolutionVars == <<world, conf, tasks, cache, flights, permits, budget, failures, disk>>
allVars == <<vars, resolutionVars, part>>

TwoUnits == {x, y}
OneHint == {ay}
TwoDownloaders == {d1, d2}
TwoExtractors == {e1, e2}
OwnArtifact == [u \in Units |-> IF u = x THEN ax ELSE ay]
Nested == [u \in Units |-> IF u = y THEN {x} ELSE {}]

Meta(deps, peers, supported) ==
    [deps |-> deps, optional |-> {}, peers |-> peers, optionalPeers |-> {}, supported |-> supported]
Range12(package) == [kind |-> "range", to |-> package, match |-> {1, 2}]
Exact(package, v) == [kind |-> "exact", to |-> package, match |-> {v}]
World(root, optional, registry, members) ==
    [root |-> root, rootDev |-> {}, rootOptional |-> optional, registry |-> registry,
     latest |-> [p \in DOMAIN registry |-> Max(DOMAIN registry[p])], members |-> members,
     rules |-> <<>>, legacyPeers |-> FALSE]
Leaf == Meta(<<>>, <<>>, TRUE)

Source(patch, readable, link, deps) ==
    [kind |-> "source", patch |-> patch, readable |-> readable, version |-> 2, meta |-> Meta(deps, <<>>, TRUE),
     link |-> link]

(* A shared child; a nested copy of an exact version; a peer installed     *)
(* late; a member whose child conflicts at the root; a package nobody has; *)
(* a member that a lookahead takes for a package; a directory or a tarball *)
(* with a dependency of its own, before and after what the registry has;   *)
(* one that cannot be read and one that is patched.                        *)
SharedChild == World((1 :> Range12(1)) @@ (2 :> Range12(2)), {},
                     <<1 :> Meta(2 :> Range12(2), <<>>, TRUE), (1 :> Leaf) @@ (2 :> Leaf)>>, <<>>)
NestedCopy == World((1 :> Range12(1)) @@ (2 :> Range12(2)), {},
                    <<1 :> Meta(2 :> Exact(2, 1), <<>>, TRUE), (1 :> Leaf) @@ (2 :> Meta(<<>>, <<>>, TRUE))>>, <<>>)
LatePeer == World(1 :> Range12(1), {}, <<1 :> Meta(<<>>, 2 :> Range12(2), TRUE), (1 :> Leaf) @@ (2 :> Leaf)>>, <<>>)
Member == World(1 :> Range12(1), {}, <<(1 :> Leaf) @@ (2 :> Leaf)>>,
                3 :> [version |-> 1, meta |-> Meta(1 :> Exact(1, 1), <<>>, TRUE)])
Missing == World(1 :> Range12(1), {1}, <<1 :> Meta(2 :> Range12(2), <<>>, TRUE)>>, <<>>)
Unsupported == World(1 :> Range12(1), {}, <<1 :> Meta(<<>>, <<>>, FALSE)>>, <<>>)
Guess == World(1 :> Range12(1), {}, <<1 :> Meta(2 :> Range12(2), <<>>, TRUE)>>, 2 :> [version |-> 1, meta |-> Leaf])
FromSource(source) == World((1 :> Range12(1)) @@ (3 :> source), {3}, <<1 :> Leaf, (1 :> Leaf) @@ (2 :> Leaf)>>, <<>>)
BelowPackage(source) ==
    World(1 :> Range12(1), {}, <<1 :> Meta((2 :> source) @@ (3 :> Range12(3)), <<>>, TRUE), 1 :> Leaf, 1 :> Leaf>>, <<>>)
SourceWorlds ==
    {FromSource(Source(patch, readable, link, 2 :> Exact(2, 1))) : patch, readable, link \in BOOLEAN}
      \cup {BelowPackage(Source(patch, readable, FALSE, 3 :> Range12(3))) : patch, readable \in BOOLEAN}
AllWorlds == {Guess, SharedChild, NestedCopy, LatePeer, Member, Missing, Unsupported} \cup SourceWorlds
A == INSTANCE AsyncResolver WITH Worlds <- AllWorlds, Limit <- 2, Budget <- 1, Levels <- 2, MaxFailures <- 1

StreamingInit ==
    /\ part \in {"fetch", "resolve"}
    /\ Init /\ A!Init
    /\ IF part = "fetch" THEN world = Unsupported /\ disk = "unused" ELSE sink = "async" /\ images = {}
StreamingNext ==
    /\ UNCHANGED part
    /\ \/ part = "fetch" /\ Next /\ UNCHANGED resolutionVars
       \/ part = "resolve" /\ A!Next /\ UNCHANGED vars
InFetch(B) == part = "fetch" /\ B /\ UNCHANGED <<resolutionVars, part>>
(* The fairness of the two modules, each in its part.                      *)
StreamingFairness ==
    /\ WF_allVars(InFetch(MainStep)) /\ WF_allVars(InFetch(StagerStep))
    /\ \A d \in Downloaders : WF_allVars(InFetch(DownloaderStep(d)))
    /\ \A e \in Extractors : WF_allVars(InFetch(ExtractorStep(e)))
    /\ []<>~(part = "resolve" /\ A!Runnable) \/ []<><<part = "resolve" /\ StreamingNext>>_allVars
StreamingSpec == StreamingInit /\ [][StreamingNext]_allVars /\ StreamingFairness
-----------------------------------------------------------------------------
(* The resolution that the tasks make together is the blocking resolver's, *)
(* or the same failure, unless a request fails or a patch: dependency is   *)
(* met, which it cannot resolve, and then it announced no more than that   *)
(* one; a failed guess alone never fails it; and max_in_flight bounds the  *)
(* open requests, one for a key at a time.                                 *)
ResolutionMatches == A!MatchesBlocking /\ A!FailuresAreReal /\ A!RequestsBounded

(* Every install comes to an end with all its threads, although channels   *)
(* are bounded and workers fail (cli/install.rs:1532), and every           *)
(* asynchronous resolution ends.                                           *)
StreamingEnds ==
    /\ <>(part = "fetch" => ScopeEnds)
    /\ <>(part = "resolve" => conf.phase = "done")
=============================================================================
