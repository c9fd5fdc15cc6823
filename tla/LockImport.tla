----------------------------- MODULE LockImport -----------------------------
(***************************************************************************)
(* src/hoist.rs, src/yarn_lock.rs and src/pnpm_lock.rs: locks of other     *)
(* managers record which version each edge has, not where it is placed;    *)
(* the importers place it.  A path is the sequence of package names from   *)
(* the root, an id a pair <<name, version>>, the edges of a package a      *)
(* function from the names it requires to ids (an alias requires one name  *)
(* and gets the id of another).  Names are numbers in BTreeMap order.      *)
(***************************************************************************)
EXTENDS Integers, Sequences, SequencesExt, FiniteSetsExt, Functions

NoId == <<0, 0>>
Sorted(names) ==
    [i \in 1 .. Cardinality(names) |-> CHOOSE n \in names : Cardinality({m \in names : m < n}) = i - 1]

(* The directories a requirement of the package at path is looked up in,   *)
(* its own first, and the nearest of them that has the name (0: none).     *)
Chain(path) == [i \in 1 .. Len(path) + 1 |-> SubSeq(path, 1, Len(path) + 1 - i)]
Taken(occupied, path, name) == {i \in DOMAIN Chain(path) : Append(Chain(path)[i], name) \in DOMAIN occupied}
Nearest(occupied, path, name) ==
    LET taken == Taken(occupied, path, name)
    IN  IF taken = {} THEN 0 ELSE occupied[Append(Chain(path)[Min(taken)], name)]

(* Mutant: the outermost directory below the blocking one is claimed.      *)
PlaceOutermost(occupied, name, version, dependent) ==
    LET chain == Chain(dependent)
        taken == Taken(occupied, dependent, name)
    IN  IF taken = {} THEN <<name>>
        ELSE IF occupied[Append(chain[Min(taken)], name)] = version THEN Append(chain[Min(taken)], name)
        ELSE Append(chain[IF Min(taken) = 1 THEN 1 ELSE Min(taken) - 1], name)

(* Placer::place: the nearest occupant is shared if it is the version      *)
(* wanted and blocks the way up if it is not; then the dependent's own     *)
(* directory is claimed, otherwise the root's.                             *)
Place(occupied, name, version, dependent) ==
    LET chain == Chain(dependent)
        taken == Taken(occupied, dependent, name)
    IN  IF taken = {} THEN <<name>>
        ELSE IF occupied[Append(chain[Min(taken)], name)] = version THEN Append(chain[Min(taken)], name)
        ELSE Append(dependent, name)

(* The entry an edge leads to: by the name required, else by its id.       *)
Lookup(entries, name, id) ==
    IF <<name, id[2]>> \in DOMAIN entries THEN <<name, id[2]>>
    ELSE IF id \in DOMAIN entries THEN id ELSE NoId

Kind(prod, optionalOnly) == [prod |-> prod, optionalOnly |-> optionalOnly, anyOptional |-> optionalOnly]
Merge(old, new) == [prod |-> old.prod \/ new.prod,
                    optionalOnly |-> old.optionalOnly /\ new.optionalOnly,
                    anyOptional |-> old.anyOptional \/ new.anyOptional]

(* What a package asks for next, from where it is. *)
EdgesFrom(entries, id, path, kind) ==
    LET e == entries[id]
        found == {n \in DOMAIN e.deps : Lookup(entries, n, e.deps[n]) # NoId}
        names == Sorted(found)
    IN  [i \in DOMAIN names |->
           LET optional == names[i] \in e.optional IN
           [id |-> Lookup(entries, names[i], e.deps[names[i]]), from |-> path,
            kind |-> [prod |-> kind.prod, optionalOnly |-> kind.optionalOnly /\ optional, anyOptional |-> optional]]]

(* One turn of the importers' loop: a requirement met again only merges    *)
(* how its package is reached.  A directory package (file) is a link with  *)
(* its own name, placed elsewhere; its edges start there.                  *)
Turn(entries, walk) ==
    LET next == Head(walk.queue)
        rest == Tail(walk.queue)
        e == entries[next.id]
        seen == <<next.id, next.from>> \in walk.visited
        path == Place(walk.occupied, next.id[1], next.id[2], next.from)
        kind == IF next.id \in DOMAIN walk.reach THEN Merge(walk.reach[next.id], next.kind) ELSE next.kind
        visited == walk.visited \cup {<<next.id, next.from>>}
    IN  IF seen /\ e.file THEN [walk EXCEPT !.queue = rest]
        ELSE IF seen THEN [walk EXCEPT !.queue = rest, !.reach = (next.id :> kind) @@ @]
        ELSE IF e.file
        THEN [walk EXCEPT !.queue = rest \o EdgesFrom(entries, next.id, <<next.id[1]>>, next.kind), !.visited = visited]
        ELSE [queue |-> rest \o EdgesFrom(entries, next.id, path, next.kind),
              occupied |-> (path :> next.id[2]) @@ walk.occupied,
              visited |-> visited, reach |-> (next.id :> kind) @@ walk.reach,
              placed |-> walk.placed \cup {[id |-> next.id, path |-> path]}]

(* The loop, cut after fuel turns: packages whose versions conflict around *)
(* a cycle are nested without end.                                         *)
RECURSIVE Walk(_, _, _)
Walk(entries, walk, fuel) ==
    IF walk.queue = <<>> \/ fuel = 0 THEN walk ELSE Walk(entries, Turn(entries, walk), fuel - 1)

Start(seeds) == [queue |-> seeds, occupied |-> <<>>, visited |-> {}, reach |-> <<>>, placed |-> {}]
-----------------------------------------------------------------------------
(* import_yarn_v1: the root's declarations in name order.  A declaration   *)
(* is [id, group]; dependencies go before devDependencies before optional. *)
YarnSeeds(entries, declared) ==
    LET names == Sorted({n \in DOMAIN declared : Lookup(entries, n, declared[n].id) # NoId})
    IN  [i \in DOMAIN names |->
           [id |-> Lookup(entries, names[i], declared[names[i]].id), from |-> <<>>,
            kind |-> Kind(declared[names[i]].group # "dev", declared[names[i]].group = "optional")]]
ImportYarn(entries, declared, fuel) == Walk(entries, Start(YarnSeeds(entries, declared)), fuel)

(* pnpm: a snapshot is a package with its peers' versions; the snapshots   *)
(* of one id are merged, the first to name a dependency deciding.          *)
MergeSnapshots(packages, snapshots) ==
    LET Add(entries, s) ==
            IF s.id \notin DOMAIN entries THEN entries
            ELSE [entries EXCEPT ![s.id] =
                    [@ EXCEPT !.deps = @ @@ s.deps
                                         @@ Restrict(s.peers, {n \in DOMAIN s.peers : s.peers[n] \in DOMAIN entries}),
                              !.optional = @ \cup s.optional]]
        blank == [id \in packages |-> [deps |-> <<>>, optional |-> {}, file |-> FALSE]]
    IN  FoldLeft(Add, blank, snapshots)

(* An edge whose name is not its package's gets an entry of that name, for *)
(* the artifact alone.                                                     *)
ExpandAliases(entries) ==
    LET edges == UNION {{<<n, entries[id].deps[n]>> : n \in DOMAIN entries[id].deps} : id \in DOMAIN entries}
        renamed == {e \in edges : <<e[1], e[2][2]>> \notin DOMAIN entries /\ e[2] \in DOMAIN entries}
    IN  [id \in {<<e[1], e[2][2]>> : e \in renamed} |-> [deps |-> <<>>, optional |-> {}, file |-> FALSE]] @@ entries

(* The root's aliases: here the edges come along (push_alias_entry).       *)
ExpandImporterAliases(entries, importers) ==
    LET Declared(i) == {<<n, importers[i].deps[n].id>> : n \in DOMAIN importers[i].deps}
        all == UNION {Declared(i) : i \in DOMAIN importers}
        renamed == {e \in all : <<e[1], e[2][2]>> \notin DOMAIN entries /\ e[2] \in DOMAIN entries}
    IN  [id \in {<<e[1], e[2][2]>> : e \in renamed} |->
           entries[(CHOOSE e \in renamed : <<e[1], e[2][2]>> = id)[2]]] @@ entries

(* Seeds: importers in order, the root first; an importer other than the   *)
(* root is seeded below its link, and not at all if nothing links it.  An  *)
(* entry is seeded once.                                                   *)
PnpmSeeds(entries, importers) ==
    LET Groups(i) == [g \in 1 .. 3 |-> Sorted({n \in DOMAIN importers[i].deps :
                         importers[i].deps[n].group = <<"prod", "dev", "optional">>[g]})]
        Wanted(i) == Groups(i)[1] \o Groups(i)[2] \o Groups(i)[3]
        Seed(i, seeds, n) ==
            LET id == Lookup(entries, n, importers[i].deps[n].id)
                group == importers[i].deps[n].group
            IN  IF id = NoId \/ (\E k \in DOMAIN seeds : seeds[k].id = id) THEN seeds
                ELSE Append(seeds, [id |-> id, from |-> importers[i].at,
                       kind |-> [prod |-> group # "dev" \/ importers[i].at # <<>>,
                                 optionalOnly |-> group = "optional" /\ importers[i].at = <<>>,
                                 anyOptional |-> group = "optional"]])
    IN  FoldLeftDomain(LAMBDA seeds, i :
                         IF ~importers[i].linked THEN seeds
                         ELSE FoldLeft(LAMBDA s, n : Seed(i, s, n), seeds, Wanted(i)),
                       <<>>, importers)
PnpmEntries(doc) == ExpandImporterAliases(ExpandAliases(MergeSnapshots(doc.packages, doc.snapshots)), doc.importers)
ImportPnpm(doc, fuel) ==
    Walk(PnpmEntries(doc), Start(PnpmSeeds(PnpmEntries(doc), doc.importers)), fuel)
-----------------------------------------------------------------------------
(* "Every edge therefore resolves to its exact version by construction":   *)
(* from where a package is placed, Node's lookup of each name it requires  *)
(* ends at the version the lock gives that edge, whatever was placed       *)
(* before or since, and each package is where its version is recorded.     *)
EveryEdgeExact(entries, walk) ==
    walk.queue = <<>> =>
        \A p \in walk.placed :
            /\ walk.occupied[p.path] = p.id[2]
            /\ \A n \in DOMAIN entries[p.id].deps :
                 LET id == Lookup(entries, n, entries[p.id].deps[n])
                 IN  id # NoId /\ ~entries[id].file => Nearest(walk.occupied, p.path, id[1]) = id[2]

RECURSIVE Reached(_, _)
Reached(entries, ids) ==
    LET more == UNION {{Lookup(entries, n, entries[id].deps[n]) : n \in DOMAIN entries[id].deps} \ {NoId} : id \in ids}
    IN  IF more \subseteq ids THEN ids ELSE Reached(entries, ids \cup more)

(* Claim: "kinds finalize after the walk so a dev-first discovery later    *)
(* reached from prod is not mislabeled".                                   *)
NotMislabeled(entries, declared, walk) ==
    walk.queue = <<>> =>
        LET prod == {Lookup(entries, n, declared[n].id) : n \in {m \in DOMAIN declared : declared[m].group # "dev"}} \ {NoId}
        IN  \A id \in Reached(entries, prod) : id \in DOMAIN walk.reach => walk.reach[id].prod

(* Claim: "a package referenced ONLY through the alias still places its    *)
(* own dependencies": whatever name a package is required by, its edges    *)
(* are placed.                                                             *)
AliasesKeepEdges(doc, walk) ==
    LET entries == PnpmEntries(doc)
        merged == MergeSnapshots(doc.packages, doc.snapshots)
    IN  walk.queue = <<>> =>
          \A p \in walk.placed : \A n \in DOMAIN entries[p.id].deps :
            LET id == entries[p.id].deps[n] IN
            id \in DOMAIN merged =>
              \A m \in DOMAIN merged[id].deps :
                merged[id].deps[m] \in DOMAIN merged => \E q \in walk.placed : q.id = <<m, merged[id].deps[m][2]>>
=============================================================================
