----------------------------- MODULE StoreIndex -----------------------------
(***************************************************************************)
(* src/metadata/repository.rs and src/metadata/install.rs: the SQLite      *)
(* index of the global store, the leases and project references in it,     *)
(* and the collector that deletes what they do not protect, while installs *)
(* publish, lease, record and register.                                    *)
(*                                                                         *)
(* The file system and the index are two stores: a step changes one of     *)
(* them, or is one transaction of the index.  Object locks are taken as in *)
(* AtomicLocks (StoreLocks shows that this is what acquire_all gives).     *)
(* SQLite serialises write transactions; the schema's foreign keys make a  *)
(* transaction fail, and failing rolls it back, but never the unlink that  *)
(* the collector performs inside it.                                       *)
(*                                                                         *)
(* An install is one sequence of steps here: until its lease is joined,    *)
(* the thread that builds the volume changes only its staging tree, and    *)
(* while the graph is recorded it only reads.  GraphVolume has the threads.*)
(*                                                                         *)
(* Time is two-valued: before or after the grace cutoff.  An install or a  *)
(* collection is short against the grace period, so objects age only       *)
(* between them.                                                           *)
(***************************************************************************)
EXTENDS Naturals

CONSTANTS
    Arts,         \* artifact ids; each artifact has an extracted image
    Derived,      \* derived image ids
    Graphs,       \* graph ids
    Projects,     \* project roots
    Installs,     \* install processes
    Collectors,   \* collector processes
    NoGraph, NoOne,
    GraphArts,    \* GraphArts[g]: artifacts in the inventory of g's volume
    GraphDerived, \* GraphDerived[g]: derived images in it
    ProjectOf, GraphOf,  \* what each install installs, and where
    Copied,       \* projects copied with their plan; the store never saw them
    MaxGc,        \* bound: collections per collector
    GraceZero,    \* collections run with no grace period (bpm cache clean)
    PartialSelection, \* a size cap, or the cutoff, may select any subset
    GcMayDie      \* a collector may be killed between unlink and commit

Artifact(a) == <<"artifact", a>>
Image(a) == <<"image", a>>
DerivedKey(d) == <<"derived", d>>
Graph(g) == <<"graph", g>>

ArtifactKeys == {Artifact(a) : a \in Arts}
ImageKeys == {Image(a) : a \in Arts}
DerivedKeys == {DerivedKey(d) : d \in Derived}
GraphKeys == {Graph(g) : g \in Graphs}
Objs == ArtifactKeys \cup ImageKeys \cup DerivedKeys \cup GraphKeys

(* The inventory of a graph volume (build_graph_inventory), ... *)
Inventory(g) ==
    {Artifact(a) : a \in GraphArts[g]} \cup {DerivedKey(d) : d \in GraphDerived[g]}

(* Mutant: ids are leased without their kind. *)
ExtendKeysById(g) == {g} \cup GraphDerived[g]

(* ... and the keys that lease_objects and record_graph lease for it. *)
LeaseKeys(g) == Inventory(g) \cup {Image(a) : a \in GraphArts[g]}
ExtendKeys(g) == {Graph(g)} \cup {DerivedKey(d) : d \in GraphDerived[g]}

Actors == Installs \cup Collectors

ASSUME ConfigAssumption ==
    /\ GraphArts \in [Graphs -> SUBSET Arts]
    /\ GraphDerived \in [Graphs -> SUBSET Derived]
    /\ ProjectOf \in [Installs -> Projects]
    /\ GraphOf \in [Installs -> Graphs]
    /\ Copied \subseteq Projects
    /\ NoGraph \notin Graphs
    /\ NoOne \notin Actors
    /\ Installs \cap Collectors = {}
    /\ MaxGc \in Nat
    /\ GraceZero \in BOOLEAN /\ PartialSelection \in BOOLEAN /\ GcMayDie \in BOOLEAN

VARIABLES
    (* file system *)
    fs,         \* objects at their canonical path in the store
    fresh,      \* the ones whose modification time is after the cutoff
    reg,        \* reg[p]: the graph in p's durable registration file
    lock,       \* lock[o]: who has o's lock file
    (* index *)
    rows,       \* objects that have a row
    complete,   \* graphs whose row says complete=1
    edges,      \* edges[g]: rows of graph_artifacts and graph_derived
    ref,        \* ref[p]: project_graph_refs
    lease,      \* rows <<i, o>> of leases
    expired,    \* installs whose lease rows have passed their expiry
    logged,     \* objects with a row in access_log
    young,      \* objects whose effective access time is after the cutoff
    (* installs *)
    pc, mode,
    keys,       \* keys[i]: what i has fetched, then the keys it is leasing
    guard,      \* guard[i]: LeaseGuard::keys
    installed,  \* installed[p]: the graph p's last successful install attached
    (* collectors *)
    cpc,
    obs,        \* obs[c]: objects observed by the scan
    staleRows,  \* staleRows[c]: rows found without a published object
    queue,      \* queue[c]: selected objects not yet treated
    runs        \* runs[c]: collections begun

fsVars == <<fs, fresh, reg, lock>>
dbVars == <<rows, complete, edges, ref, lease, expired, logged, young>>
installVars == <<pc, mode, keys, guard, installed>>
gcVars == <<cpc, obs, staleRows, queue, runs>>
vars == <<fsVars, dbVars, installVars, gcVars>>

Ended == {"done", "failed", "crashed"}

TypeOK ==
    /\ fs \in SUBSET Objs /\ fresh \in SUBSET Objs
    /\ reg \in [Projects -> Graphs \cup {NoGraph}]
    /\ lock \in [Objs -> Actors \cup {NoOne}]
    /\ rows \in SUBSET Objs
    /\ complete \in SUBSET Graphs
    /\ edges \in [Graphs -> SUBSET Objs]
    /\ ref \in [Projects -> Graphs \cup {NoGraph}]
    /\ lease \in SUBSET (Installs \X Objs)
    /\ expired \in SUBSET Installs
    /\ logged \in SUBSET Objs /\ young \in SUBSET Objs
    /\ pc \in [Installs -> Ended \cup
                 {"start", "fetch", "check", "batch", "lock", "verify", "insert", "publish",
                  "record", "gtx", "register", "setref", "clear"}]
    /\ mode \in [Installs -> {"build", "reuse", "refresh"}]
    /\ keys \in [Installs -> SUBSET Objs]
    /\ guard \in [Installs -> SUBSET Objs]
    /\ installed \in [Projects -> Graphs \cup {NoGraph}]
    /\ cpc \in [Collectors -> {"idle", "images", "graphs", "stale", "repair", "select",
                               "next", "delete"}]
    /\ obs \in [Collectors -> SUBSET Objs]
    /\ staleRows \in [Collectors -> SUBSET Objs]
    /\ queue \in [Collectors -> SUBSET Objs]
    /\ runs \in [Collectors -> 0 .. MaxGc]

(* A store from which projects were installed long ago: `past` is the      *)
(* graph each of them is attached to, `leftover` are graphs of earlier     *)
(* installs that nobody references any more.                               *)
InitWith(past, leftover) ==
    LET gs == leftover \cup ({past[p] : p \in Projects} \ {NoGraph})
        objs == UNION {LeaseKeys(g) \cup {Graph(g)} : g \in gs}
    IN  /\ fs = objs /\ rows = objs /\ logged = objs
        /\ reg = past /\ ref = past /\ installed = past
        /\ lock = [o \in Objs |-> NoOne]
        /\ complete = gs
        /\ edges = [g \in Graphs |-> IF g \in gs THEN Inventory(g) ELSE {}]
        /\ fresh = {} /\ lease = {} /\ expired = {} /\ young = {}
        /\ pc = [i \in Installs |-> "start"] /\ mode = [i \in Installs |-> "build"]
        /\ keys = [i \in Installs |-> {}] /\ guard = [i \in Installs |-> {}]
        /\ cpc = [c \in Collectors |-> "idle"]
        /\ obs = [c \in Collectors |-> {}] /\ staleRows = [c \in Collectors |-> {}]
        /\ queue = [c \in Collectors |-> {}] /\ runs = [c \in Collectors |-> 0]

Init ==
    \E past \in [Projects -> Graphs \cup {NoGraph}], leftover \in SUBSET Graphs :
        (\A p \in Copied : past[p] = NoGraph) /\ InitWith(past, leftover)

-----------------------------------------------------------------------------
(* is_published: an image counts only beside its artifact. *)
Published == {o \in fs : \A a \in Arts : o = Image(a) => Artifact(a) \in fs}

Goto(i, l) == pc' = [pc EXCEPT ![i] = l]
Unlocked(x) == [o \in Objs |-> IF lock[o] = x THEN NoOne ELSE lock[o]]
WithoutLease(i) == {r \in lease : r[1] # i}

(* upsert_access, in the transaction that writes the rows. *)
Touch(S) == logged' = logged \cup S /\ young' = young \cup S

(* A file appears at its canonical path: it is judged by its modification  *)
(* time only where neither access_log nor a row has an older one.          *)
Appear(S) ==
    /\ fs' = fs \cup S
    /\ fresh' = fresh \cup S
    /\ young' = young \cup (S \ (logged \cup rows))

(* cached_graph_protection_current. *)
ProtectionCurrent(i) ==
    LET g == GraphOf[i] p == ProjectOf[i]
    IN  g \in complete /\ ref[p] = g /\ reg[p] = g

(* An error drops the session, and with it lease rows and locks. *)
Leave(i, l) ==
    /\ Goto(i, l)
    /\ lock' = Unlocked(i)
    /\ lease' = WithoutLease(i)
    /\ guard' = [guard EXCEPT ![i] = {}]
    /\ keys' = [keys EXCEPT ![i] = {}]
    /\ mode' = [mode EXCEPT ![i] = "build"]

(* Where an error leads: a failed refresh of a cached plan falls back to a *)
(* full install, after removing the volume if an object was missing.       *)
Missing(i) == Leave(i, IF mode[i] = "refresh" THEN "clear" ELSE "failed")
Refused(i) == Leave(i, IF mode[i] = "refresh" THEN "fetch" ELSE "failed")

(* The install succeeds. *)
Succeed(i) ==
    /\ Leave(i, "done")
    /\ installed' = [installed EXCEPT ![ProjectOf[i]] = GraphOf[i]]

-----------------------------------------------------------------------------
(* run_install with a valid plan: refresh_cached_graph. *)
Refresh(i) ==
    LET g == GraphOf[i] p == ProjectOf[i] IN
    /\ pc[i] = "start"
    /\ installed[p] = g \/ p \in Copied
    /\ Graph(g) \in fs
    /\ \/ /\ ProtectionCurrent(i)
          /\ Succeed(i)
       \/ /\ ~ProtectionCurrent(i)
          /\ Goto(i, "check")
          /\ mode' = [mode EXCEPT ![i] = "refresh"]
          /\ keys' = [keys EXCEPT ![i] = LeaseKeys(g)]
          /\ UNCHANGED <<lock, lease, guard, installed>>
    /\ UNCHANGED <<fs, fresh, reg, rows, complete, edges, ref, expired, logged, young, gcVars>>

(* The recovery of a refresh that missed an object: remove_dir_all on the  *)
(* volume, without its lock.                                               *)
Clear(i) ==
    /\ pc[i] = "clear"
    /\ fs' = fs \ {Graph(GraphOf[i])}
    /\ installed' = [installed EXCEPT ![ProjectOf[i]] = NoGraph]
    /\ Goto(i, "fetch")
    /\ UNCHANGED <<fresh, reg, lock, dbVars, mode, keys, guard, gcVars>>

(* run_install without a valid plan. *)
Resolve(i) ==
    /\ pc[i] = "start"
    /\ Goto(i, "fetch")
    /\ UNCHANGED <<fsVars, dbVars, mode, keys, guard, installed, gcVars>>

(* ensure_artifact, ensure_image, DerivedStore::ensure.  An image needs    *)
(* its archive; an artifact of unknown digest is published without lock.   *)
Fetch(i, o) ==
    /\ pc[i] = "fetch"
    /\ o \in LeaseKeys(GraphOf[i]) \ keys[i]
    /\ o \in ArtifactKeys \/ lock[o] = NoOne
    /\ \A a \in Arts : o = Image(a) => o \in fs \/ Artifact(a) \in fs
    /\ keys' = [keys EXCEPT ![i] = @ \cup {o}]
    /\ IF o \in fs THEN UNCHANGED <<fs, fresh, young>> ELSE Appear({o})
    /\ UNCHANGED <<reg, lock, rows, complete, edges, ref, lease, expired, logged,
                   pc, mode, guard, installed, gcVars>>

(* finalize_install: a volume that can be reused is leased alone, without  *)
(* recording anything first.                                               *)
Open(i) ==
    LET g == GraphOf[i] IN
    /\ pc[i] = "fetch"
    /\ keys[i] = LeaseKeys(g)
    /\ IF Graph(g) \in fs
       THEN /\ mode' = [mode EXCEPT ![i] = "reuse"]
            /\ keys' = [keys EXCEPT ![i] = {Graph(g)}]
            /\ Goto(i, "lock")
       ELSE /\ Goto(i, "check")
            /\ UNCHANGED <<mode, keys>>
    /\ UNCHANGED <<fsVars, dbVars, guard, installed, gcVars>>

(* lease_objects, record_published_objects_batch: every key must be        *)
(* published ...                                                           *)
Check(i) ==
    /\ pc[i] = "check"
    /\ IF keys[i] \subseteq Published
       THEN Goto(i, "batch") /\ UNCHANGED <<lock, lease, guard, keys, mode>>
       ELSE Missing(i)
    /\ UNCHANGED <<fs, fresh, reg, rows, complete, edges, ref, expired, logged, young,
                   installed, gcVars>>

(* ... then one transaction records them and their access. *)
Batch(i) ==
    /\ pc[i] = "batch"
    /\ rows' = rows \cup keys[i]
    /\ Touch(keys[i])
    /\ Goto(i, "lock")
    /\ UNCHANGED <<fsVars, complete, edges, ref, lease, expired, mode, keys, guard,
                   installed, gcVars>>

(* acquire_lease and LeaseGuard::extend: take the locks of all keys, ...   *)
AcquireLocks(i) ==
    /\ pc[i] = "lock"
    /\ \A o \in keys[i] : lock[o] = NoOne
    /\ lock' = [o \in Objs |-> IF o \in keys[i] THEN i ELSE lock[o]]
    /\ Goto(i, "verify")
    /\ UNCHANGED <<fs, fresh, reg, dbVars, mode, keys, guard, installed, gcVars>>

(* Mutant: publication is not checked under the locks. *)
VerifySkipped(i) ==
    /\ pc[i] = "verify"
    /\ Goto(i, "insert")
    /\ UNCHANGED <<fsVars, dbVars, mode, keys, guard, installed, gcVars>>

(* ... check that all are published, ... *)
Verify(i) ==
    /\ pc[i] = "verify"
    /\ IF keys[i] \subseteq Published
       THEN Goto(i, "insert") /\ UNCHANGED <<lock, lease, guard, keys, mode>>
       ELSE Missing(i)
    /\ UNCHANGED <<fs, fresh, reg, rows, complete, edges, ref, expired, logged, young,
                   installed, gcVars>>

(* ... insert the rows, and release the locks. *)
Insert(i) ==
    /\ pc[i] = "insert"
    /\ lease' = lease \cup ({i} \X keys[i])
    /\ guard' = [guard EXCEPT ![i] = @ \cup keys[i]]
    /\ lock' = Unlocked(i)
    /\ Goto(i, IF guard[i] # {} THEN "register"
               ELSE IF mode[i] = "refresh" THEN "record" ELSE "publish")
    /\ UNCHANGED <<fs, fresh, reg, rows, complete, edges, ref, expired, logged, young,
                   mode, keys, installed, gcVars>>

(* The volume: ready, or published from the images under the graph's lock, *)
(* or an error on the way.  From here on the project's view is replaced.   *)
Publish(i) ==
    LET g == GraphOf[i] IN
    /\ pc[i] = "publish"
    /\ \/ /\ IF Graph(g) \in fs
             THEN UNCHANGED <<fs, fresh, young>>
             ELSE /\ lock[Graph(g)] = NoOne
                  /\ LeaseKeys(g) \ ArtifactKeys \subseteq fs
                  /\ Appear({Graph(g)})
          /\ Goto(i, "record")
          /\ installed' = [installed EXCEPT ![ProjectOf[i]] = NoGraph]
          /\ UNCHANGED <<lock, lease, guard, keys, mode>>
       \/ /\ Refused(i)
          /\ UNCHANGED <<fs, fresh, young, installed>>
    /\ UNCHANGED <<reg, rows, complete, edges, ref, expired, logged, gcVars>>

(* After the graph's rows: LeaseGuard::extend to what is not covered yet. *)
Extend(i) ==
    LET new == ExtendKeys(GraphOf[i]) \ guard[i] IN
    /\ keys' = [keys EXCEPT ![i] = new]
    /\ Goto(i, IF new = {} THEN "register" ELSE "lock")

(* record_graph_with_inventory_and_size: nothing to do for a complete row; *)
(* else the graph and all of its inventory must be published ...           *)
Record(i) ==
    LET g == GraphOf[i] IN
    /\ pc[i] = "record"
    /\ \/ /\ Graph(g) \notin fs \/ (g \notin complete /\ ~(Inventory(g) \subseteq fs))
          /\ Missing(i)
       \/ /\ Graph(g) \in fs /\ g \in complete
          /\ Extend(i)
          /\ UNCHANGED <<lock, lease, guard, mode>>
       \/ /\ Graph(g) \in fs /\ g \notin complete /\ Inventory(g) \subseteq fs
          /\ Goto(i, "gtx")
          /\ UNCHANGED <<lock, lease, guard, keys, mode>>
    /\ UNCHANGED <<fs, fresh, reg, rows, complete, edges, ref, expired, logged, young,
                   installed, gcVars>>

(* ... and record_graph_publication writes row, edges and access.  An edge *)
(* to an object without a row breaks a foreign key.                        *)
RecordTx(i) ==
    LET g == GraphOf[i] IN
    /\ pc[i] = "gtx"
    /\ \/ /\ Inventory(g) \subseteq rows
          /\ rows' = rows \cup {Graph(g)}
          /\ complete' = complete \cup {g}
          /\ edges' = [edges EXCEPT ![g] = Inventory(g)]
          /\ Touch({Graph(g)})
          /\ Extend(i)
          /\ UNCHANGED <<lock, lease, guard, mode>>
       \/ /\ ~(Inventory(g) \subseteq rows)
          /\ Refused(i)
          /\ UNCHANGED <<rows, complete, edges, logged, young>>
    /\ UNCHANGED <<fs, fresh, reg, ref, expired, installed, gcVars>>

(* finalize_project: nothing to do if the protection is already recorded;  *)
(* else the registration file ...                                          *)
Register(i) ==
    /\ pc[i] = "register"
    /\ IF ProtectionCurrent(i)
       THEN Succeed(i) /\ UNCHANGED reg
       ELSE /\ reg' = [reg EXCEPT ![ProjectOf[i]] = GraphOf[i]]
            /\ Goto(i, "setref")
            /\ UNCHANGED <<lock, lease, guard, keys, mode, installed>>
    /\ UNCHANGED <<fs, fresh, rows, complete, edges, ref, expired, logged, young, gcVars>>

(* ... and then replace_project_graph_ref. *)
SetRef(i) ==
    LET g == GraphOf[i] IN
    /\ pc[i] = "setref"
    /\ \/ /\ Graph(g) \in fs \cap rows
          /\ ref' = [ref EXCEPT ![ProjectOf[i]] = g]
          /\ Succeed(i)
       \/ /\ Graph(g) \notin fs
          /\ Missing(i)
          /\ UNCHANGED <<ref, installed>>
       \/ /\ Graph(g) \in fs \ rows
          /\ Refused(i)
          /\ UNCHANGED <<ref, installed>>
    /\ UNCHANGED <<fs, fresh, reg, rows, complete, edges, expired, logged, young, gcVars>>

(* The process dies: the operating system drops its locks; its lease rows  *)
(* stay until they expire.                                                 *)
Crash(i) ==
    /\ pc[i] \notin Ended \cup {"start"}
    /\ Goto(i, "crashed")
    /\ lock' = Unlocked(i)
    /\ guard' = [guard EXCEPT ![i] = {}]
    /\ UNCHANGED <<fs, fresh, reg, dbVars, mode, keys, installed, gcVars>>

Expire(i) ==
    /\ pc[i] = "crashed"
    /\ i \notin expired
    /\ expired' = expired \cup {i}
    /\ UNCHANGED <<fsVars, rows, complete, edges, ref, lease, logged, young,
                   installVars, gcVars>>

-----------------------------------------------------------------------------
(* repair_index.  scan_namespaces walks one namespace after the other. *)
ScanArtifacts(c) ==
    /\ cpc[c] = "idle"
    /\ runs[c] < MaxGc
    /\ runs' = [runs EXCEPT ![c] = @ + 1]
    /\ obs' = [obs EXCEPT ![c] = fs \cap ArtifactKeys]
    /\ cpc' = [cpc EXCEPT ![c] = "images"]
    /\ UNCHANGED <<fsVars, dbVars, installVars, staleRows, queue>>

ScanImages(c) ==
    /\ cpc[c] = "images"
    /\ obs' = [obs EXCEPT ![c] = @ \cup (Published \cap (ImageKeys \cup DerivedKeys))]
    /\ cpc' = [cpc EXCEPT ![c] = "graphs"]
    /\ UNCHANGED <<fsVars, dbVars, installVars, staleRows, queue, runs>>

ScanGraphs(c) ==
    /\ cpc[c] = "graphs"
    /\ obs' = [obs EXCEPT ![c] = @ \cup (fs \cap GraphKeys)]
    /\ cpc' = [cpc EXCEPT ![c] = "stale"]
    /\ UNCHANGED <<fsVars, dbVars, installVars, staleRows, queue, runs>>

(* stale_rows, before the write transaction. *)
FindStale(c) ==
    /\ cpc[c] = "stale"
    /\ staleRows' = [staleRows EXCEPT ![c] = rows \ Published]
    /\ cpc' = [cpc EXCEPT ![c] = "repair"]
    /\ UNCHANGED <<fsVars, dbVars, installVars, obs, queue, runs>>

(* What the transaction makes of the index: observed objects get rows,     *)
(* observed graphs their edges and completeness from the inventory, ...    *)
RepairedRows(c) ==
    (rows \cup obs[c]) \ (staleRows[c] \cup {Image(a) : a \in {b \in Arts : Artifact(b) \in staleRows[c]}})
Whole(c, g) == Inventory(g) \subseteq obs[c]
ObservedEdges(c) ==
    [g \in Graphs |-> IF Graph(g) \notin obs[c] THEN edges[g]
                      ELSE IF Whole(c, g) THEN Inventory(g) ELSE {}]
RepairedEdges(c) ==
    [g \in Graphs |-> IF Graph(g) \in staleRows[c] THEN {} ELSE ObservedEdges(c)[g]]
RepairedComplete(c) ==
    {g \in Graphs : /\ Graph(g) \notin staleRows[c]
                    /\ IF Graph(g) \in obs[c] THEN Whole(c, g) ELSE g \in complete}

(* ... stale rows go with their references, access and leases, and the     *)
(* registrations of observed graphs become references again.               *)
Registered(c, p) == reg[p] # NoGraph /\ Graph(reg[p]) \in obs[c]
RepairedRef(c) ==
    [p \in Projects |->
        IF Registered(c, p) THEN reg[p]
        ELSE IF ref[p] # NoGraph /\ Graph(ref[p]) \in staleRows[c] THEN NoGraph
        ELSE ref[p]]

(* The foreign keys: an image needs its artifact's row, an edge forbids    *)
(* deleting its object, a reference needs its graph's row.                 *)
RepairBreaksKey(c) ==
    \/ \E a \in Arts : Image(a) \in obs[c] /\ Artifact(a) \notin rows \cup obs[c]
    \/ \E g \in Graphs : RepairedEdges(c)[g] \cap staleRows[c] # {}
    \/ \E p \in Projects : Registered(c, p) /\ Graph(reg[p]) \in staleRows[c]

RepairTx(c) ==
    /\ cpc[c] = "repair"
    /\ \/ /\ RepairBreaksKey(c)
          /\ cpc' = [cpc EXCEPT ![c] = "idle"]
          /\ UNCHANGED dbVars
       \/ /\ ~RepairBreaksKey(c)
          /\ rows' = RepairedRows(c)
          /\ edges' = RepairedEdges(c)
          /\ complete' = RepairedComplete(c)
          /\ ref' = RepairedRef(c)
          /\ lease' = {r \in lease : r[2] \notin staleRows[c]}
          /\ logged' = logged \ staleRows[c]
          /\ young' = young \cup (staleRows[c] \cap fresh)
          /\ cpc' = [cpc EXCEPT ![c] = "select"]
          /\ UNCHANGED expired
    /\ UNCHANGED <<fsVars, installVars, obs, staleRows, queue, runs>>

-----------------------------------------------------------------------------
(* protection_active, and the same CASE in collect's candidate query. *)
Leased(o) == \E i \in Installs \ expired : <<i, o>> \in lease
Referenced(g) == \E p \in Projects : ref[p] = g
Incomplete(g) == Graph(g) \in rows /\ g \notin complete
NeededBy(g) == edges[g] \cup {Image(a) : a \in {b \in Arts : Artifact(b) \in edges[g]}}

(* Mutant: what a referenced graph was built from is not protected. *)
ProtectedShallow(o) ==
    \/ Leased(o)
    \/ \E g \in Graphs : o = Graph(g) /\ (Referenced(g) \/ Incomplete(g))
    \/ o \notin GraphKeys /\ \E g \in Graphs : Incomplete(g)

(* Mutant: a project's reference does not protect the graph itself. *)
ProtectedUnreferenced(o) ==
    \/ Leased(o)
    \/ \E g \in Graphs : o = Graph(g) /\ Incomplete(g)
    \/ \E g \in complete : Referenced(g) /\ o \in NeededBy(g)
    \/ o \notin GraphKeys /\ \E g \in Graphs : Incomplete(g)

Protected(o) ==
    \/ Leased(o)
    \/ \E g \in Graphs : o = Graph(g) /\ (Referenced(g) \/ Incomplete(g))
    \/ \E g \in complete : Referenced(g) /\ o \in NeededBy(g)
    \/ o \notin GraphKeys /\ \E g \in Graphs : Incomplete(g)

(* The candidate query and GcPolicy::evaluate. *)
Select(c) ==
    LET eligible == {o \in rows : ~Protected(o) /\ (o \notin young \/ GraceZero)} IN
    /\ cpc[c] = "select"
    /\ \E S \in SUBSET eligible :
          /\ S = eligible \/ PartialSelection
          /\ queue' = [queue EXCEPT ![c] = S]
    /\ cpc' = [cpc EXCEPT ![c] = "next"]
    /\ UNCHANGED <<fsVars, dbVars, installVars, obs, staleRows, runs>>

(* deletion_rank: graphs, derived images, images, artifacts. *)
Rank(o) ==
    CASE o \in GraphKeys -> 1 [] o \in DerivedKeys -> 2
      [] o \in ImageKeys -> 3 [] OTHER -> 4

(* The loop of collect takes the object's lock. *)
LockNext(c) ==
    /\ cpc[c] = "next"
    /\ \/ /\ queue[c] = {}
          /\ cpc' = [cpc EXCEPT ![c] = "idle"]
          /\ UNCHANGED lock
       \/ \E o \in queue[c] :
             /\ \A x \in queue[c] : Rank(o) <= Rank(x)
             /\ lock[o] = NoOne
             /\ lock' = [lock EXCEPT ![o] = c]
             /\ cpc' = [cpc EXCEPT ![c] = "delete"]
    /\ UNCHANGED <<fs, fresh, reg, dbVars, installVars, obs, staleRows, queue, runs>>

(* DELETE of o's row: ON DELETE CASCADE takes a graph's edges and an       *)
(* artifact's image row; ON DELETE RESTRICT keeps what an edge names.      *)
RowRestricted(o) == \E g \in Graphs : o \in edges[g]
DeleteRow(o) ==
    /\ rows' = rows \ ({o} \cup {Image(a) : a \in {b \in Arts : o = Artifact(b)}})
    /\ edges' = [g \in Graphs |-> IF o = Graph(g) THEN {} ELSE edges[g]]
    /\ complete' = {g \in complete : o # Graph(g)}

(* Under the lock: preserve what is gone or protected, else unlink and     *)
(* delete the row.  A restricted row makes collect return an error after   *)
(* the unlink; so does being killed between the two.                       *)
Delete(c) ==
    \E o \in queue[c] :
        /\ cpc[c] = "delete"
        /\ lock[o] = c
        /\ lock' = Unlocked(c)
        /\ \/ /\ o \notin Published \/ Protected(o)
              /\ queue' = [queue EXCEPT ![c] = @ \ {o}]
              /\ cpc' = [cpc EXCEPT ![c] = "next"]
              /\ UNCHANGED <<fs, rows, edges, complete>>
           \/ /\ o \in Published /\ ~Protected(o) /\ ~RowRestricted(o)
              /\ fs' = fs \ {o}
              /\ DeleteRow(o)
              /\ queue' = [queue EXCEPT ![c] = @ \ {o}]
              /\ cpc' = [cpc EXCEPT ![c] = "next"]
           \/ /\ o \in Published /\ ~Protected(o)
              /\ RowRestricted(o) \/ GcMayDie
              /\ fs' = fs \ {o}
              /\ queue' = [queue EXCEPT ![c] = {}]
              /\ cpc' = [cpc EXCEPT ![c] = "idle"]
              /\ UNCHANGED <<rows, edges, complete>>
        /\ UNCHANGED <<fresh, reg, ref, lease, expired, logged, young, installVars,
                       obs, staleRows, runs>>

-----------------------------------------------------------------------------
(* The grace period goes by. *)
Age ==
    /\ young # {} \/ fresh # {}
    /\ \A i \in Installs : pc[i] \in Ended \cup {"start"}
    /\ \A i \in Installs : pc[i] = "crashed" => i \in expired
    /\ \A c \in Collectors : cpc[c] = "idle"
    /\ young' = {} /\ fresh' = {}
    /\ UNCHANGED <<fs, reg, lock, rows, complete, edges, ref, lease, expired, logged,
                   installVars, gcVars>>

InstallStep(i) ==
    \/ Refresh(i) \/ Clear(i) \/ Resolve(i) \/ Open(i) \/ Check(i) \/ Batch(i)
    \/ AcquireLocks(i) \/ Verify(i) \/ Insert(i) \/ Publish(i) \/ Record(i)
    \/ RecordTx(i) \/ Register(i) \/ SetRef(i) \/ Crash(i) \/ Expire(i)
    \/ \E o \in Objs : Fetch(i, o)

CollectorStep(c) ==
    \/ ScanArtifacts(c) \/ ScanImages(c) \/ ScanGraphs(c) \/ FindStale(c) \/ RepairTx(c)
    \/ Select(c) \/ LockNext(c) \/ Delete(c)

Next ==
    \/ \E i \in Installs : InstallStep(i)
    \/ \E c \in Collectors : CollectorStep(c)
    \/ Age

Spec == Init /\ [][Next]_vars

-----------------------------------------------------------------------------
(* "...so a concurrent `bpm gc` cannot reclaim them mid-install": whatever *)
(* an unexpired lease row names, other than a graph, is in the store, even *)
(* if its owner died, and whatever repairs and other installs do.          *)
LeasedInputsPresent ==
    \A r \in lease : r[1] \notin expired /\ r[2] \notin GraphKeys => r[2] \in fs

(* "no install ever succeeds with an unprotected graph": the graph that a  *)
(* project was successfully installed from stays in the store until a      *)
(* later install of that project replaces its view.                        *)
InstalledGraphPresent ==
    \A p \in Projects : installed[p] # NoGraph => Graph(installed[p]) \in fs

(* "GC protection rules keep a project-referenced complete graph, and      *)
(* every artifact/image/derived object its inventory records, alive        *)
(* regardless of access age".                                              *)
InstalledInputsKept ==
    [][\A p \in Projects :
          installed[p] # NoGraph /\ installed'[p] = installed[p]
          => LeaseKeys(installed[p]) \cap fs \subseteq fs']_vars

(* "freshly extracted store objects are categorically protected by GC's    *)
(* default 30-day grace period".                                           *)
FreshObjectsKept ==
    [][(fresh \cap fs) \ GraphKeys \subseteq fs']_vars
=============================================================================
