----------------------------- MODULE MCMetadata -----------------------------
(***************************************************************************)
(* What installs keep on one machine, each in a world of its own: the      *)
(* schema of the index, a lease on a clock, the ownership of projects, a   *)
(* tree that is materialized, sources cached from git, and the bins of     *)
(* packages that are installed globally.                                   *)
(***************************************************************************)
EXTENDS IndexSchema, LeaseHeartbeat, ProjectRegistration, Materializer, SourceCache

CONSTANTS ga, gb, gc
VARIABLES binDir, images, gat, gnext, glinked, gdeaths, glosses

CONSTANT Worlds
VARIABLE world
globalVars == <<binDir, images, gat, gnext, glinked, gdeaths, glosses>>
machineVars == <<schemaVars, leaseVars, registrationVars, materializerVars, sourceVars, globalVars, world>>

Undamaged == {<<0, {}>>, <<1, V1>>, <<2, V1 \cup V2>>, <<3, V1 \cup V2>>}
FoundDatabases == Undamaged \cup {<<2, (V1 \cup V2) \ {o}>> : o \in V1 \cup V2} \cup {<<1, {}>>}
AskedOptions == {<<3, 1>>, <<6, 2>>, <<5, 2>>, <<15, 5>>, <<10, 5>>, <<24, 6>>, <<4, 0>>}

Under(path, name) == path \o <<"node_modules", name>>
PkgA == Package(Under(<<>>, "a"), {"x"}, {})
PkgAB == Package(Under(Under(<<>>, "a"), "b"), {}, {<<"x">>, <<"@s", "y">>})
PkgABC == Package(Under(Under(Under(<<>>, "a"), "b"), "c"), {}, {})
PkgS == Package(<<"node_modules", "@s", "d">>, {"y"}, {})
PkgSE == Package(<<"node_modules", "@s", "d", "node_modules", "e">>, {"z", "x"}, {})
Member == Package(<<"node_modules", "w">>, {}, {<<"w">>, <<"z">>})
ScopedMember == Package(<<"node_modules", "@s", "w">>, {}, {<<"@s", "w">>})
Trees == {<<PkgA, PkgAB, PkgABC>>, <<PkgS, PkgSE, PkgA, PkgAB>>, <<PkgA, PkgAB, PkgS, PkgSE>>, <<PkgS>>}
PlainLayouts == [packages : Trees, links : {<<>>, <<Member>>}]
ScopedLayouts == [packages : Trees, links : {<<ScopedMember>>}]

(* Two packages share a bin; one has a bin whose file is missing, and one  *)
(* declares a bin that leaves its directory.                               *)
GlobalBin(name, valid, exists) == [name |-> name, valid |-> valid, exists |-> exists]
GlobalBins ==
    (ga :> <<GlobalBin("x", TRUE, TRUE), GlobalBin("y", TRUE, TRUE)>>)
    @@ (gb :> <<GlobalBin("y", TRUE, TRUE), GlobalBin("z", TRUE, FALSE)>>) @@ (gc :> <<GlobalBin("z", FALSE, TRUE)>>)
I == INSTANCE GlobalInstall WITH
        Globals <- {ga, gb, gc}, Declared <- GlobalBins, BinNames <- {"x", "y", "z"},
        MaxGlobalDeaths <- 1, MaxImageLosses <- 1

MachineInit ==
    /\ SchemaInit /\ LeaseInit /\ RegistrationInit /\ MaterializerInit /\ SourceInit /\ I!GlobalInit
    /\ world \in Worlds
    /\ world = "schema" \/ (version = 2 /\ objects = V1 \cup V2)
    /\ world = "lease" \/ options = <<6, 2>>
    /\ world = "materialize" \/ (Work = <<PkgS>> /\ layout.links = <<>> /\ strategy = "serial")
    /\ \/ world = "sources"
       \/ /\ remote = "hosted" /\ \A k \in Caches : cached[k]["a"] = Missing
          /\ \A r \in Resolvers : reference[r] = "a"
    /\ world = "global" \/ \A n \in DOMAIN binDir : binDir[n] = I!Nothing

ResolverWorks(r) ==
    /\ world = "sources" /\ ResolverStep(r)
    /\ UNCHANGED <<schemaVars, leaseVars, registrationVars, materializerVars, globalVars, world>>

MachineNext ==
    /\ UNCHANGED world
    /\ \/ world = "schema" /\ SchemaNext /\ UNCHANGED <<leaseVars, registrationVars, materializerVars, sourceVars, globalVars>>
       \/ world = "lease" /\ LeaseNext /\ UNCHANGED <<schemaVars, registrationVars, materializerVars, sourceVars, globalVars>>
       \/ world = "register" /\ RegistrationNext /\ UNCHANGED <<schemaVars, leaseVars, materializerVars, sourceVars, globalVars>>
       \/ world = "materialize" /\ MaterializerNext /\ UNCHANGED <<schemaVars, leaseVars, registrationVars, sourceVars, globalVars>>
       \/ world = "sources" /\ SourceNext /\ UNCHANGED <<schemaVars, leaseVars, registrationVars, materializerVars, globalVars>>
       \/ world = "global" /\ I!GlobalNext /\ UNCHANGED <<schemaVars, leaseVars, registrationVars, materializerVars, sourceVars>>
MachineSpec == MachineInit /\ [][MachineNext]_machineVars /\ \A r \in Resolvers : WF_machineVars(ResolverWorks(r))
-----------------------------------------------------------------------------
(* A connection that opened the index works on the whole schema; a lease   *)
(* survives one renewal that fails, and one that is lost is noticed within *)
(* a renewal period and the waits for the index; after an install its      *)
(* graph is the one the collector spares, also when the index is lost and  *)
(* rebuilt.                                                                *)
IndexSound == OpenedSchemaWhole /\ OneMissTolerated /\ LossNoticed /\ OwnerSurvives

(* Threads that materialize a tree never undo each other's work, and bins  *)
(* are those of the first declarant whatever the threads did; a bin that a *)
(* global install reported as linked stays, linked to a package that       *)
(* declares it, but while it is replaced.                                  *)
TreesAndBinsSound == TreeComplete /\ BinsFirstDeclared /\ I!LinkedBinsStay

(* resolve_git_source returns a readable archive and a tree with a         *)
(* manifest, whatever a killed process left; only a killed process leaves  *)
(* scratch behind, and no two build one result at a time.                  *)
SourcesSound == SourceWhole /\ ScratchPrivate
=============================================================================
