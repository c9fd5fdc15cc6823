----------------------------- MODULE MCScripts -----------------------------
(***************************************************************************)
(* Installs with scripts, in four scenarios.  In  "scripts" two passes run *)
(* over four packages: one with two scripts, one not placed on this        *)
(* platform, one without scripts of its own whose repository is prepared,  *)
(* and one that was not fetched.  In the others two scripted installs      *)
(* build the volume of one graph: beside a collector ("collected") that    *)
(* may be killed inside a removal ("killed"), and without one ("ends").    *)
(***************************************************************************)
EXTENDS Lifecycle

VARIABLES scenario, vol, aged, glock, mainpc, hpc, reuse, stale, leased, ref, view, gpc, gcs
volumeVars == <<vol, aged, glock, mainpc, hpc, reuse, stale, leased, ref, view, gpc, gcs>>
allVars == <<vars, volumeVars, scenario>>

Package(placed, scripts, prepare) == [fetched |-> TRUE, placed |-> placed, scripts |-> scripts, prepare |-> prepare]
ThePackages ==
    <<Package(TRUE, <<"preinstall", "install">>, <<>>), Package(FALSE, <<"install">>, <<>>),
      Package(TRUE, <<>>, <<"prepare">>), [Package(TRUE, <<"install">>, <<>>) EXCEPT !.fetched = FALSE]>>
Job(mode, volume, cached, env) == [mode |-> mode, volume |-> volume, derived |-> cached, env |-> env]
JobList ==
    <<Job("ignore", TRUE, TRUE, "any"), Job("run", TRUE, TRUE, "any"), Job("run", TRUE, TRUE, "production"),
      Job("run", TRUE, FALSE, "any"), Job("run", FALSE, TRUE, "any"), Job("skip", TRUE, FALSE, "any"),
      Job("prepare", FALSE, TRUE, "any")>>
TheJobs == {JobList[k] : k \in DOMAIN JobList}
(* The two passes are alike: each unordered pair of jobs is looked at once, *)
(* the second environment beside the first only, and an image that was lost *)
(* with two passes of one kind.                                             *)
PairedJobs ==
    \E k, l \in DOMAIN JobList :
        /\ k <= l /\ (3 \in {k, l} => 2 \in {k, l})
        /\ k = l \/ \A p \in DOMAIN Packages : image[p].present
        /\ job = [i \in Passes |-> JobList[IF i = "p" THEN k ELSE l]]
(* In a behaviour something fails or somebody is killed, not both: what     *)
(* both together do is covered by the proofs about Lifecycle.               *)
MaxTroubles == 1
Troubled == faults' + crashes' <= MaxTroubles

TwoInstalls == {"i1", "i2"}
FirstInstall == {"i1"}
K == INSTANCE GraphVolume WITH
        Installs <- TwoInstalls, Scripted <- TwoInstalls, Relay <- FirstInstall, MaxGc <- 1, GraceZero <- FALSE,
        GcMayDie <- TRUE, pc <- mainpc
C == INSTANCE GraphVolume WITH
        Installs <- TwoInstalls, Scripted <- TwoInstalls, Relay <- FirstInstall, MaxGc <- 2, GraceZero <- FALSE,
        GcMayDie <- FALSE, pc <- mainpc
E == INSTANCE GraphVolume WITH
        Installs <- TwoInstalls, Scripted <- TwoInstalls, Relay <- FirstInstall, MaxGc <- 0, GraceZero <- FALSE,
        GcMayDie <- FALSE, pc <- mainpc

ScenarioInit ==
    /\ scenario \in {"scripts", "killed", "collected", "ends"}
    /\ Init /\ K!Init
    /\ IF scenario = "scripts" THEN PairedJobs /\ vol = K!Absent /\ ~aged
       ELSE job = [i \in Passes |-> JobList[1]] /\ \A p \in DOMAIN Packages : image[p].present
ScenarioNext ==
    /\ UNCHANGED scenario
    /\ \/ scenario = "scripts" /\ Next /\ Troubled /\ UNCHANGED volumeVars
       \/ scenario = "killed" /\ K!Next /\ UNCHANGED vars
       \/ scenario = "collected" /\ C!Next /\ UNCHANGED vars
       \/ scenario = "ends" /\ E!Next /\ UNCHANGED vars
InScripts(A) == scenario = "scripts" /\ A /\ UNCHANGED <<volumeVars, scenario>>
InEnds(A) == scenario = "ends" /\ A /\ UNCHANGED <<vars, scenario>>
ScenarioSpec ==
    /\ ScenarioInit /\ [][ScenarioNext]_allVars
    /\ \A i \in Passes : WF_allVars(InScripts(Step(i))) /\ SF_allVars(InScripts(Lock(i)))
    /\ WF_allVars(InScripts(\E key \in Keys : Removal(key)))
    /\ \A i \in TwoInstalls : SF_allVars(InEnds(E!MainStep(i))) /\ SF_allVars(InEnds(E!HelperStep(i)))
-----------------------------------------------------------------------------
(* A scripted install never ends on a view of a volume that was published  *)
(* without scripts.  "Any install that will (re)build the volume reads     *)
(* store images directly and takes the full object lease": unless a        *)
(* collector was killed inside a removal, whoever publishes what it built  *)
(* did not settle for the lease on the graph alone.                        *)
ScriptedInstallsSound == K!ScriptsRan /\ (scenario # "killed" => C!PublishersHoldFullLease)

(* Every pass over the scripts ends: no lock on a derived image is kept by *)
(* one that failed or was killed.  Without a collector every install ends: *)
(* no thread waits for ever for the graph lock or for the other thread of  *)
(* its own process.                                                        *)
ScriptsEnd ==
    <>(/\ scenario = "scripts" => \A i \in Passes : pc[i] \in {"done", "failed"}
       /\ scenario = "ends" => \A i \in TwoInstalls : mainpc[i] \in {"done", "error"})
=============================================================================
