------------------------- MODULE ProjectRegistration -------------------------
(***************************************************************************)
(* Ownership of a graph by a project: the durable registration file and    *)
(* the row of project_graph_refs that InstallSession::finalize_project     *)
(* writes one after the other, and repair_index, which rebuilds the rows   *)
(* from the files after store.db was deleted.  Both carry milliseconds.    *)
(***************************************************************************)
EXTENDS Naturals

CONSTANTS
    Roots, GraphIds, NoRecord,
    MaxRegs,    \* bound: installs
    MaxLosses,  \* bound: deletions of store.db
    SameMs      \* two stamps may fall into one millisecond

ProjectRefs == [graph : GraphIds, at : Nat]
RegistrationFiles == [graph : GraphIds, at : Nat, root : Roots]

ASSUME RegistrationAssumption == NoRecord \notin ProjectRefs \cup RegistrationFiles

VARIABLES stamped, tmp, file, refs, rpc, want, attached, begun, losses
registrationVars == <<stamped, tmp, file, refs, rpc, want, attached, begun, losses>>

RegistrationInit ==
    /\ stamped = 0 /\ tmp = {} /\ losses = 0
    /\ file = [p \in Roots |-> NoRecord] /\ refs = [p \in Roots |-> NoRecord]
    /\ rpc = [p \in Roots |-> "idle"] /\ want = [p \in Roots |-> NoRecord]
    /\ attached = [p \in Roots |-> NoRecord] /\ begun = 0

Names(record, g) == record # NoRecord /\ record.graph = g

(* Mutant: the registration file is not looked at. *)
CurrentByRef(p, g) == Names(refs[p], g)

(* cached_graph_protection_current; the file's root is not compared.       *)
Current(p, g) == Names(refs[p], g) /\ Names(file[p], g)

(* An install has attached g; finalize_project. *)
Finalize(p, g) ==
    /\ rpc[p] \in {"idle", "done", "failed"} /\ begun < MaxRegs
    /\ attached' = [attached EXCEPT ![p] = g]
    /\ begun' = begun + 1
    /\ want' = [want EXCEPT ![p] = [graph |-> g, at |-> 0]]
    /\ rpc' = [rpc EXCEPT ![p] = IF Current(p, g) THEN "done" ELSE "write"]
    /\ UNCHANGED <<stamped, tmp, file, refs, losses>>

(* Timestamp::now(): only the order of the stamps matters.                 *)
Stamp(p) ==
    /\ stamped' \in (IF SameMs THEN {stamped} ELSE {}) \cup {stamped + 1}
    /\ want' = [want EXCEPT ![p].at = stamped']

(* write_registration_file: the temporary file is named by graph and time, *)
WriteTemporary(p) ==
    /\ rpc[p] = "write"
    /\ Stamp(p)
    /\ tmp' = {t \in tmp : t.graph # want[p].graph \/ t.at # stamped'}
              \cup {[graph |-> want[p].graph, at |-> stamped', root |-> p]}
    /\ rpc' = [rpc EXCEPT ![p] = "rename"]
    /\ UNCHANGED <<file, refs, attached, begun, losses>>

(* ... and renamed to the project's key, unless another install took it.   *)
RenameTemporary(p) ==
    /\ rpc[p] = "rename"
    /\ LET mine == {t \in tmp : t.graph = want[p].graph /\ t.at = want[p].at} IN
       /\ tmp' = tmp \ mine
       /\ \/ mine = {} /\ rpc' = [rpc EXCEPT ![p] = "failed"] /\ UNCHANGED file
          \/ \E t \in mine : file' = [file EXCEPT ![p] = t] /\ rpc' = [rpc EXCEPT ![p] = "stamp"]
    /\ UNCHANGED <<stamped, refs, want, attached, begun, losses>>

(* replace_project_graph_ref is called with the time before it, ... *)
StampRef(p) ==
    /\ rpc[p] = "stamp"
    /\ Stamp(p)
    /\ rpc' = [rpc EXCEPT ![p] = "commit"]
    /\ UNCHANGED <<tmp, file, refs, attached, begun, losses>>

(* ... and only a strictly later observation replaces the graph.           *)
UpsertProjectRef(p, record) ==
    IF refs[p] = NoRecord \/ record.at > refs[p].at THEN [graph |-> record.graph, at |-> record.at] ELSE refs[p]

CommitRef(p) ==
    /\ rpc[p] = "commit"
    /\ refs' = [refs EXCEPT ![p] = UpsertProjectRef(p, want[p])]
    /\ rpc' = [rpc EXCEPT ![p] = "done"]
    /\ UNCHANGED <<stamped, tmp, file, want, attached, begun, losses>>

(* A lost lease, an error or the death of the process between the writes.  *)
(* A temporary file that stays behind has a name of the past.              *)
Fail(p) ==
    /\ rpc[p] \in {"write", "rename", "stamp", "commit"}
    /\ rpc' = [rpc EXCEPT ![p] = "failed"]
    /\ tmp' = {t \in tmp : t.graph # want[p].graph \/ t.at # want[p].at}
    /\ UNCHANGED <<stamped, file, refs, want, attached, begun, losses>>

(* store.db may be deleted: it is rebuilt, also by the next collection.    *)
LoseIndex ==
    /\ losses < MaxLosses
    /\ losses' = losses + 1
    /\ refs' = [p \in Roots |-> NoRecord]
    /\ UNCHANGED <<stamped, tmp, file, rpc, want, attached, begun>>

(* scan_registration_files trusts a file whose root hashes to its name.    *)
Trusted(p) == file[p] # NoRecord /\ file[p].root = p

RepairRefs ==
    /\ refs' = [p \in Roots |-> IF Trusted(p) THEN UpsertProjectRef(p, file[p]) ELSE refs[p]]
    /\ UNCHANGED <<stamped, tmp, file, rpc, want, attached, begun, losses>>

RegistrationNext ==
    \/ \E p \in Roots : WriteTemporary(p) \/ RenameTemporary(p) \/ StampRef(p) \/ CommitRef(p) \/ Fail(p)
    \/ \E p \in Roots, g \in GraphIds : Finalize(p, g)
    \/ LoseIndex \/ RepairRefs
-----------------------------------------------------------------------------
(* finalize_project: after a successful install the project's graph is the *)
(* one the collector spares, also when the index is lost and rebuilt.      *)
OwnerSurvives ==
    \A p \in Roots : rpc[p] = "done" =>
        /\ Trusted(p) /\ file[p].graph = attached[p]
        /\ refs[p] # NoRecord => refs[p].graph = attached[p]
=============================================================================
