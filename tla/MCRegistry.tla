----------------------------- MODULE MCRegistry -----------------------------
(***************************************************************************)
(* A registry from two sides, each a part of its own: in "client" threads  *)
(* share a client that reads packages which depend on each other in a      *)
(* cycle; in "control" two maintainers run commands that change it.        *)
(***************************************************************************)
EXTENDS RegistryClient, RegistryControl

CONSTANTS m1, m2
VARIABLE part
allVars == <<vars, controlVars, part>>

CyclicDeps == [k \in Keys |-> Keys \ {k, 1}]

Run(kind, arg, scoped) == [kind |-> kind, arg |-> arg, scoped |-> scoped]
Tagging(scoped) == <<Run("tagAdd", 1, scoped), Run("tagLs", 1, scoped)>>
Owning == <<Run("ownerAdd", 1, FALSE), Run("ownerRm", 2, FALSE)>>
Minting == <<Run("tagRm", 1, FALSE), Run("tokenCreate", 2, FALSE)>>
Revoking == <<Run("tokenRevoke", 1, FALSE), Run("whoami", 2, FALSE)>>
Publishing == <<Run("publish", 1, FALSE), Run("tokenLs", 2, FALSE)>>
Pairs == {<<Tagging(FALSE), Owning>>, <<Tagging(FALSE), Revoking>>, <<Tagging(FALSE), Tagging(TRUE)>>,
          <<Minting, Revoking>>, <<Publishing, Publishing>>}
ThePrograms == {p[1] : p \in Pairs} \cup {p[2] : p \in Pairs}
TheMaintainers == {m1, m2}

RegistryInit ==
    /\ part \in {"client", "control"}
    /\ Init /\ ControlInit
    /\ IF part = "client" THEN program = [m \in Maintainers |-> Owning]
       ELSE /\ <<program[m1], program[m2]>> \in Pairs
            /\ mode = "Default" /\ \A k \in Keys : store[k] = None
RegistryNext ==
    /\ UNCHANGED part
    /\ \/ part = "client" /\ Next /\ UNCHANGED controlVars
       \/ part = "control" /\ ControlNext /\ UNCHANGED vars

InClient(A) == part = "client" /\ A /\ UNCHANGED <<controlVars, part>>
InControl(A) == part = "control" /\ A /\ UNCHANGED <<vars, part>>
(* The fairness of the two modules, each in its part.                      *)
RegistryFairness ==
    /\ \A t \in Threads : WF_allVars(InClient(Step(t)))
    /\ \A d \in Clients : WF_allVars(InClient(Lookup(d) \/ Return(d)))
    /\ \A w \in Workers : WF_allVars(InClient(Receive(w) \/ Lookahead(w)))
    /\ WF_allVars(InClient(BatchPrefetch \/ BatchAwait \/ BatchCollect)) /\ WF_allVars(InClient(DropPool))
    /\ \A m \in Maintainers : WF_allVars(InControl(Turn(m)))
RegistrySpec == RegistryInit /\ [][RegistryNext]_allVars /\ RegistryFairness
-----------------------------------------------------------------------------
(* Every call of packument returns, the batch ends, and dropping the       *)
(* client ends every worker: nobody sleeps through the last notify_all.    *)
(* Every command that changes a registry ends.                             *)
RegistryEnds ==
    /\ \A c \in Callers : (pc[c] = "lookup") ~> (pc[c] = "returned")
    /\ <>(part = "client" => pc[Batch] = "done")
    /\ (~sender) ~> (\A w \in Workers : pc[w] = "ended")
    /\ <>(part = "control" => \A m \in Maintainers : ~Running(m))
=============================================================================
