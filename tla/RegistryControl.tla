--------------------------- MODULE RegistryControl ---------------------------
(***************************************************************************)
(* The commands that change a registry (src/cli/dist_tag.rs, owner.rs,     *)
(* token.rs, publish.rs, whoami.rs over src/registry/mod.rs), run by       *)
(* maintainers over a network that loses requests and answers and delays   *)
(* requests past the timeout.                                              *)
(*                                                                         *)
(* One package, plain or of a scope with a registry of its own, has one    *)
(* tag that is followed.  A maintainer runs a program of commands.         *)
(***************************************************************************)
EXTENDS Naturals, Sequences, FiniteSets

CONSTANTS Maintainers,    \* each runs its own program
          Programs,       \* the programs a maintainer may run
          Retries         \* fetch-retries

VARIABLES server,    \* per registry: the tag, the owners, the versions, the tokens
          program,   \* maintainer -> its commands
          cmd,       \* maintainer -> the command it is at, its attempt and outcomes
          late,      \* requests the client gave up on that may still arrive
          minted     \* maintainer -> command -> how often the server carried it out
controlVars == <<server, program, cmd, late, minted>>

Session == "session"
Reads == {"whoami", "tagLs", "ownerLs", "tokenLs"}
Writes == {"tagAdd", "tagRm", "ownerAdd", "ownerRm", "tokenCreate", "tokenRevoke", "publish"}
Command == [kind : Reads \cup Writes, arg : Nat, scoped : BOOLEAN]

ASSUME ControlAssumption == Programs \subseteq Seq(Command) /\ Retries \in Nat

(* set_dist_tag, add_owner and the others write to the default registry;   *)
(* dist_tags asks the registry of the package's scope.                     *)
WriteRegistry == "main"

(* Mutant: listings come from the scope's registry whatever the name. *)
ReadRegistryOwn(command) == "own"

ReadRegistry(command) ==
    IF command.kind = "tagLs" /\ command.scoped THEN "own" ELSE WriteRegistry

RegistryOf(command) == IF command.kind \in Reads THEN ReadRegistry(command) ELSE WriteRegistry

(* What a command checks before it goes to the network: a configuration    *)
(* that loads, has_auth_for_url for what changes the registry, the name of *)
(* the package, the secrets a token or a publish needs.                    *)
TagNeeds(kind) == {"config", "name"} \cup IF kind = "tagLs" THEN {} ELSE {"auth"}
OwnerNeeds(kind) == {"config", "name"} \cup IF kind = "ownerLs" THEN {} ELSE {"auth"}
RequiredPassword == {"password"}    \* set and not empty, or typed in
OptionalOtp == {"otp"}              \* may be absent, not empty or padded
TokenNeeds(kind) ==
    {"config", "auth"} \cup CASE kind = "tokenLs" -> {}
                              [] kind = "tokenCreate" -> RequiredPassword \cup OptionalOtp
                              [] kind = "tokenRevoke" -> OptionalOtp
PublishNeeds == {"config", "name", "files"} \cup OptionalOtp
WhoamiNeeds == {"config", "auth"}
Needs(kind) ==
    CASE kind \in {"tagLs", "tagAdd", "tagRm"} -> TagNeeds(kind)
      [] kind \in {"ownerLs", "ownerAdd", "ownerRm"} -> OwnerNeeds(kind)
      [] kind \in {"tokenLs", "tokenCreate", "tokenRevoke"} -> TokenNeeds(kind)
      [] kind = "publish" -> PublishNeeds
      [] kind = "whoami" -> WhoamiNeeds
Requisites == {"config", "name", "auth", "password", "otp", "files", "nothing"}

(* Mutant: every request is repeated. *)
TriesAll(command) == Retries + 1

(* post_json_with_headers_once for a token, the retry policy for the rest. *)
Tries(command) == IF command.kind = "tokenCreate" THEN 1 ELSE Retries + 1

(* What a server does with a request: its new state and "ok" or "refused". *)
Ok(reg) == [state |-> reg, status |-> "ok"]
No(reg) == [state |-> reg, status |-> "refused"]
Whoami(reg) == Ok(reg)
SetDistTag(reg, version) == Ok([reg EXCEPT !.tag = version])
DeleteDistTag(reg) == IF reg.tag = 0 THEN No(reg) ELSE Ok([reg EXCEPT !.tag = 0])
AddOwner(reg, user) == Ok([reg EXCEPT !.owners = @ \cup {user}])
RemoveOwner(reg, user) == IF user \in reg.owners THEN Ok([reg EXCEPT !.owners = @ \ {user}]) ELSE No(reg)
CreateToken(reg, by) == Ok([reg EXCEPT !.tokens = @ \cup {by}])
RevokeToken(reg) == Ok([reg EXCEPT !.tokens = @ \ {Session}])
PublishVersion(reg, version) ==
    IF version \in reg.versions THEN No(reg)
    ELSE Ok([reg EXCEPT !.versions = @ \cup {version}, !.tag = version])
Handle(reg, command, by) ==
    IF command.kind \in {"tagLs", "ownerLs"} THEN Ok(reg) ELSE
    IF Session \notin reg.tokens THEN No(reg) ELSE
    CASE command.kind \in {"whoami", "tokenLs"} -> Whoami(reg)
      [] command.kind = "tagAdd" -> SetDistTag(reg, command.arg)
      [] command.kind = "tagRm" -> DeleteDistTag(reg)
      [] command.kind = "ownerAdd" -> AddOwner(reg, command.arg)
      [] command.kind = "ownerRm" -> RemoveOwner(reg, command.arg)
      [] command.kind = "tokenCreate" -> CreateToken(reg, by)
      [] command.kind = "tokenRevoke" -> RevokeToken(reg)
      [] command.kind = "publish" -> PublishVersion(reg, command.arg)

NewServer == [r \in {"main", "own"} |-> [tag |-> 0, owners |-> {}, versions |-> {}, tokens |-> {Session}]]
ControlInit ==
    /\ server = NewServer
    /\ program \in [Maintainers -> Programs]
    /\ cmd = [m \in Maintainers |-> [at |-> 1, pc |-> "start", attempt |-> 1, outs |-> <<>>, shown |-> 0]]
    /\ late = {}
    /\ minted = [m \in Maintainers |-> [i \in DOMAIN program[m] |-> 0]]

Current(m) == program[m][cmd[m].at]
Running(m) == cmd[m].at <= Len(program[m])
Ended(c, out) == [c EXCEPT !.at = @ + 1, !.pc = "start", !.attempt = 1, !.outs = Append(@, out)]

(* run: the configuration, the name and the secrets are there or the       *)
(* command fails before the network.                                       *)
Start(m) ==
    /\ Running(m) /\ cmd[m].pc = "start"
    /\ \E lacking \in Requisites :
         cmd' = [cmd EXCEPT ![m] = IF lacking \in Needs(Current(m).kind) THEN Ended(@, "local")
                                   ELSE [@ EXCEPT !.pc = "send"]]
    /\ UNCHANGED <<server, program, late, minted>>

(* Mutant: a mutation that was sent counts as done. *)
SettleHopeful(c, command, answer) ==
    IF answer \in {"ok", "refused"} THEN Ended(c, answer)
    ELSE IF c.attempt < Tries(command) THEN [c EXCEPT !.attempt = @ + 1]
    ELSE Ended(c, "ok")

(* Mutant: what is lost is tried again without counting. *)
SettleRetrying(c, command, answer) ==
    IF answer \in {"ok", "refused"} THEN Ended(c, answer)
    ELSE IF Tries(command) > 1 THEN c
    ELSE Ended(c, "lost")

(* request_json: an answer ends the call; a lost or busy one is tried      *)
(* again while attempts are left.                                          *)
Settle(c, command, answer) ==
    IF answer \in {"ok", "refused"} THEN Ended(c, answer)
    ELSE IF c.attempt < Tries(command) THEN [c EXCEPT !.attempt = @ + 1]
    ELSE Ended(c, "lost")

(* The server carries a request out.                                       *)
Carry(m, i) ==
    LET command == program[m][i]
        r == RegistryOf(command)
        done == Handle(server[r], command, m)
    IN  /\ server' = [server EXCEPT ![r] = done.state]
        /\ minted' = [minted EXCEPT ![m][i] = @ + IF done.status = "ok" THEN 1 ELSE 0]

Sending(m) == Running(m) /\ cmd[m].pc = "send"

Answered(m) ==
    LET command == Current(m)
        reg == server[RegistryOf(command)]
        settled == Settle(cmd[m], command, Handle(reg, command, m).status)
    IN  /\ Sending(m)
        /\ Carry(m, cmd[m].at)
        /\ cmd' = [cmd EXCEPT ![m] = IF command.kind = "tagLs" THEN [settled EXCEPT !.shown = reg.tag] ELSE settled]
        /\ UNCHANGED <<program, late>>

AnswerLost(m) ==
    /\ Sending(m)
    /\ Carry(m, cmd[m].at)
    /\ cmd' = [cmd EXCEPT ![m] = Settle(@, Current(m), "lost")]
    /\ UNCHANGED <<program, late>>

(* The request is lost, or the server is too busy to carry it out.         *)
RequestLost(m) ==
    /\ Sending(m)
    /\ cmd' = [cmd EXCEPT ![m] = Settle(@, Current(m), "lost")]
    /\ UNCHANGED <<server, program, late, minted>>

(* The client times out while the request is still on its way.             *)
Delayed(m) ==
    /\ Sending(m)
    /\ late' = late \cup {<<m, cmd[m].at>>}
    /\ cmd' = [cmd EXCEPT ![m] = Settle(@, Current(m), "lost")]
    /\ UNCHANGED <<server, program, minted>>

Arrive(x) ==
    /\ x \in late
    /\ Carry(x[1], x[2])
    /\ late' = late \ {x}
    /\ UNCHANGED <<program, cmd>>

ControlNext ==
    \/ \E m \in Maintainers : Start(m) \/ Answered(m) \/ AnswerLost(m) \/ RequestLost(m) \/ Delayed(m)
    \/ \E x \in late : Arrive(x)

(* What a maintainer does next.  It is fair: a client waits for an answer  *)
(* no longer than its timeout.                                             *)
Turn(m) == Start(m) \/ Answered(m) \/ AnswerLost(m) \/ RequestLost(m) \/ Delayed(m)

ControlSpec == ControlInit /\ [][ControlNext]_controlVars
-----------------------------------------------------------------------------
Out(m, i) == IF i \in DOMAIN cmd[m].outs THEN cmd[m].outs[i] ELSE "running"
Kind(m, i) == program[m][i].kind

(* A command that reports success was carried out by the registry, at      *)
(* least once whatever was lost on the way; one that failed before the     *)
(* network never was and never will be.                                    *)
SuccessTookEffect ==
    \A m \in Maintainers : \A i \in DOMAIN program[m] :
        /\ Out(m, i) = "ok" => minted[m][i] >= 1
        /\ Out(m, i) = "local" => minted[m][i] = 0 /\ <<m, i>> \notin late

(* create_token: a token is minted at most once for a command, also when   *)
(* its answer is lost, and a refusal means there is none.                  *)
MintedOnce ==
    \A m \in Maintainers : \A i \in DOMAIN program[m] :
        Kind(m, i) = "tokenCreate" =>
            /\ minted[m][i] <= 1
            /\ Out(m, i) = "refused" => minted[m][i] = 0 /\ <<m, i>> \notin late

(* dist-tag ls after one's own dist-tag add shows the version that was     *)
(* set, also when the request was repeated or comes late, if the package   *)
(* is not of a scope and nobody else writes the tag.                       *)
ReadsOwnWrites ==
    \A m \in Maintainers :
        /\ Len(cmd[m].outs) = 2 /\ cmd[m].outs = <<"ok", "ok">>
        /\ Kind(m, 1) = "tagAdd" /\ Kind(m, 2) = "tagLs" /\ ~program[m][2].scoped
        /\ \A n \in Maintainers \ {m} : \A i \in DOMAIN program[n] : Kind(n, i) \notin {"tagAdd", "tagRm", "publish"}
        => cmd[m].shown = program[m][1].arg

(* A command that reports success was carried out by the registry, and one *)
(* that failed before the network never was; a token is minted at most     *)
(* once for a command, also when its answer is lost; dist-tag ls after     *)
(* one's own dist-tag add shows the version that was set, if the package   *)
(* is not of a scope and nobody else writes the tag.                       *)
CommandsSound == SuccessTookEffect /\ MintedOnce /\ ReadsOwnWrites

(* "already exists on the registry": a publish that is refused published   *)
(* nothing.                                                                *)
RefusedMeansUnchanged ==
    \A m \in Maintainers : \A i \in DOMAIN program[m] :
        Kind(m, i) = "publish" /\ Out(m, i) = "refused" => minted[m][i] = 0

(* The same of names with a scope.                                         *)
ScopedReadsOwnWrites ==
    \A m \in Maintainers :
        /\ Len(cmd[m].outs) = 2 /\ cmd[m].outs = <<"ok", "ok">>
        /\ Kind(m, 1) = "tagAdd" /\ Kind(m, 2) = "tagLs"
        /\ \A n \in Maintainers \ {m} : \A i \in DOMAIN program[n] : Kind(n, i) \notin {"tagAdd", "tagRm", "publish"}
        => cmd[m].shown = program[m][1].arg
=============================================================================
