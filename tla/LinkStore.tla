------------------------------ MODULE LinkStore ------------------------------
(***************************************************************************)
(* The registry of developer links (link_store.rs, and the commands of     *)
(* cli/link.rs that register and unregister): one symbolic link per        *)
(* package name, the links of a scope in a directory of their own.         *)
(* Nothing serialises the commands, and replacing a link is a removal      *)
(* followed by a creation.                                                 *)
(***************************************************************************)
EXTENDS Naturals, FiniteSets

CONSTANTS
    LinkNames,      \* the names packages are registered under
    Scope(_),       \* the scope directory of a name, NoScope for an unscoped one
    NoScope,
    Targets,        \* the directories that register themselves
    Linkers,        \* the processes that run `bpm link` and `bpm unlink --global`
    MaxLinks        \* bound: how many of these commands run

VARIABLES
    links,          \* name -> the directory its link points at, NoTarget if there is none
    scopes,         \* the scope directories that exist
    linker,         \* each process's command and where it is in it
    linksLeft,
    cleanLinks      \* no command has been killed half-way

linkVars == <<links, scopes, linker, linksLeft, cleanLinks>>

NoTarget == "none"

ASSUME LinkAssumption == NoTarget \notin Targets /\ MaxLinks \in Nat

Away == [at |-> "away"]
LinkScopes == {Scope(n) : n \in LinkNames} \ {NoScope}
Within(s) == {n \in LinkNames : Scope(n) = s /\ links[n] # NoTarget}

(* Where a command is, and what it was asked for.                          *)
Registering == [at : {"look", "clear", "make"}, name : LinkNames, target : Targets]
Unregistering == [at : {"drop", "prune"}, name : LinkNames]

LinkTypeOK ==
    /\ links \in [LinkNames -> Targets \cup {NoTarget}]
    /\ scopes \subseteq LinkScopes
    /\ linker \in [Linkers -> {Away} \cup Registering \cup Unregistering]
    /\ linksLeft \in 0 .. MaxLinks
    /\ cleanLinks \in BOOLEAN

(* `registered`: the links of earlier commands, which all ran to their end. *)
LinkInit(left, registered) ==
    /\ links = [n \in LinkNames |-> IF n \in DOMAIN registered THEN registered[n] ELSE NoTarget]
    /\ scopes = {Scope(n) : n \in DOMAIN registered} \ {NoScope}
    /\ linker = [l \in Linkers |-> Away]
    /\ linksLeft = left
    /\ cleanLinks = TRUE

At(l, place) == linker[l].at = place
Goes(l, place) == linker' = [linker EXCEPT ![l].at = place]
Leaves(l) == linker' = [linker EXCEPT ![l] = Away]

(* What `resolve` finds: the registered directory, if the link is there.   *)
Resolved(n) == links[n]

(* `bpm link`: run_register, then register up to the look at the link.     *)
(* scope_dir creates the missing directory and takes one another process   *)
(* just made.                                                              *)
Register(l, n, t) ==
    /\ At(l, "away") /\ linksLeft > 0
    /\ linksLeft' = linksLeft - 1
    /\ scopes' = scopes \cup ({Scope(n)} \ {NoScope})
    /\ linker' = [linker EXCEPT ![l] = [at |-> "look", name |-> n, target |-> t]]
    /\ UNCHANGED <<links, cleanLinks>>

LookForLink(l) ==
    /\ At(l, "look")
    /\ Goes(l, IF links[linker[l].name] = NoTarget THEN "make" ELSE "clear")
    /\ UNCHANGED <<links, scopes, linksLeft, cleanLinks>>

(* The stale link is removed; it is an error if it has gone since.         *)
ClearLink(l) ==
    /\ At(l, "clear")
    /\ links' = [links EXCEPT ![linker[l].name] = NoTarget]
    /\ IF links[linker[l].name] = NoTarget THEN Leaves(l) ELSE Goes(l, "make")
    /\ UNCHANGED <<scopes, linksLeft, cleanLinks>>

(* The new link is made; it is an error if another process has made one in *)
(* the meantime, or has taken the scope directory away.                    *)
MakeLink(l) ==
    /\ At(l, "make")
    /\ LET n == linker[l].name
           free == links[n] = NoTarget /\ Scope(n) \in scopes \cup {NoScope}
       IN  links' = IF free THEN [links EXCEPT ![n] = linker[l].target] ELSE links
    /\ Leaves(l)
    /\ UNCHANGED <<scopes, linksLeft, cleanLinks>>

(* `bpm unlink --global`: nothing to do without the scope or the link.     *)
Unregister(l, n) ==
    /\ At(l, "away") /\ linksLeft > 0
    /\ linksLeft' = linksLeft - 1
    /\ Scope(n) \in scopes \cup {NoScope} /\ links[n] # NoTarget
    /\ linker' = [linker EXCEPT ![l] = [at |-> "drop", name |-> n]]
    /\ UNCHANGED <<links, scopes, cleanLinks>>

(* A link that another process removed first fails the command.            *)
DropLink(l) ==
    /\ At(l, "drop")
    /\ LET n == linker[l].name
       IN  /\ links' = [links EXCEPT ![n] = NoTarget]
           /\ IF links[n] = NoTarget \/ Scope(n) = NoScope THEN Leaves(l) ELSE Goes(l, "prune")
    /\ UNCHANGED <<scopes, linksLeft, cleanLinks>>

(* Mutant: an empty scope directory is left where it is. *)
PruneScopeNever(l) ==
    /\ At(l, "prune")
    /\ Leaves(l)
    /\ UNCHANGED <<links, scopes, linksLeft, cleanLinks>>

(* The scope directory is removed if it is empty: a directory that is not, *)
(* or that is gone already, is left as it is.                              *)
PruneScope(l) ==
    /\ At(l, "prune")
    /\ LET s == Scope(linker[l].name)
       IN  scopes' = IF Within(s) = {} THEN scopes \ {s} ELSE scopes
    /\ Leaves(l)
    /\ UNCHANGED <<links, linksLeft, cleanLinks>>

KillLinker(l) ==
    /\ ~At(l, "away")
    /\ Leaves(l)
    /\ cleanLinks' = FALSE
    /\ UNCHANGED <<links, scopes, linksLeft>>

LinkStep(l) == LookForLink(l) \/ ClearLink(l) \/ MakeLink(l) \/ DropLink(l) \/ PruneScope(l)

LinkNext ==
    \E l \in Linkers :
        \/ \E n \in LinkNames, t \in Targets : Register(l, n, t)
        \/ \E n \in LinkNames : Unregister(l, n)
        \/ LinkStep(l)
        \/ KillLinker(l)

(* What earlier commands registered, and how many commands there will be.  *)
LinkStart ==
    \E most \in 0 .. MaxLinks, names \in SUBSET LinkNames :
        \E registered \in [names -> Targets] : LinkInit(most, registered)
LinkSpec == LinkStart /\ [][LinkNext]_linkVars

(***************************************************************************)
(* Correctness.                                                            *)
(***************************************************************************)
(* Whatever the order in which registrations and removals interleave, once *)
(* no command is running a scope directory exists exactly when it holds a  *)
(* link: `unregister` never takes a directory from under a link that a     *)
(* concurrent `register` made, and never leaves an empty one behind,       *)
(* unless a command was killed half-way.                                   *)
ScopesHoldLinks ==
    /\ \A n \in LinkNames : links[n] # NoTarget => Scope(n) \in scopes \cup {NoScope}
    /\ cleanLinks /\ (\A l \in Linkers : At(l, "away")) =>
           \A s \in scopes : Within(s) # {}
=============================================================================
