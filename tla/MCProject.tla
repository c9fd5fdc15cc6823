------------------------------ MODULE MCProject ------------------------------
(* Two processes running commands in one project, and two that register    *)
(* developer links.                                                        *)
EXTENDS Project

ScopeOf(n) == CASE n \in {"@s/b", "@s/c"} -> "@s" [] OTHER -> "none"

Command(op, name, section, target) == [op |-> op, name |-> name, section |-> section, target |-> target]
TheCommands ==
    {Command("add", "a", "prod", "root"), Command("add", "a", "dev", "member"), Command("add", "b", "prod", "root"), Command("add", "a", "dev", "root"),
     Command("remove", "a", "none", "root"), Command("link", "a", "prod", "root"),
     Command("upgrade", "a", "none", "root"), Command("upgrade", "all", "none", "root"),
     Command("dedupe", "all", "none", "root"),
     Command("install", "all", "none", "root"), Command("ci", "all", "none", "root"),
     Command("import", "all", "none", "root")}

Declares(a, b) == [n \in Names |-> IF n = "a" THEN a ELSE b]
TheSaves ==
    {[file |-> "root", doc |-> Declares("optional", "none")], [file |-> "root", doc |-> Declares("dev", "none")],
     [file |-> "root", doc |-> Broken]}

(* An edit and a failure; two failures; a registry that moves; a link that *)
(* changes under a command; link commands alone.                           *)
Linked == [n \in {"a"} |-> "d1"]
Init ==
    \/ ProjectInit(MaxCommands, MaxEdits, 1, 1) /\ LinkInit(0, Linked)
    \/ ProjectInit(MaxCommands, 0, MaxFaults, 1) /\ LinkInit(0, Linked)
    \/ ProjectInit(MaxCommands, 0, 0, 0) /\ LinkInit(0, Linked)
    \/ ProjectInit(1, 0, 0, 1) /\ LinkInit(1, Linked)
    \/ ProjectInit(0, 0, 0, 1) /\ LinkInit(MaxLinks, <<>>)

Next ==
    \/ ProjectNext /\ UNCHANGED linkVars
    \/ LinkNext /\ UNCHANGED vars

Spec ==
    /\ Init /\ [][Next]_<<vars, linkVars>>
    /\ \A p \in Runners : WF_vars(Step(p) /\ UNCHANGED linkVars)
    /\ \A l \in Linkers : WF_linkVars(LinkStep(l) /\ UNCHANGED vars)
=============================================================================
