---------------------------- MODULE ProjectProofs ----------------------------
(***************************************************************************)
(* Proofs about what a project's owner edits and links.  The registry of   *)
(* developer links: without a lock, register and unregister keep the scope *)
(* directories exact.  The manifests and the lock: with a guard that only  *)
(* some commands take, no edit is lost, a failed transaction is undone     *)
(* exactly, and manifest, lock and view agree when the commands are done.  *)
(* Both for any number of processes, names and commands.                   *)
(***************************************************************************)
EXTENDS Project, TLAPS

(***************************************************************************)
(* Developer links.                                                        *)
(***************************************************************************)
(* A linker that will fill or prune the scope before it ends: not one that *)
(* is about to remove a link, for it may find that link gone and give up.  *)
Answers(l, s) == linker[l].at \in {"look", "make", "prune"} /\ Scope(linker[l].name) = s

(* Every link is in a directory that exists. *)
LinksHoused == \A n \in LinkNames : links[n] # NoTarget => Scope(n) \in scopes \cup {NoScope}
(* An empty scope directory is somebody's business, at every step. *)
ScopesOwned == cleanLinks => \A s \in scopes : Within(s) # {} \/ \E l \in Linkers : Answers(l, s)

LinkInv == LinkTypeOK /\ LinksHoused /\ ScopesOwned

(* What a linker's record holds at each place of register and unregister. *)
LEMMA CommandShapes ==
    ASSUME LinkTypeOK, NEW l \in Linkers
    PROVE  /\ linker[l].at \in {"away", "look", "clear", "make", "drop", "prune"}
           /\ At(l, "away") => linker[l] = Away
           /\ linker[l].at \in {"look", "clear", "make"} => linker[l] \in Registering
           /\ linker[l].at \in {"drop", "prune"} => linker[l] \in Unregistering
           /\ ~At(l, "away") => linker[l].name \in LinkNames
  <1>1. linker[l] \in {Away} \cup Registering \cup Unregistering
    BY DEF LinkTypeOK
  <1>2. CASE linker[l] = Away
    BY <1>2 DEF Away, At
  <1>3. CASE linker[l] \in Registering
    BY <1>3 DEF Registering, At
  <1>4. CASE linker[l] \in Unregistering
    BY <1>4 DEF Unregistering, At
  <1> QED
    BY <1>1, <1>2, <1>3, <1>4

(* A command that goes on keeps its name, and its record stays one of that *)
(* command.                                                                *)
LEMMA GoesOn ==
    ASSUME LinkTypeOK, NEW l \in Linkers, NEW place,
           \/ linker[l] \in Registering /\ place \in {"look", "clear", "make"}
           \/ linker[l] \in Unregistering /\ place \in {"drop", "prune"},
           Goes(l, place)
    PROVE  /\ linker' \in [Linkers -> {Away} \cup Registering \cup Unregistering]
           /\ linker'[l].at = place
           /\ linker'[l].name = linker[l].name
           /\ \A m \in Linkers \ {l} : linker'[m] = linker[m]
  <1>0. linker \in [Linkers -> {Away} \cup Registering \cup Unregistering]
    BY DEF LinkTypeOK
  <1>1. linker' = [linker EXCEPT ![l] = [linker[l] EXCEPT !.at = place]]
    BY DEF Goes
  <1>2. /\ [linker[l] EXCEPT !.at = place] \in Registering \cup Unregistering
        /\ [linker[l] EXCEPT !.at = place].at = place
        /\ [linker[l] EXCEPT !.at = place].name = linker[l].name
    <2>1. CASE linker[l] \in Registering /\ place \in {"look", "clear", "make"}
      BY <2>1 DEF Registering
    <2>2. CASE linker[l] \in Unregistering /\ place \in {"drop", "prune"}
      BY <2>2 DEF Unregistering
    <2> QED
      BY <2>1, <2>2
  <1> QED
    BY <1>0, <1>1, <1>2

(* A command that ends, well or not, touches no other's record. *)
LEMMA Left ==
    ASSUME LinkTypeOK, NEW l \in Linkers, Leaves(l)
    PROVE  /\ linker' \in [Linkers -> {Away} \cup Registering \cup Unregistering]
           /\ linker'[l] = Away
           /\ \A m \in Linkers \ {l} : linker'[m] = linker[m]
  BY DEF LinkTypeOK, Leaves

(* A step of one linker changes nothing in who else answers for a scope. *)
LEMMA OthersAnswer ==
    ASSUME NEW l \in Linkers, \A m \in Linkers \ {l} : linker'[m] = linker[m],
           NEW m \in Linkers \ {l}, NEW s
    PROVE  Answers(m, s)' <=> Answers(m, s)
  BY DEF Answers

(* The registry that earlier commands left: a directory for every scope    *)
(* with a link, and no other.                                              *)
LEMMA InitInv ==
    ASSUME NEW most \in 0 .. MaxLinks, NEW names \in SUBSET LinkNames,
           NEW registered \in [names -> Targets], LinkInit(most, registered)
    PROVE  LinkInv
  <1>1. \A n \in LinkNames : links[n] = IF n \in names THEN registered[n] ELSE NoTarget
    BY DEF LinkInit
  <1>2. scopes = {Scope(n) : n \in names} \ {NoScope}
    BY DEF LinkInit
  <1>3. LinkTypeOK
    <2>1. links \in [LinkNames -> Targets \cup {NoTarget}]
      BY DEF LinkInit
    <2>2. scopes \subseteq LinkScopes
      BY <1>2 DEF LinkScopes
    <2>3. linker \in [Linkers -> {Away} \cup Registering \cup Unregistering]
      BY DEF LinkInit
    <2> QED
      BY <2>1, <2>2, <2>3 DEF LinkInit, LinkTypeOK
  <1>4. LinksHoused
    BY <1>1, <1>2 DEF LinksHoused
  <1>5. ASSUME NEW s \in scopes PROVE Within(s) # {}
    <2>1. PICK n \in names : s = Scope(n)
      BY <1>2, <1>5
    <2>2. links[n] \in Targets
      BY <1>1, <2>1
    <2> QED
      BY <2>1, <2>2, LinkAssumption DEF Within
  <1> QED
    BY <1>3, <1>4, <1>5 DEF LinkInv, ScopesOwned

(* register creates the scope directory first, and from then on answers    *)
(* for it.                                                                 *)
LEMMA RegisterInv ==
    ASSUME LinkInv, NEW l \in Linkers, NEW n \in LinkNames, NEW t \in Targets, Register(l, n, t)
    PROVE  LinkInv'
  <1>1. /\ linker' = [linker EXCEPT ![l] = [at |-> "look", name |-> n, target |-> t]]
        /\ scopes' = scopes \cup ({Scope(n)} \ {NoScope})
        /\ links' = links /\ cleanLinks' = cleanLinks
        /\ linksLeft > 0 /\ linksLeft' = linksLeft - 1
    BY DEF Register
  <1>2. linker' \in [Linkers -> {Away} \cup Registering \cup Unregistering]
    <2>1. [at |-> "look", name |-> n, target |-> t] \in Registering
      BY DEF Registering
    <2> QED
      BY <1>1, <2>1 DEF LinkInv, LinkTypeOK
  <1>3. LinkTypeOK'
    <2>1. scopes' \subseteq LinkScopes
      BY <1>1 DEF LinkInv, LinkTypeOK, LinkScopes
    <2>2. linksLeft' \in 0 .. MaxLinks
      BY <1>1, LinkAssumption DEF LinkInv, LinkTypeOK
    <2> QED
      BY <1>1, <1>2, <2>1, <2>2 DEF LinkInv, LinkTypeOK
  <1>4. LinksHoused'
    BY <1>1 DEF LinkInv, LinksHoused
  <1>5. ASSUME cleanLinks', NEW s \in scopes'
        PROVE  Within(s)' # {} \/ \E m \in Linkers : Answers(m, s)'
    <2>1. /\ linker'[l] = [at |-> "look", name |-> n, target |-> t]
          /\ \A m \in Linkers \ {l} : linker'[m] = linker[m]
      BY <1>1 DEF LinkInv, LinkTypeOK
    <2>2. CASE s = Scope(n)
      BY <2>1, <2>2 DEF Answers
    <2>3. CASE s # Scope(n)
      <3>1. s \in scopes
        BY <1>1, <1>5, <2>3
      <3>2. Within(s)' = Within(s)
        BY <1>1 DEF Within
      <3>3. CASE Within(s) # {}
        BY <3>2, <3>3
      <3>4. CASE \E m \in Linkers : Answers(m, s)
        <4>1. PICK m \in Linkers : Answers(m, s)
          BY <3>4
        <4>2. m # l
          BY <4>1 DEF Register, At, Answers
        <4> QED
          BY <2>1, <4>1, <4>2, OthersAnswer
      <3> QED
        BY <1>1, <1>5, <3>1, <3>3, <3>4 DEF LinkInv, ScopesOwned
    <2> QED
      BY <2>2, <2>3
  <1> QED
    BY <1>3, <1>4, <1>5 DEF LinkInv, ScopesOwned

(* unregister only reads before it removes: an empty scope has its answer  *)
(* from somebody else.                                                     *)
LEMMA UnregisterInv ==
    ASSUME LinkInv, NEW l \in Linkers, NEW n \in LinkNames, Unregister(l, n)
    PROVE  LinkInv'
  <1>1. /\ linker' = [linker EXCEPT ![l] = [at |-> "drop", name |-> n]]
        /\ scopes' = scopes /\ links' = links /\ cleanLinks' = cleanLinks
        /\ linksLeft > 0 /\ linksLeft' = linksLeft - 1
    BY DEF Unregister
  <1>2. linker' \in [Linkers -> {Away} \cup Registering \cup Unregistering]
    <2>1. [at |-> "drop", name |-> n] \in Unregistering
      BY DEF Unregistering
    <2> QED
      BY <1>1, <2>1 DEF LinkInv, LinkTypeOK
  <1>3. LinkTypeOK'
    <2>1. linksLeft' \in 0 .. MaxLinks
      BY <1>1, LinkAssumption DEF LinkInv, LinkTypeOK
    <2> QED
      BY <1>1, <1>2, <2>1 DEF LinkInv, LinkTypeOK
  <1>4. LinksHoused'
    BY <1>1 DEF LinkInv, LinksHoused
  <1>5. ASSUME cleanLinks', NEW s \in scopes', Within(s)' = {}
        PROVE  \E m \in Linkers : Answers(m, s)'
    <2>1. Within(s) = {}
      BY <1>1, <1>5 DEF Within
    <2>2. PICK m \in Linkers : Answers(m, s)
      BY <1>1, <1>5, <2>1 DEF LinkInv, ScopesOwned
    <2>3. m # l
      BY <2>2 DEF Unregister, At, Answers
    <2>4. \A k \in Linkers \ {l} : linker'[k] = linker[k]
      BY <1>1 DEF LinkInv, LinkTypeOK
    <2> QED
      BY <2>2, <2>3, <2>4, OthersAnswer
  <1> QED
    BY <1>3, <1>4, <1>5 DEF LinkInv, ScopesOwned

(* When no directory is created, only two things have to be shown: a scope *)
(* that loses its last link, and one the acting linker answered for, each  *)
(* have a link or an answer afterwards.                                    *)
LEMMA OwnersStay ==
    ASSUME LinkInv, NEW l \in Linkers,
           \A m \in Linkers \ {l} : linker'[m] = linker[m],
           scopes' \subseteq scopes, cleanLinks' => cleanLinks,
           \A s \in scopes' : Within(s) # {} => Within(s)' # {} \/ \E m \in Linkers : Answers(m, s)',
           \A s \in scopes' : Answers(l, s) => Within(s)' # {} \/ \E m \in Linkers : Answers(m, s)'
    PROVE  ScopesOwned'
  <1> SUFFICES ASSUME cleanLinks', NEW s \in scopes'
               PROVE  Within(s)' # {} \/ \E m \in Linkers : Answers(m, s)'
    BY DEF ScopesOwned
  <1>1. CASE Within(s) # {}
    BY <1>1
  <1>2. CASE \E m \in Linkers : Answers(m, s)
    <2>1. PICK m \in Linkers : Answers(m, s)
      BY <1>2
    <2>2. CASE m = l
      BY <2>1, <2>2
    <2>3. CASE m # l
      BY <2>1, <2>3, OthersAnswer
    <2> QED
      BY <2>2, <2>3
  <1> QED
    BY <1>1, <1>2 DEF LinkInv, ScopesOwned

(* register looks for a stale link: either the scope holds it, or register *)
(* goes on to make one.                                                    *)
LEMMA LookForLinkInv ==
    ASSUME LinkInv, NEW l \in Linkers, LookForLink(l)
    PROVE  LinkInv'
  <1> DEFINE n == linker[l].name
             place == IF links[n] = NoTarget THEN "make" ELSE "clear"
  <1>1. scopes' = scopes /\ links' = links /\ cleanLinks' = cleanLinks /\ linksLeft' = linksLeft
    BY DEF LookForLink
  <1>2. linker[l] \in Registering /\ n \in LinkNames
    BY CommandShapes DEF LinkInv, LookForLink, At
  <1>3. /\ linker' \in [Linkers -> {Away} \cup Registering \cup Unregistering]
        /\ linker'[l].at = place /\ linker'[l].name = n
        /\ \A m \in Linkers \ {l} : linker'[m] = linker[m]
    <2>1. Goes(l, place)
      BY DEF LookForLink
    <2>2. place \in {"look", "clear", "make"}
      OBVIOUS
    <2> QED
      BY <1>2, <2>1, <2>2, GoesOn DEF LinkInv
  <1>4. LinkTypeOK'
    BY <1>1, <1>3 DEF LinkInv, LinkTypeOK
  <1>5. LinksHoused'
    BY <1>1 DEF LinkInv, LinksHoused
  <1>6. \A s : Within(s)' = Within(s)
    BY <1>1 DEF Within
  <1>7. ASSUME NEW s \in scopes', Answers(l, s)
        PROVE  Within(s) # {} \/ Answers(l, s)'
    <2>1. s = Scope(n)
      BY <1>7 DEF Answers
    <2>2. CASE links[n] = NoTarget
      BY <1>3, <2>1, <2>2 DEF Answers
    <2>3. CASE links[n] # NoTarget
      BY <1>2, <2>1, <2>3 DEF Within
    <2> QED
      BY <2>2, <2>3
  <1>8. ScopesOwned'
    BY <1>1, <1>3, <1>6, <1>7, OwnersStay
  <1> QED
    BY <1>4, <1>5, <1>8 DEF LinkInv

(* The removal of a link empties at most its own scope, and takes no       *)
(* directory from under another.                                           *)
LEMMA LinkRemoved ==
    ASSUME LinkInv, NEW n \in LinkNames, links' = [links EXCEPT ![n] = NoTarget], scopes' = scopes
    PROVE  /\ links' \in [LinkNames -> Targets \cup {NoTarget}]
           /\ LinksHoused'
           /\ \A s : s # Scope(n) => Within(s)' = Within(s)
           /\ links[n] = NoTarget => \A s : Within(s)' = Within(s)
  <1>1. links \in [LinkNames -> Targets \cup {NoTarget}]
    BY DEF LinkInv, LinkTypeOK
  <1>2. links' \in [LinkNames -> Targets \cup {NoTarget}]
    BY <1>1
  <1>3. \A m \in LinkNames : links'[m] = IF m = n THEN NoTarget ELSE links[m]
    BY <1>1
  <1>4. LinksHoused'
    BY <1>3 DEF LinkInv, LinksHoused
  <1>5. \A s : s # Scope(n) => Within(s)' = Within(s)
    BY <1>3 DEF Within
  <1>6. links[n] = NoTarget => \A s : Within(s)' = Within(s)
    BY <1>3 DEF Within
  <1> QED
    BY <1>2, <1>4, <1>5, <1>6

(* A stale link is removed by register, which goes on to make the new one; *)
(* if it was removed by somebody else the command fails, and that other    *)
(* one answers for the scope.                                              *)
LEMMA ClearLinkInv ==
    ASSUME LinkInv, NEW l \in Linkers, ClearLink(l)
    PROVE  LinkInv'
  <1> DEFINE n == linker[l].name
  <1>1. /\ scopes' = scopes /\ cleanLinks' = cleanLinks /\ linksLeft' = linksLeft
        /\ links' = [links EXCEPT ![n] = NoTarget]
    BY DEF ClearLink
  <1>2. linker[l] \in Registering /\ n \in LinkNames
    BY CommandShapes DEF LinkInv, ClearLink, At
  <1>3. /\ links' \in [LinkNames -> Targets \cup {NoTarget}]
        /\ LinksHoused'
        /\ \A s : s # Scope(n) => Within(s)' = Within(s)
        /\ links[n] = NoTarget => \A s : Within(s)' = Within(s)
    BY <1>1, <1>2, LinkRemoved
  <1>4. /\ linker' \in [Linkers -> {Away} \cup Registering \cup Unregistering]
        /\ links[n] # NoTarget => linker'[l].at = "make" /\ linker'[l].name = n
        /\ \A m \in Linkers \ {l} : linker'[m] = linker[m]
    <2>1. CASE links[n] = NoTarget
      BY <2>1, Left DEF LinkInv, ClearLink
    <2>2. CASE links[n] # NoTarget
      BY <1>2, <2>2, GoesOn DEF LinkInv, ClearLink
    <2> QED
      BY <2>1, <2>2
  <1>5. LinkTypeOK'
    BY <1>1, <1>3, <1>4 DEF LinkInv, LinkTypeOK
  <1>6. ASSUME NEW s \in scopes', Within(s) # {}
        PROVE  Within(s)' # {} \/ Answers(l, s)'
    <2>1. CASE links[n] = NoTarget \/ s # Scope(n)
      BY <1>3, <1>6, <2>1
    <2>2. CASE links[n] # NoTarget /\ s = Scope(n)
      BY <1>4, <2>2 DEF Answers
    <2> QED
      BY <2>1, <2>2
  <1>7. \A s : ~Answers(l, s)
    BY DEF ClearLink, At, Answers
  <1>8. ScopesOwned'
    BY <1>1, <1>4, <1>6, <1>7, OwnersStay
  <1> QED
    BY <1>3, <1>5, <1>8 DEF LinkInv

(* make_symlink: a link that is there already, or one that register makes  *)
(* now, fills the scope; without the directory there is nothing to fill.   *)
LEMMA MakeLinkInv ==
    ASSUME LinkInv, NEW l \in Linkers, MakeLink(l)
    PROVE  LinkInv'
  <1> DEFINE n == linker[l].name
             free == links[n] = NoTarget /\ Scope(n) \in scopes \cup {NoScope}
  <1>1. /\ scopes' = scopes /\ cleanLinks' = cleanLinks /\ linksLeft' = linksLeft
        /\ links' = IF free THEN [links EXCEPT ![n] = linker[l].target] ELSE links
    BY DEF MakeLink
  <1>2. n \in LinkNames /\ linker[l].target \in Targets
    BY CommandShapes DEF LinkInv, MakeLink, At, Registering
  <1>3. links \in [LinkNames -> Targets \cup {NoTarget}] /\ scopes \subseteq LinkScopes
    BY DEF LinkInv, LinkTypeOK
  <1>4. \A m \in LinkNames : links'[m] = IF m = n /\ free THEN linker[l].target ELSE links[m]
    BY <1>1, <1>3
  <1>5. /\ linker' \in [Linkers -> {Away} \cup Registering \cup Unregistering]
        /\ \A m \in Linkers \ {l} : linker'[m] = linker[m]
    BY Left DEF LinkInv, MakeLink
  <1>6. LinkTypeOK'
    <2>1. links' \in [LinkNames -> Targets \cup {NoTarget}]
      BY <1>1, <1>2, <1>3
    <2> QED
      BY <1>1, <1>5, <2>1 DEF LinkInv, LinkTypeOK
  <1>7. LinksHoused'
    BY <1>1, <1>4 DEF LinkInv, LinksHoused
  <1>8. ASSUME NEW s, Within(s) # {} PROVE Within(s)' # {}
    <2>1. PICK m \in LinkNames : Scope(m) = s /\ links[m] # NoTarget
      BY <1>8 DEF Within
    <2>2. links'[m] # NoTarget
      BY <1>2, <1>4, <2>1, LinkAssumption
    <2> QED
      BY <2>1, <2>2 DEF Within
  <1>9. ASSUME NEW s \in scopes', Answers(l, s) PROVE Within(s)' # {}
    <2>1. s = Scope(n) /\ s \in scopes
      BY <1>1, <1>9 DEF Answers
    <2>2. links'[n] # NoTarget
      BY <1>2, <1>4, <2>1, LinkAssumption
    <2> QED
      BY <1>2, <2>1, <2>2 DEF Within
  <1>10. ScopesOwned'
    BY <1>1, <1>5, <1>8, <1>9, OwnersStay
  <1> QED
    BY <1>6, <1>7, <1>10 DEF LinkInv

(* unregister removes a link: the one that did goes on to prune, the one   *)
(* that came too late does not, and need not.                              *)
LEMMA DropLinkInv ==
    ASSUME LinkInv, NEW l \in Linkers, DropLink(l)
    PROVE  LinkInv'
  <1> DEFINE n == linker[l].name
  <1>1. /\ scopes' = scopes /\ cleanLinks' = cleanLinks /\ linksLeft' = linksLeft
        /\ links' = [links EXCEPT ![n] = NoTarget]
        /\ IF links[n] = NoTarget \/ Scope(n) = NoScope THEN Leaves(l) ELSE Goes(l, "prune")
    BY DEF DropLink
  <1>2. linker[l] \in Unregistering /\ n \in LinkNames
    BY CommandShapes DEF LinkInv, DropLink, At
  <1>3. /\ links' \in [LinkNames -> Targets \cup {NoTarget}]
        /\ LinksHoused'
        /\ \A s : s # Scope(n) => Within(s)' = Within(s)
        /\ links[n] = NoTarget => \A s : Within(s)' = Within(s)
    BY <1>1, <1>2, LinkRemoved
  <1>4. /\ linker' \in [Linkers -> {Away} \cup Registering \cup Unregistering]
        /\ links[n] # NoTarget /\ Scope(n) # NoScope => linker'[l].at = "prune" /\ linker'[l].name = n
        /\ \A m \in Linkers \ {l} : linker'[m] = linker[m]
    <2>1. CASE links[n] = NoTarget \/ Scope(n) = NoScope
      BY <1>1, <2>1, Left DEF LinkInv
    <2>2. CASE ~(links[n] = NoTarget \/ Scope(n) = NoScope)
      BY <1>1, <1>2, <2>2, GoesOn DEF LinkInv
    <2> QED
      BY <2>1, <2>2
  <1>5. LinkTypeOK'
    BY <1>1, <1>3, <1>4 DEF LinkInv, LinkTypeOK
  <1>6. ASSUME NEW s \in scopes', Within(s) # {}
        PROVE  Within(s)' # {} \/ Answers(l, s)'
    <2>1. s # NoScope
      BY <1>1, <1>6 DEF LinkInv, LinkTypeOK, LinkScopes
    <2>2. CASE links[n] = NoTarget \/ s # Scope(n)
      BY <1>3, <1>6, <2>2
    <2>3. CASE links[n] # NoTarget /\ s = Scope(n)
      BY <1>4, <2>1, <2>3 DEF Answers
    <2> QED
      BY <2>2, <2>3
  <1>7. \A s : ~Answers(l, s)
    BY DEF DropLink, At, Answers
  <1>8. ScopesOwned'
    BY <1>1, <1>4, <1>6, <1>7, OwnersStay
  <1> QED
    BY <1>3, <1>5, <1>8 DEF LinkInv

(* remove_dir fails on a directory that holds a link, whoever made it and  *)
(* however lately.                                                         *)
LEMMA PruneScopeInv ==
    ASSUME LinkInv, NEW l \in Linkers, PruneScope(l)
    PROVE  LinkInv'
  <1> DEFINE s0 == Scope(linker[l].name)
  <1>1. /\ links' = links /\ cleanLinks' = cleanLinks /\ linksLeft' = linksLeft
        /\ scopes' = IF Within(s0) = {} THEN scopes \ {s0} ELSE scopes
    BY DEF PruneScope
  <1>2. /\ linker' \in [Linkers -> {Away} \cup Registering \cup Unregistering]
        /\ \A m \in Linkers \ {l} : linker'[m] = linker[m]
    BY Left DEF LinkInv, PruneScope
  <1>3. LinkTypeOK'
    BY <1>1, <1>2 DEF LinkInv, LinkTypeOK
  <1>4. ASSUME NEW n \in LinkNames, links'[n] # NoTarget
        PROVE  Scope(n) \in scopes' \cup {NoScope}
    <2>1. n \in Within(Scope(n))
      BY <1>1, <1>4 DEF Within
    <2>2. Scope(n) \in scopes \cup {NoScope}
      BY <1>1, <1>4 DEF LinkInv, LinksHoused
    <2> QED
      BY <1>1, <2>1, <2>2
  <1>5. \A s : Within(s)' = Within(s)
    BY <1>1 DEF Within
  <1>6. ASSUME NEW s \in scopes', Answers(l, s) PROVE Within(s) # {}
    BY <1>1, <1>6 DEF Answers
  <1>7. ScopesOwned'
    BY <1>1, <1>2, <1>5, <1>6, OwnersStay
  <1> QED
    BY <1>3, <1>4, <1>7 DEF LinkInv, LinksHoused

(* A killed command may leave an empty scope, and nothing is claimed of    *)
(* those from then on.                                                     *)
LEMMA KillLinkerInv ==
    ASSUME LinkInv, NEW l \in Linkers, KillLinker(l)
    PROVE  LinkInv'
  <1>1. links' = links /\ scopes' = scopes /\ linksLeft' = linksLeft /\ cleanLinks' = FALSE
    BY DEF KillLinker
  <1>2. LinkTypeOK'
    BY <1>1, Left DEF LinkInv, LinkTypeOK, KillLinker
  <1> QED
    BY <1>1, <1>2 DEF LinkInv, LinksHoused, ScopesOwned

(* Every step keeps the invariant. *)
LEMMA NextInv ==
    ASSUME LinkInv, [LinkNext]_linkVars
    PROVE  LinkInv'
  <1>1. CASE UNCHANGED linkVars
    BY <1>1 DEF linkVars, LinkInv, LinkTypeOK, LinksHoused, ScopesOwned, Within, Answers
  <1>2. CASE LinkNext
    <2>1. PICK l \in Linkers :
            \/ \E n \in LinkNames, t \in Targets : Register(l, n, t)
            \/ \E n \in LinkNames : Unregister(l, n)
            \/ LinkStep(l)
            \/ KillLinker(l)
      BY <1>2 DEF LinkNext
    <2> QED
      BY <2>1, RegisterInv, UnregisterInv, LookForLinkInv, ClearLinkInv, MakeLinkInv, DropLinkInv,
         PruneScopeInv, KillLinkerInv DEF LinkStep
  <1> QED
    BY <1>1, <1>2

(* For any number of linkers, names, scopes and commands: no link ever     *)
(* stands outside a scope directory that exists, although unregister       *)
(* removes directories without a lock, and when all commands have ended,   *)
(* none of them killed, no scope directory is empty.                       *)
THEOREM ScopesExact == LinkSpec => []ScopesHoldLinks
  <1>1. LinkStart => LinkInv
    BY InitInv DEF LinkStart
  <1>2. LinkInv /\ [LinkNext]_linkVars => LinkInv'
    BY NextInv
  <1>3. LinkInv => ScopesHoldLinks
    <2>1. ASSUME \A l \in Linkers : At(l, "away"), NEW l \in Linkers, NEW s PROVE ~Answers(l, s)
      BY <2>1 DEF At, Answers
    <2> QED
      BY <2>1 DEF LinkInv, LinksHoused, ScopesOwned, ScopesHoldLinks
  <1> QED
    BY <1>1, <1>2, <1>3, PTL DEF LinkSpec

(***************************************************************************)
(* The files and the commands, typed.                                      *)
(***************************************************************************)
Docs == Declarations \cup {Broken}
(* The manifests, any contents the lock files may have (a torn or missing  *)
(* one too), and the three lock files.                                     *)
DocFiles == [{"root", "member"} -> Docs]
SomeLocks == [root : Docs, member : Docs, seen : {0, 1}, full : BOOLEAN]
LockFiles == [{"bpm", "npm", "yarn"} -> SomeLocks]
(* The places of a command: where its transaction can still be undone,     *)
(* where it holds the guard, and where a command without the guard writes  *)
(* the lock.                                                               *)
Undoing == {"lock", "manifest", "restoreLock", "restoreManifest", "restoreOther"}
Holding == {"edit", "resolve", "replace", "capture"} \cup Undoing
Spooling == {"fresh", "spool", "fill", "rename"}
Places == {"guard", "found", "import", "materialize"} \cup Holding \cup Spooling
(* The record of a command that runs.                                      *)
Running ==
    [at : Places, cmd : Commands, kind : {"bpm", "npm", "yarn", "none"}, lock : SomeLocks, doc : Docs,
     docWas : Docs, lockWas : SomeLocks, began : {<<>>} \cup (DocFiles \X LockFiles), alone : BOOLEAN]

(* The types the proof needs: TypeOK without the bounds.                   *)
FilesTyped ==
    /\ docs \in DocFiles
    /\ locks \in LockFiles /\ spool \in SomeLocks /\ registry \in {0, 1}
    /\ guard \in Runners \cup {Nobody}
    /\ run \in [Runners -> {Idle} \cup Running]
    /\ settled \in Owed /\ shown \in BOOLEAN /\ kept \in BOOLEAN
    /\ fd \in [Runners -> {"none", "spool", "lock", "gone"}]

(***************************************************************************)
(* Who may be where.                                                       *)
(***************************************************************************)
Mutations == {"add", "remove", "link"}
(* Which command may be where, that the guard is held from the edit to the *)
(* end of the installation, and that what is published has been resolved   *)
(* from a manifest that could be read.                                     *)
PlaceFits(p) ==
    /\ run[p].at \in {"guard"} \cup Holding => Op(p) \in Guarded
    /\ run[p].at \in {"capture"} \cup Undoing => Op(p) \in Mutations
    /\ run[p].at \in Holding \/ (Is(p, "materialize") /\ Op(p) \in Guarded) => guard = p
    /\ run[p].at \in {"found", "import"} \cup Spooling => Op(p) \in Unguarded
    /\ Is(p, "found") => Op(p) \in {"install", "ci"}
    /\ Is(p, "import") => Op(p) = "import"
    /\ Is(p, "materialize") => Op(p) # "import"
    /\ run[p].at \in {"capture", "replace", "lock", "spool", "fill", "rename"} => Readable(run[p].lock.root)
    /\ run[p].at \in Spooling => Op(p) = "import" \/ (Op(p) = "install" /\ run[p].kind \in {"bpm", "none"})

(* Two commands overlap when one of them takes no guard; neither of them   *)
(* is alone then.                                                          *)
Overlaps(p, q) == p # q /\ Active(p) /\ Active(q) /\ (Op(p) \in Unguarded \/ Op(q) \in Unguarded)
NoOverlap == \A p, q \in Runners : Overlaps(p, q) => ~run[p].alone

(* The lock a command found when it began is still the one that is         *)
(* selected: package-lock.json neither appears nor vanishes, and only a    *)
(* command without the guard creates a bpm.lock beside it.                 *)
KindStays(p) ==
    Active(p) =>
        /\ run[p].kind = "npm" => locks.npm # NoLock
        /\ locks.npm # NoLock =>
              /\ run[p].kind \in {"npm", "bpm"}
              /\ run[p].kind = "bpm" => locks.bpm # NoLock
              /\ run[p].at \in Undoing => run[p].lockWas # NoLock
        /\ run[p].alone /\ Op(p) \in Guarded /\ run[p].kind = "npm" => locks.bpm = NoLock

(***************************************************************************)
(* No edit is lost.                                                        *)
(***************************************************************************)
(* While no edit by hand interferes, what a mutation is about to write     *)
(* differs from the manifest in its own name only, and what it restores is *)
(* what the edits asked for.                                               *)
EditKept(p) ==
    /\ run[p].at \in {"resolve", "capture", "lock", "manifest"} =>
          \A n \in Names : n # Cmd(p).name => run[p].doc[n] = docs[Target(p)][n]
    /\ run[p].at \in {"lock", "manifest"} => run[p].docWas = docs[Target(p)]
    /\ run[p].at \in Restoring => asked = [docs EXCEPT ![Target(p)] = run[p].docWas]
EditsKept == kept => NoLostEdit /\ \A p \in Runners : EditKept(p)

(***************************************************************************)
(* A command that is alone.                                                *)
(***************************************************************************)
(* find_project_lock on given lock files.                                  *)
KindOf(l) ==
    IF l.bpm # NoLock THEN "bpm" ELSE IF l.npm # NoLock THEN "npm" ELSE IF l.yarn # NoLock THEN "yarn" ELSE "none"

(* The files a command that is alone found when it took the guard are      *)
(* still there, or are what its rollback will make of them.                *)
Undone(p) ==
    /\ run[p].at \in {"edit", "resolve", "replace", "capture", "lock"} => run[p].began = <<docs, locks>>
    /\ run[p].at \in Undoing \ {"restoreOther"} =>
          run[p].began = <<[docs EXCEPT ![Target(p)] = run[p].docWas], [locks EXCEPT ![Slot(run[p].kind)] = run[p].lockWas]>>
    /\ Is(p, "restoreManifest") => run[p].began[2] = locks
(* What such a command publishes was resolved from the root manifest it    *)
(* leaves behind, and stands in its slot once published.                   *)
ResolvedWell(p) ==
    /\ Is(p, "resolve") /\ Op(p) \notin Mutations => run[p].doc = docs[Target(p)]
    /\ run[p].at \in {"capture", "lock", "manifest"} =>
          run[p].lock.root = IF Target(p) = "member" THEN docs.root ELSE run[p].doc
    /\ Is(p, "replace") => run[p].lock.root = docs.root
    /\ Is(p, "manifest") => locks[Slot(run[p].kind)] = run[p].lock
    /\ Is(p, "materialize") /\ Op(p) \in Guarded =>
          locks[Slot(run[p].kind)] = run[p].lock /\ docs.root = run[p].lock.root
    /\ Is(p, "manifest") \/ (Is(p, "materialize") /\ Op(p) \in Guarded) => Readable(run[p].lock.root)
(* What a command without the guard that is alone read is still on disk.   *)
Replayed(p) ==
    /\ Is(p, "found") => run[p].kind = Kind /\ run[p].lock = Loaded(Kind)
    /\ run[p].at \in {"spool", "fill", "rename"} /\ Op(p) # "import" => run[p].lock.root = docs.root
    /\ Is(p, "fill") => fd[p] = "spool"
    /\ Is(p, "rename") => spool = run[p].lock
    /\ Is(p, "materialize") /\ Op(p) \in Unguarded =>
          /\ run[p].lock = Loaded(Kind)
          /\ Op(p) = "ci" => FrozenAccepts(run[p].lock)
          /\ run[p].kind \in {"bpm", "none"} => ~Drifted(run[p].lock)
AloneFits(p) == Active(p) /\ run[p].alone => Undone(p) /\ ResolvedWell(p) /\ Replayed(p)

(***************************************************************************)
(* What is owed.                                                           *)
(***************************************************************************)
(* Loaded(Kind) on given manifests and lock files.                         *)
LoadedIn(d, l) ==
    CASE KindOf(l) = "bpm" -> l.bpm
      [] KindOf(l) = "npm" ->
            [l.npm EXCEPT !.root = [n \in Names |->
                IF l.npm.root[n] = "none" THEN "none" ELSE
                IF d.root[n] \in {"dev", "optional"} THEN d.root[n] ELSE "prod"]]
      [] KindOf(l) = "yarn" -> [l.yarn EXCEPT !.root = d.root]
      [] OTHER -> NoLock
(* Given manifests and locks meet what is owed.                            *)
Agreed(d, l) ==
    /\ settled = "names" => Readable(d.root) /\ Declared(d.root) = Declared(LoadedIn(d, l).root)
    /\ settled = "sections" => Readable(d.root) /\ d.root = LoadedIn(d, l).root
    /\ shown => view = LoadedIn(d, l)
(* Where a command has written something it has not accounted for, and     *)
(* where a rollback is still possible.                                     *)
Dirty == {"manifest", "restoreLock", "restoreManifest", "restoreOther", "materialize"}
Written == {"manifest", "restoreLock", "restoreManifest"}
AllAlone == \A p \in Runners : Active(p) => run[p].alone
OwedBefore(p) == Agreed(run[p].began[1], run[p].began[2])
(* When every command is alone: what is owed holds while nobody is in      *)
(* between, and a command in between can go back to files for which it     *)
(* holds.                                                                  *)
OwedHolds ==
    AllAlone =>
        /\ (\A p \in Runners : run[p].at \notin Dirty) => Agreed(docs, locks)
        /\ \A p \in Runners : run[p].at \in Written => OwedBefore(p)

(* The inductive invariant.                                                *)
PInv ==
    /\ FilesTyped /\ NoOverlap /\ EditsKept /\ OwedHolds
    /\ \A p \in Runners : PlaceFits(p) /\ KindStays(p) /\ AloneFits(p)

(***************************************************************************)
(* The record of a command.                                                *)
(***************************************************************************)
(* A step of p alone, to another place or to the end of its command.       *)
Becomes(p, place) ==
    /\ Active(p) /\ run'[p].at = place /\ place \in Places
    /\ run'[p].cmd = run[p].cmd /\ run'[p].kind = run[p].kind /\ run'[p].alone = run[p].alone
    /\ \A q \in Runners : q # p => run'[q] = run[q]
    /\ run' \in [Runners -> {Idle} \cup Running]
Ceases(p) ==
    /\ Active(p) /\ run'[p] = Idle
    /\ \A q \in Runners : q # p => run'[q] = run[q]
    /\ run' \in [Runners -> {Idle} \cup Running]

(* A record is that of a command or Idle.                                  *)
LEMMA RunShapes ==
    ASSUME FilesTyped, NEW p \in Runners
    PROVE  /\ Active(p) => run[p] \in Running /\ run[p].at \in Places
           /\ ~Active(p) => run[p] = Idle /\ run[p].at = "idle"
           /\ run[p].at \in Places => Active(p)
  <1>1. run[p] \in {Idle} \cup Running
    BY DEF FilesTyped
  <1>2. "idle" \notin Places
    BY DEF Places, Holding, Undoing, Spooling
  <1>3. ASSUME run[p] \in Running PROVE run[p].at \in Places
    BY <1>3 DEF Running
  <1> QED
    BY <1>1, <1>2, <1>3 DEF Active, Idle

(* A command is one of those the project's owner may run.                  *)
LEMMA CommandFacts ==
    ASSUME FilesTyped, NEW p \in Runners, Active(p)
    PROVE  /\ Op(p) \in Guarded \cup Unguarded /\ Target(p) \in {"root", "member"}
           /\ Op(p) \in Mutations => Cmd(p).name \in Names
           /\ Op(p) \in {"add", "link"} => Cmd(p).section \in Sections
           /\ run[p].kind \in {"bpm", "npm", "yarn", "none"}
           /\ run[p].lock \in SomeLocks /\ run[p].lockWas \in SomeLocks
           /\ run[p].doc \in Docs /\ run[p].docWas \in Docs
           /\ run[p].alone \in BOOLEAN
  <1>1. run[p] \in Running
    BY RunShapes
  <1>2. run[p].cmd \in Commands
    BY <1>1 DEF Running
  <1>3. /\ Op(p) \in Guarded \cup Unguarded /\ Target(p) \in {"root", "member"}
        /\ Op(p) \in Mutations => Cmd(p).name \in Names
        /\ Op(p) \in {"add", "link"} => Cmd(p).section \in Sections
    BY <1>2, ProjectAssumption DEF Op, Cmd, Target, Mutations
  <1> QED
    BY <1>1, <1>3 DEF Running

(* Going on changes the place and nothing else of the record.              *)
LEMMA Moves ==
    ASSUME FilesTyped, NEW p \in Runners, Active(p), NEW place \in Places, Move(p, place)
    PROVE  /\ Becomes(p, place)
           /\ run'[p].lock = run[p].lock /\ run'[p].doc = run[p].doc /\ run'[p].began = run[p].began
           /\ run'[p].docWas = run[p].docWas /\ run'[p].lockWas = run[p].lockWas
  <1>1. run[p] \in Running /\ run \in [Runners -> {Idle} \cup Running]
    BY RunShapes DEF FilesTyped
  <1>2. run' = [run EXCEPT ![p] = [run[p] EXCEPT !.at = place]]
    BY <1>1 DEF Move
  <1>3. [run[p] EXCEPT !.at = place] \in Running
    BY <1>1 DEF Running
  <1> QED
    BY <1>1, <1>2, <1>3 DEF Becomes, Running

(* A command that ends leaves no record.                                   *)
LEMMA Ends ==
    ASSUME FilesTyped, NEW p \in Runners, Active(p), run' = [run EXCEPT ![p] = Idle]
    PROVE  Ceases(p)
  BY DEF FilesTyped, Ceases

(* acquire_project_mutation_guard: the files found are remembered.         *)
LEMMA Acquires ==
    ASSUME FilesTyped, NEW p \in Runners, Acquire(p)
    PROVE  /\ Active(p) /\ Becomes(p, "edit") /\ run'[p].began = <<docs, locks>>
  <1>1. run[p] \in Running /\ run \in [Runners -> {Idle} \cup Running] /\ Active(p)
    BY RunShapes DEF FilesTyped, Acquire, Is, Active
  <1> DEFINE r == [run[p] EXCEPT !.at = "edit", !.began = <<docs, locks>>]
  <1>2. run' = [run EXCEPT ![p] = r]
    BY <1>1 DEF Acquire
  <1>3. r \in Running
    <2>1. <<docs, locks>> \in DocFiles \X LockFiles
      BY DEF FilesTyped
    <2>2. "edit" \in Places
      BY DEF Places, Holding
    <2> QED
      BY <1>1, <2>1, <2>2 DEF Running
  <1> QED
    BY <1>1, <1>2, <1>3 DEF Becomes, Running

(***************************************************************************)
(* Documents and locks.                                                    *)
(***************************************************************************)
(* A package.json is either declarations or cannot be read.                *)
LEMMA DeclarationsRead ==
    /\ \A d \in Declarations : Readable(d)
    /\ \A d \in Docs : Readable(d) => d \in Declarations
    /\ ~Readable(Broken)
  <1>1. PICK n \in Names : TRUE
    BY ProjectAssumption
  <1>2. ASSUME NEW d \in Declarations PROVE d # Broken
    BY <1>1, <1>2 DEF Declarations, Sections, Broken
  <1> QED
    BY <1>2 DEF Readable, Docs

(* A lock resolved from declarations is a lock.                            *)
LEMMA ReadableLocks ==
    ASSUME NEW k \in SomeLocks, Readable(k.root)
    PROVE  k # NoLock
  BY DeclarationsRead DEF NoLock, Readable

(* A fresh lock has the declarations it was resolved from.                 *)
LEMMA LocksMade ==
    ASSUME FilesTyped, NEW root \in Docs, NEW member \in Docs
    PROVE  /\ Lock(root, member, TRUE) \in SomeLocks
           /\ Lock(root, member, TRUE).root = root
           /\ Lock(root, member, TRUE).member = member
  BY DEF FilesTyped, Lock, SomeLocks

(* The split into sections does not change a lock whose declarations are   *)
(* those of package.json.                                                  *)
LEMMA LocksSplit ==
    ASSUME FilesTyped, NEW k \in SomeLocks
    PROVE  /\ Split(k) \in SomeLocks /\ Readable(Split(k).root)
           /\ Readable(docs.root) /\ docs.root = k.root => Split(k) = k
  <1> DEFINE root == [n \in Names |-> IF k.root[n] = "none" THEN "none" ELSE
                                      IF docs.root[n] \in {"dev", "optional"} THEN docs.root[n] ELSE "prod"]
  <1>1. root \in Declarations
    BY DEF Declarations, Sections
  <1>2. Split(k) = [k EXCEPT !.root = root]
    BY DEF Split
  <1> HIDE DEF root
  <1>3. Split(k) \in SomeLocks /\ Split(k).root = root
    BY <1>1, <1>2 DEF SomeLocks, Docs
  <1>4. ASSUME Readable(docs.root), docs.root = k.root PROVE Split(k) = k
    <2>1. docs.root \in Declarations
      BY <1>4, DeclarationsRead DEF FilesTyped, DocFiles
    <2>2. root = k.root
      BY <1>4, <2>1 DEF root, Declarations, Sections
    <2> QED
      BY <1>2, <2>2 DEF SomeLocks
  <1> QED
    BY <1>1, <1>3, <1>4, DeclarationsRead

(* Whatever is selected loads as a lock; a foreign one loads with          *)
(* declarations that can be read.                                          *)
LEMMA LocksLoaded ==
    ASSUME FilesTyped
    PROVE  /\ Kind \in {"bpm", "npm", "yarn", "none"}
           /\ \A kind : Loaded(kind) \in SomeLocks
           /\ \A kind \in {"npm", "yarn"} : Loads(kind) => Readable(Loaded(kind).root)
  <1>1. Kind \in {"bpm", "npm", "yarn", "none"}
    BY DEF Kind
  <1>2. locks.bpm \in SomeLocks /\ locks.npm \in SomeLocks /\ locks.yarn \in SomeLocks /\ docs.root \in Docs
    BY DEF FilesTyped, LockFiles, DocFiles
  <1>3. NoLock \in SomeLocks
    BY DEF NoLock, SomeLocks, Docs
  <1>4. [locks.yarn EXCEPT !.root = docs.root] \in SomeLocks /\ [locks.yarn EXCEPT !.root = docs.root].root = docs.root
    BY <1>2 DEF SomeLocks
  <1>5. Split(locks.npm) \in SomeLocks /\ Readable(Split(locks.npm).root)
    BY <1>2, LocksSplit
  <1>6. ASSUME NEW kind PROVE Loaded(kind) \in SomeLocks
    BY <1>2, <1>3, <1>4, <1>5 DEF Loaded
  <1>7. ASSUME Loads("yarn") PROVE Readable(Loaded("yarn").root)
    BY <1>4, <1>7 DEF Loads, Loaded
  <1>8. Readable(Loaded("npm").root)
    BY <1>5 DEF Loaded
  <1> QED
    BY <1>1, <1>6, <1>7, <1>8

(* add_dependency and remove_dependency change one name only.              *)
LEMMA EditedDocs ==
    ASSUME FilesTyped, NEW p \in Runners, Active(p), Readable(Was(p))
    PROVE  /\ Edited(p) \in Declarations
           /\ \A n \in Names : n # Cmd(p).name => Edited(p)[n] = Was(p)[n]
           /\ Op(p) \notin Mutations => Edited(p) = Was(p)
  <1>1. Was(p) \in Declarations
    BY CommandFacts, DeclarationsRead DEF Was, FilesTyped, DocFiles
  <1>2. CASE Op(p) \in {"add", "link"}
    BY <1>1, <1>2, CommandFacts DEF Edited, AddDependency, Declarations, Mutations
  <1>3. CASE Op(p) = "remove"
    BY <1>1, <1>3, CommandFacts DEF Edited, RemoveDependency, Declarations, Mutations, Sections
  <1>4. CASE Op(p) \notin Mutations
    BY <1>1, <1>4 DEF Edited, Mutations
  <1> QED
    BY <1>2, <1>3, <1>4 DEF Mutations

(* A command that is not refused has its edit in memory.                   *)
LEMMA Edits ==
    ASSUME FilesTyped, NEW p \in Runners, Edit(p), ~Refused(p)
    PROVE  /\ Active(p) /\ Becomes(p, "resolve") /\ Readable(Was(p))
           /\ run'[p].doc = Edited(p) /\ run'[p].began = run[p].began
  <1>1. run[p] \in Running /\ run \in [Runners -> {Idle} \cup Running] /\ Active(p) /\ Readable(Was(p))
    BY RunShapes DEF FilesTyped, Edit, Is, Active, Refused
  <1>2. Edited(p) \in Docs /\ Loaded(Kind) \in SomeLocks /\ "resolve" \in Places
    BY <1>1, EditedDocs, LocksLoaded DEF Places, Holding, Docs
  <1> DEFINE r == [run[p] EXCEPT !.at = "resolve", !.doc = Edited(p), !.lock = Loaded(Kind)]
  <1>3. run' = [run EXCEPT ![p] = r]
    BY <1>1 DEF Edit
  <1>4. r \in Running
    BY <1>1, <1>2 DEF Running
  <1> QED
    BY <1>1, <1>3, <1>4 DEF Becomes, Running

(* When a command's resolution succeeds.                                   *)
Resolves(p) ==
    /\ Readable(IF Target(p) = "member" THEN docs.root ELSE run[p].doc) /\ Readable(docs.member)
    /\ Op(p) = "link" => Resolved(Cmd(p).name) # NoTarget
(* The lock that is resolved has the declarations of the root manifest it  *)
(* was resolved from, the edited one or the one on disk.                   *)
LEMMA ResolvesLock ==
    ASSUME FilesTyped, NEW p \in Runners, Resolve(p), Resolves(p)
    PROVE  /\ Active(p)
           /\ Becomes(p, IF Op(p) \in {"upgrade", "dedupe"} THEN "replace" ELSE "capture")
           /\ run'[p].doc = run[p].doc /\ run'[p].began = run[p].began
           /\ run'[p].lock.root = IF Target(p) = "member" THEN docs.root ELSE run[p].doc
           /\ Readable(run'[p].lock.root)
           /\ UNCHANGED <<guard, settled, shown>>
  <1>1. run[p] \in Running /\ run \in [Runners -> {Idle} \cup Running] /\ Active(p)
    BY RunShapes DEF FilesTyped, Resolve, Is, Active
  <1> DEFINE root == IF Target(p) = "member" THEN docs.root ELSE run[p].doc
             other == IF Target(p) = "member" THEN run[p].doc ELSE docs.member
             fresh == Lock(root, other, TRUE)
             place == IF Op(p) \in {"upgrade", "dedupe"} THEN "replace" ELSE "capture"
             r == [run[p] EXCEPT !.lock = UpgradeLock(p, fresh), !.at = place]
  <1>2. root \in Docs /\ other \in Docs /\ run[p].lock \in SomeLocks /\ place \in Places
    BY <1>1, CommandFacts DEF FilesTyped, DocFiles, Places, Holding
  <1>3. fresh \in SomeLocks /\ fresh.root = root
    BY <1>2, LocksMade
  <1>4. /\ run' = [run EXCEPT ![p].lock = UpgradeLock(p, fresh), ![p].at = place]
        /\ UNCHANGED <<guard, settled, shown>>
    BY DEF Resolve, Resolves
  <1> HIDE DEF fresh, root, other, place
  <1>5. UpgradeLock(p, fresh) \in SomeLocks /\ UpgradeLock(p, fresh).root = root
    BY <1>2, <1>3 DEF UpgradeLock, SomeLocks
  <1>6. run' = [run EXCEPT ![p] = r]
    BY <1>1, <1>4
  <1>7. r \in Running
    BY <1>1, <1>2, <1>5 DEF Running
  <1>8. Readable(root)
    BY DEF Resolves, root
  <1>9. Becomes(p, place) /\ run'[p].doc = run[p].doc /\ run'[p].began = run[p].began /\ run'[p].lock.root = root
    BY <1>1, <1>2, <1>5, <1>6, <1>7 DEF Becomes, Running
  <1> QED
    BY <1>1, <1>4, <1>8, <1>9 DEF root, place

(* A resolution that does not succeed ends the command.                    *)
LEMMA ResolveEnds ==
    ASSUME NEW p \in Runners, Resolve(p), ~Resolves(p)
    PROVE  Refuse(p)
  BY DEF Resolve, Resolves

(* publish remembers both files as they are.                               *)
LEMMA Captures ==
    ASSUME FilesTyped, NEW p \in Runners, Capture(p)
    PROVE  /\ Active(p) /\ Becomes(p, "lock")
           /\ run'[p].doc = run[p].doc /\ run'[p].lock = run[p].lock /\ run'[p].began = run[p].began
           /\ run'[p].docWas = docs[Target(p)] /\ run'[p].lockWas = locks[Slot(run[p].kind)]
  <1>1. run[p] \in Running /\ run \in [Runners -> {Idle} \cup Running] /\ Active(p)
    BY RunShapes DEF FilesTyped, Capture, Is, Active
  <1>2. docs[Target(p)] \in Docs /\ locks[Slot(run[p].kind)] \in SomeLocks /\ "lock" \in Places
    BY <1>1, CommandFacts DEF FilesTyped, DocFiles, LockFiles, Slot, Places, Holding, Undoing
  <1> DEFINE r == [run[p] EXCEPT !.at = "lock", !.docWas = docs[Target(p)], !.lockWas = locks[Slot(run[p].kind)]]
  <1>3. run' = [run EXCEPT ![p] = r]
    BY <1>1 DEF Capture
  <1>4. r \in Running
    BY <1>1, <1>2 DEF Running
  <1> QED
    BY <1>1, <1>3, <1>4 DEF Becomes, Running

(* A command without the guard holds the lock it will write.               *)
LEMMA Spools ==
    ASSUME FilesTyped, NEW p \in Runners, Active(p), NEW lock \in SomeLocks,
           run' = [run EXCEPT ![p].at = "spool", ![p].lock = lock]
    PROVE  Becomes(p, "spool") /\ run'[p].lock = lock
  <1>1. run[p] \in Running /\ run \in [Runners -> {Idle} \cup Running]
    BY RunShapes DEF FilesTyped
  <1> DEFINE r == [run[p] EXCEPT !.at = "spool", !.lock = lock]
  <1>2. run' = [run EXCEPT ![p] = r]
    BY <1>1
  <1>3. r \in Running
    BY <1>1 DEF Running, Places, Spooling
  <1> QED
    BY <1>1, <1>2, <1>3 DEF Becomes, Running

(***************************************************************************)
(* What a step of one command leaves alone of the others.                  *)
(***************************************************************************)
(* What the invariant says of one command; what a step of p may do to the  *)
(* locks; and what it may do at all: take or let go of the guard, and      *)
(* write only with the guard or without needing it.                        *)
Fits(p) == PlaceFits(p) /\ KindStays(p) /\ AloneFits(p)
Steps(p) == Ceases(p) \/ \E place \in Places : Becomes(p, place)
LocksEvolve(p) ==
    /\ locks'.npm # NoLock <=> locks.npm # NoLock
    /\ locks.npm # NoLock /\ locks.bpm # NoLock => locks'.bpm # NoLock
    /\ locks.npm # NoLock /\ locks.bpm = NoLock /\ locks'.bpm # NoLock => Op(p) \in Unguarded
Reaches(p) ==
    /\ guard' = guard \/ guard \in {p, Nobody}
    /\ \/ UNCHANGED <<docs, locks, spool>> /\ \A q \in Runners : q # p => fd'[q] = fd[q]
       \/ guard = p /\ Op(p) \in Guarded
       \/ Op(p) \in Unguarded
    /\ LocksEvolve(p)

(* A step makes no new overlap.                                            *)
LEMMA OverlapStays ==
    ASSUME NoOverlap, NEW p \in Runners, Steps(p)
    PROVE  NoOverlap'
  <1>1. /\ \A q \in Runners : q # p => run'[q] = run[q]
        /\ Active(p)
        /\ \/ run'[p] = Idle
           \/ run'[p].cmd = run[p].cmd /\ run'[p].alone = run[p].alone
    BY DEF Steps, Becomes, Ceases
  <1>2. ASSUME NEW q \in Runners, NEW r \in Runners, Overlaps(q, r)' PROVE Overlaps(q, r) /\ run'[q].alone = run[q].alone
    BY <1>1, <1>2 DEF Overlaps, Active, Op, Cmd, Idle
  <1> QED
    BY <1>2 DEF NoOverlap

(* A step takes the guard from nobody.                                     *)
LEMMA OthersPlaced ==
    ASSUME NEW p \in Runners, NEW q \in Runners, q # p, PlaceFits(q), run'[q] = run[q],
           guard' = guard \/ guard \in {p, Nobody}
    PROVE  PlaceFits(q)'
  <1>1. guard = q => guard' = q
    BY ProjectAssumption
  <1> QED
    BY <1>1 DEF PlaceFits, Op, Cmd, Is

(* A step does not change which lock another command has found.            *)
LEMMA OthersKind ==
    ASSUME NoOverlap, NEW p \in Runners, NEW q \in Runners, q # p, KindStays(q), run'[q] = run[q],
           Active(p), LocksEvolve(p)
    PROVE  KindStays(q)'
  <1>1. Active(q)' => Active(q)
    BY DEF Active
  <1>2. Active(q) /\ run[q].alone => Op(p) \notin Unguarded
    BY DEF NoOverlap, Overlaps
  <1> QED
    BY <1>1, <1>2 DEF KindStays, LocksEvolve, Op, Cmd

(* A step does not disturb another command that is alone: either it writes *)
(* nothing, or it holds the guard and the other is still waiting for it.   *)
LEMMA OthersAlone ==
    ASSUME FilesTyped, NoOverlap, NEW p \in Runners, NEW q \in Runners, q # p, PlaceFits(q), AloneFits(q),
           run'[q] = run[q], Active(p), Reaches(p)
    PROVE  AloneFits(q)'
  <1>1. SUFFICES ASSUME Active(q), run[q].alone PROVE Undone(q)' /\ ResolvedWell(q)' /\ Replayed(q)'
    BY DEF AloneFits, Active
  <1>2. Undone(q) /\ ResolvedWell(q) /\ Replayed(q)
    BY <1>1 DEF AloneFits
  <1>3. Op(p) \notin Unguarded /\ Op(q) \notin Unguarded
    BY <1>1 DEF NoOverlap, Overlaps
  <1>4. CASE UNCHANGED <<docs, locks, spool>> /\ fd'[q] = fd[q]
    <2>1. Undone(q)'
      BY <1>2, <1>4 DEF Undone, Target, Cmd, Is, Slot
    <2>2. ResolvedWell(q)'
      BY <1>2, <1>4 DEF ResolvedWell, Target, Cmd, Is, Slot, Op
    <2>3. Replayed(q)'
      BY <1>2, <1>4 DEF Replayed, Is, Op, Cmd, Kind, Loaded, Split, FrozenAccepts, Drifted
    <2> QED
      BY <2>1, <2>2, <2>3
  <1>5. CASE guard = p /\ Op(p) \in Guarded
    <2>1. run[q].at \notin Holding /\ ~(Is(q, "materialize") /\ Op(q) \in Guarded)
      BY <1>5 DEF PlaceFits
    <2>2. run[q].at \notin {"found"} \cup Spooling
      BY <1>3 DEF PlaceFits
    <2> QED
      BY <1>3, <2>1, <2>2 DEF Undone, ResolvedWell, Replayed, Holding, Undoing, Spooling, Is, Op, Cmd
  <1> QED
    BY <1>3, <1>4, <1>5 DEF Reaches

(* What the invariant says of the others, after a step of p.               *)
LEMMA OthersFit ==
    ASSUME FilesTyped, NoOverlap, NEW p \in Runners, Active(p), Reaches(p),
           \A q \in Runners : Fits(q), \A q \in Runners : q # p => run'[q] = run[q]
    PROVE  \A q \in Runners : q # p => Fits(q)'
  BY OthersPlaced, OthersKind, OthersAlone DEF Fits, Reaches

(* Nothing is said of a process without a command.                         *)
LEMMA CeasedFits ==
    ASSUME NEW p \in Runners, Ceases(p)
    PROVE  Fits(p)'
  <1>1. run'[p].at = "idle"
    BY DEF Ceases, Idle
  <1>2. PlaceFits(p)'
    BY <1>1 DEF PlaceFits, Holding, Undoing, Spooling, Is
  <1> QED
    BY <1>1, <1>2 DEF Fits, KindStays, AloneFits, Active

(***************************************************************************)
(* What is owed, after a step.                                             *)
(***************************************************************************)
(* When nothing is owed, there is nothing to show.                         *)
LEMMA NothingOwed ==
    ASSUME settled' = "nothing", ~shown'
    PROVE  OwedHolds'
  BY DEF OwedHolds, OwedBefore, Agreed
(* A command that goes on, without having written anything or on its way   *)
(* to a place where what it owes is still open.                            *)
LEMMA StillOwed ==
    ASSUME OwedHolds, NEW p \in Runners, NEW place \in Places, Becomes(p, place),
           UNCHANGED <<settled, shown, view>>,
           place \in Dirty \/ (run[p].at \notin Dirty /\ UNCHANGED <<docs, locks>>),
           AllAlone /\ place \in Written => OwedBefore(p)'
    PROVE  OwedHolds'
  <1>1. /\ run'[p].at = place /\ run'[p].alone = run[p].alone /\ Active(p)
        /\ \A q \in Runners : q # p => run'[q] = run[q]
    BY DEF Becomes
  <1>2. SUFFICES ASSUME AllAlone'
                 PROVE  /\ (\A q \in Runners : run'[q].at \notin Dirty) => Agreed(docs, locks)'
                        /\ \A q \in Runners : run'[q].at \in Written => OwedBefore(q)'
    BY DEF OwedHolds
  <1>3. "idle" \notin Places
    BY DEF Places, Holding, Undoing, Spooling
  <1>4. AllAlone
    BY <1>1, <1>2, <1>3 DEF AllAlone, Active
  <1>5. ASSUME \A q \in Runners : run'[q].at \notin Dirty PROVE Agreed(docs, locks)'
    <2>1. place \notin Dirty
      BY <1>1, <1>5
    <2>2. run[p].at \notin Dirty /\ UNCHANGED <<docs, locks>>
      BY <2>1
    <2>3. \A q \in Runners : run[q].at \notin Dirty
      BY <1>1, <1>5, <2>2
    <2> QED
      BY <1>4, <2>2, <2>3 DEF OwedHolds, Agreed
  <1>6. ASSUME NEW q \in Runners, run'[q].at \in Written PROVE OwedBefore(q)'
    <2>1. CASE q = p
      BY <1>1, <1>4, <1>6, <2>1
    <2>2. CASE q # p
      BY <1>1, <1>4, <1>6, <2>2 DEF OwedHolds, OwedBefore, Agreed
    <2> QED
      BY <2>1, <2>2
  <1> QED
    BY <1>5, <1>6

(* A command that ends. *)
LEMMA OwedAtEnd ==
    ASSUME OwedHolds, NEW p \in Runners, Ceases(p),
           run[p].alone \in BOOLEAN,
           ~run[p].alone => settled' = "nothing" /\ ~shown',
           AllAlone /\ (\A q \in Runners : q # p => run[q].at \notin Dirty) => Agreed(docs, locks)',
           \/ UNCHANGED <<settled, shown, view>>
           \/ \A q \in Runners : q # p => run[q].at \notin Written
           \/ settled' = "nothing" /\ ~shown'
    PROVE  OwedHolds'
  <1>1. /\ run'[p].at = "idle" /\ Active(p)
        /\ \A q \in Runners : q # p => run'[q] = run[q]
    BY DEF Ceases, Idle
  <1>2. CASE settled' = "nothing" /\ ~shown'
    BY <1>2, NothingOwed
  <1>3. CASE ~(settled' = "nothing" /\ ~shown')
    <2>1. run[p].alone
      BY <1>3
    <2>2. SUFFICES ASSUME AllAlone'
                   PROVE  /\ (\A q \in Runners : run'[q].at \notin Dirty) => Agreed(docs, locks)'
                          /\ \A q \in Runners : run'[q].at \in Written => OwedBefore(q)'
      BY DEF OwedHolds
    <2>3. AllAlone
      BY <1>1, <2>1, <2>2 DEF AllAlone, Active
    <2>4. (\A q \in Runners : run'[q].at \notin Dirty) => Agreed(docs, locks)'
      BY <1>1, <2>3
    <2>5. ASSUME NEW q \in Runners, run'[q].at \in Written PROVE OwedBefore(q)'
      <3>1. q # p
        BY <1>1, <2>5 DEF Written
      <3>2. run'[q] = run[q] /\ run[q].at \in Written
        BY <1>1, <2>5, <3>1
      <3>3. UNCHANGED <<settled, shown, view>>
        BY <1>3, <3>1, <3>2
      <3> QED
        BY <2>3, <3>2, <3>3 DEF OwedHolds, OwedBefore, Agreed
    <2> QED
      BY <2>4, <2>5
  <1> QED
    BY <1>2, <1>3

(***************************************************************************)
(* What the edits asked for, after a step.                                 *)
(***************************************************************************)
(* A step that leaves the manifests alone. *)
LEMMA EditsStay ==
    ASSUME EditsKept, NEW p \in Runners, \A q \in Runners : q # p => run'[q] = run[q],
           kept' => kept /\ UNCHANGED <<docs, asked>> /\ EditKept(p)',
           kept' /\ run[p].at \in Restoring => run'[p].at \in Restoring
    PROVE  EditsKept'
  <1>1. SUFFICES ASSUME kept' PROVE NoLostEdit' /\ \A q \in Runners : EditKept(q)'
    BY DEF EditsKept
  <1>2. NoLostEdit /\ (\A q \in Runners : EditKept(q)) /\ UNCHANGED <<docs, asked>> /\ kept /\ EditKept(p)'
    BY <1>1 DEF EditsKept
  <1>3. ASSUME NEW q \in Runners, q # p PROVE EditKept(q)'
    BY <1>2, <1>3 DEF EditKept, Cmd, Target
  <1>4. NoLostEdit'
    BY <1>1, <1>2 DEF NoLostEdit
  <1> QED
    BY <1>2, <1>3, <1>4

(* A step of the guard's holder that writes a manifest. *)
LEMMA EditsWritten ==
    ASSUME NEW p \in Runners, guard = p, \A q \in Runners : q # p => PlaceFits(q) /\ run'[q] = run[q],
           kept' => EditKept(p)',
           kept' /\ run'[p].at \notin Restoring => docs' = asked'
    PROVE  EditsKept'
  <1>1. SUFFICES ASSUME kept' PROVE NoLostEdit' /\ \A q \in Runners : EditKept(q)'
    BY DEF EditsKept
  <1>2. ASSUME NEW q \in Runners, q # p PROVE EditKept(q)'
    <2>1. run'[q].at \notin Holding
      BY <1>2 DEF PlaceFits
    <2> QED
      BY <2>1 DEF EditKept, Holding, Undoing, Restoring
  <1> QED
    BY <1>1, <1>2 DEF NoLostEdit

(***************************************************************************)
(* One step of a command, put together.                                    *)
(***************************************************************************)
(* The parts of the invariant, combined.                                   *)
LEMMA StepKeeps ==
    ASSUME PInv, NEW p \in Runners, Active(p), Steps(p), Reaches(p), FilesTyped', Fits(p)', EditsKept', OwedHolds'
    PROVE  PInv'
  <1>1. \A q \in Runners : q # p => run'[q] = run[q]
    BY DEF Steps, Becomes, Ceases
  <1>2. \A q \in Runners : Fits(q)
    BY DEF PInv, Fits
  <1>3. \A q \in Runners : q # p => Fits(q)'
    BY <1>1, <1>2, OthersFit DEF PInv
  <1>4. NoOverlap'
    BY OverlapStays DEF PInv
  <1> QED
    BY <1>3, <1>4 DEF PInv, Fits

(* A command that fails before it wrote anything. *)
LEMMA RefuseKeeps ==
    ASSUME PInv, NEW p \in Runners, Active(p), run[p].at \notin Dirty, Refuse(p),
           UNCHANGED <<docs, locks, spool, view, registry, ghosts>>,
           fd' = fd \/ fd' = [fd EXCEPT ![p] = "none"]
    PROVE  PInv'
  <1> USE DEF ghosts
  <1>1. FilesTyped /\ EditsKept /\ OwedHolds
    BY DEF PInv
  <1>2. /\ run' = [run EXCEPT ![p] = Idle]
        /\ guard' = IF guard = p THEN Nobody ELSE guard
        /\ settled' = IF run[p].alone THEN settled ELSE "nothing"
        /\ shown' = (run[p].alone /\ shown)
    BY DEF Refuse, End
  <1>3. Ceases(p) /\ Steps(p)
    BY <1>1, <1>2, Ends DEF Steps
  <1>4. run[p].alone \in BOOLEAN
    BY <1>1, CommandFacts
  <1>5. FilesTyped'
    BY <1>1, <1>2, <1>3, <1>4 DEF FilesTyped, Ceases, Owed
  <1>6. Reaches(p)
    BY <1>1, <1>2 DEF Reaches, LocksEvolve, FilesTyped
  <1>7. EditsKept'
    <2>1. run'[p].at = "idle" /\ \A q \in Runners : q # p => run'[q] = run[q]
      BY <1>3 DEF Ceases, Idle
    <2>2. run[p].at \notin Restoring
      BY DEF Dirty, Restoring
    <2>3. EditKept(p)'
      BY <2>1 DEF EditKept, Restoring
    <2> QED
      BY <1>1, <2>1, <2>2, <2>3, EditsStay
  <1>8. OwedHolds'
    <2>1. CASE run[p].alone
      <3>1. UNCHANGED <<settled, shown, view>>
        BY <1>1, <1>2, <2>1 DEF FilesTyped
      <3>2. AllAlone /\ (\A q \in Runners : q # p => run[q].at \notin Dirty) => Agreed(docs, locks)'
        BY <1>1, <3>1 DEF OwedHolds, Agreed
      <3> QED
        BY <1>1, <1>3, <1>4, <2>1, <3>1, <3>2, OwedAtEnd
    <2>2. CASE ~run[p].alone
      BY <1>2, <1>4, <2>2, NothingOwed
    <2> QED
      BY <2>1, <2>2
  <1> QED
    BY <1>3, <1>5, <1>6, <1>7, <1>8, CeasedFits, StepKeeps

(* A command that goes on and writes neither manifest nor lock. *)
LEMMA MoveKeeps ==
    ASSUME PInv, NEW p \in Runners, NEW place \in Places, Active(p), Becomes(p, place),
           run[p].at \notin Dirty, place \notin Dirty \/ place = "materialize",
           UNCHANGED <<docs, locks, view, registry, ghosts, settled, shown>>,
           guard' \in Runners \cup {Nobody}, guard' = guard \/ guard \in {p, Nobody},
           spool' \in SomeLocks, spool' = spool \/ Op(p) \in Unguarded,
           fd' = fd \/ fd' = [fd EXCEPT ![p] = "spool"] \/ fd' = [fd EXCEPT ![p] = "none"],
           kept => EditKept(p)', PlaceFits(p)', run[p].alone => AloneFits(p)',
           run'[p].at \in Undoing /\ locks.npm # NoLock => run'[p].lockWas # NoLock
    PROVE  PInv'
  <1> USE DEF ghosts
  <1>1. FilesTyped /\ EditsKept /\ OwedHolds /\ KindStays(p)
    BY DEF PInv
  <1>2. FilesTyped'
    BY <1>1 DEF FilesTyped, Becomes
  <1>3. /\ \A q \in Runners : q # p => run'[q] = run[q]
        /\ run'[p].alone = run[p].alone /\ run'[p].kind = run[p].kind /\ run'[p].cmd = run[p].cmd
    BY DEF Becomes
  <1>4. Reaches(p) /\ Steps(p)
    BY <1>1 DEF Reaches, LocksEvolve, FilesTyped, Steps
  <1>5. EditsKept'
    <2>1. run[p].at \notin Restoring
      BY DEF Dirty, Restoring
    <2> QED
      BY <1>1, <1>3, <2>1, EditsStay
  <1>6. place \notin Written
    BY DEF Written, Dirty
  <1>7. OwedHolds'
    BY <1>1, <1>6, StillOwed DEF Dirty
  <1>8. KindStays(p)'
    BY <1>1, <1>3 DEF KindStays, Op, Cmd, Becomes
  <1>9. AloneFits(p)'
    BY <1>3 DEF AloneFits
  <1> QED
    BY <1>2, <1>4, <1>5, <1>7, <1>8, <1>9, StepKeeps DEF Fits

(* Taking the guard: the files are as owed, for nobody else can be in      *)
(* between.                                                                *)
LEMMA AcquireInv ==
    ASSUME PInv, NEW p \in Runners, Acquire(p)
    PROVE  PInv'
  <1>1. FilesTyped /\ PlaceFits(p)
    BY DEF PInv
  <1>2. Active(p) /\ Becomes(p, "edit") /\ run'[p].began = <<docs, locks>>
    BY <1>1, Acquires
  <1>3. /\ Is(p, "guard") /\ guard = Nobody /\ guard' = p /\ run'[p].at = "edit" /\ run'[p].cmd = run[p].cmd
        /\ UNCHANGED <<docs, locks, spool, view, registry, settled, shown, fd, ghosts>>
    BY <1>2 DEF Acquire, Becomes
  <1>4. PlaceFits(p)'
    BY <1>1, <1>3 DEF PlaceFits, Is, Op, Cmd, Undoing, Spooling
  <1>5. EditKept(p)'
    BY <1>3 DEF EditKept, Restoring
  <1>6. AloneFits(p)'
    BY <1>2, <1>3 DEF AloneFits, Undone, ResolvedWell, Replayed, Is, Undoing
  <1> QED
    BY <1>1, <1>2, <1>3, <1>4, <1>5, <1>6, MoveKeeps DEF Is, Dirty, Places, Holding, Undoing, FilesTyped, ghosts

(* Reading and editing the manifest in memory.                             *)
LEMMA EditInv ==
    ASSUME PInv, NEW p \in Runners, Edit(p)
    PROVE  PInv'
  <1>1. FilesTyped /\ PlaceFits(p) /\ AloneFits(p)
    BY DEF PInv
  <1>2. Is(p, "edit") /\ Active(p) /\ UNCHANGED <<docs, locks, spool, view, registry, fd, ghosts>>
    BY DEF Edit, Is, Active
  <1>3. CASE Refused(p)
    BY <1>2, <1>3, RefuseKeeps DEF Edit, Is, Dirty, ghosts
  <1>4. CASE ~Refused(p)
    <2>1. Becomes(p, "resolve") /\ Readable(Was(p)) /\ run'[p].doc = Edited(p) /\ run'[p].began = run[p].began
      BY <1>1, <1>4, Edits
    <2>2. UNCHANGED <<guard, settled, shown>>
      BY <1>4 DEF Edit
    <2>3. run'[p].at = "resolve" /\ run'[p].cmd = run[p].cmd
      BY <2>1 DEF Becomes
    <2>4. /\ \A n \in Names : n # Cmd(p).name => Edited(p)[n] = Was(p)[n]
          /\ Op(p) \notin Mutations => Edited(p) = Was(p)
      BY <1>1, <1>2, <2>1, EditedDocs
    <2>5. PlaceFits(p)'
      BY <1>1, <1>2, <2>2, <2>3 DEF PlaceFits, Is, Op, Cmd, Undoing, Spooling, Holding
    <2>6. EditKept(p)'
      BY <1>2, <2>1, <2>3, <2>4 DEF EditKept, Restoring, Was, Target, Cmd
    <2>7. ASSUME run[p].alone PROVE AloneFits(p)'
      BY <1>1, <1>2, <2>1, <2>3, <2>4, <2>7
      DEF AloneFits, Undone, ResolvedWell, Replayed, Is, Undoing, Was, Target, Cmd, Op
    <2> QED
      BY <1>1, <1>2, <2>1, <2>2, <2>3, <2>5, <2>6, <2>7, MoveKeeps
      DEF Is, Dirty, Places, Holding, Undoing, FilesTyped, ghosts
  <1> QED
    BY <1>3, <1>4

(* Resolving the edited manifests.                                         *)
LEMMA ResolveInv ==
    ASSUME PInv, NEW p \in Runners, Resolve(p)
    PROVE  PInv'
  <1>1. FilesTyped /\ PlaceFits(p) /\ AloneFits(p) /\ EditsKept
    BY DEF PInv
  <1>2. Is(p, "resolve") /\ Active(p) /\ UNCHANGED <<docs, locks, spool, view, registry, fd, ghosts>>
    BY DEF Resolve, Is, Active
  <1>3. CASE ~Resolves(p)
    BY <1>2, <1>3, ResolveEnds, RefuseKeeps DEF Is, Dirty, ghosts
  <1>4. CASE Resolves(p)
    <2> DEFINE place == IF Op(p) \in {"upgrade", "dedupe"} THEN "replace" ELSE "capture"
    <2>1. /\ Becomes(p, place)
          /\ run'[p].doc = run[p].doc /\ run'[p].began = run[p].began
          /\ run'[p].lock.root = IF Target(p) = "member" THEN docs.root ELSE run[p].doc
          /\ Readable(run'[p].lock.root)
          /\ UNCHANGED <<guard, settled, shown>>
      BY <1>1, <1>4, ResolvesLock
    <2>2. run'[p].at = place /\ run'[p].cmd = run[p].cmd
      BY <2>1 DEF Becomes
    <2>3. Op(p) \in Guarded /\ guard = p
      BY <1>1, <1>2 DEF PlaceFits, Is, Holding
    <2>4. PlaceFits(p)'
      BY <2>1, <2>2, <2>3 DEF PlaceFits, Is, Op, Cmd, Undoing, Spooling, Holding, Guarded, Mutations
    <2>5. kept => EditKept(p)'
      BY <1>1, <1>2, <2>1, <2>2 DEF EditsKept, EditKept, Restoring, Target, Cmd, Is, ghosts
    <2>6. ASSUME run[p].alone PROVE AloneFits(p)'
      <3>1. Undone(p) /\ ResolvedWell(p)
        BY <1>1, <1>2, <2>6 DEF AloneFits
      <3>2. Undone(p)'
        BY <1>2, <2>1, <2>2, <3>1 DEF Undone, Is, Undoing
      <3>3. Op(p) \notin Mutations => run[p].doc = docs[Target(p)]
        BY <1>2, <3>1 DEF ResolvedWell
      <3>4. Target(p) \in {"root", "member"}
        BY <1>1, <1>2, CommandFacts
      <3>5. ResolvedWell(p)'
        BY <1>2, <2>1, <2>2, <3>3, <3>4 DEF ResolvedWell, Is, Target, Op, Cmd, Mutations
      <3>6. Replayed(p)'
        BY <2>2 DEF Replayed, Is
      <3> QED
        BY <3>2, <3>5, <3>6 DEF AloneFits
    <2>7. place \in Places /\ place \notin Dirty /\ run[p].at \notin Dirty /\ place \notin Undoing
      BY <1>2 DEF Is, Dirty, Places, Holding, Undoing
    <2> HIDE DEF place
    <2> QED
      BY <1>1, <1>2, <2>1, <2>2, <2>4, <2>5, <2>6, <2>7, MoveKeeps DEF FilesTyped, ghosts
  <1> QED
    BY <1>3, <1>4

(* An npm project's lock is package-lock.json, every other one's bpm.lock. *)
LEMMA SlotTyped ==
    ASSUME FilesTyped, NEW p \in Runners, Active(p)
    PROVE  /\ Slot(run[p].kind) \in {"bpm", "npm"}
           /\ Slot(run[p].kind) = "npm" <=> run[p].kind = "npm"
  BY DEF Slot

(* Reading both files before they are replaced.                            *)
LEMMA CaptureInv ==
    ASSUME PInv, NEW p \in Runners, Capture(p)
    PROVE  PInv'
  <1>1. FilesTyped /\ PlaceFits(p) /\ AloneFits(p) /\ EditsKept /\ KindStays(p)
    BY DEF PInv
  <1>2. Is(p, "capture") /\ UNCHANGED <<docs, locks, spool, guard, view, registry, settled, shown, fd, ghosts>>
    BY DEF Capture
  <1>3. /\ Active(p) /\ Becomes(p, "lock")
        /\ run'[p].doc = run[p].doc /\ run'[p].lock = run[p].lock /\ run'[p].began = run[p].began
        /\ run'[p].docWas = docs[Target(p)] /\ run'[p].lockWas = locks[Slot(run[p].kind)]
    BY <1>1, Captures
  <1>4. run'[p].at = "lock" /\ run'[p].cmd = run[p].cmd /\ run'[p].kind = run[p].kind
    BY <1>3 DEF Becomes
  <1>5. PlaceFits(p)'
    BY <1>1, <1>2, <1>3, <1>4 DEF PlaceFits, Is, Op, Cmd, Undoing, Spooling, Holding
  <1>6. kept => EditKept(p)'
    BY <1>1, <1>2, <1>3, <1>4 DEF EditsKept, EditKept, Restoring, Target, Cmd, Is
  <1>7. locks.npm # NoLock => run'[p].lockWas # NoLock
    BY <1>1, <1>3 DEF KindStays, Slot
  <1>8. ASSUME run[p].alone PROVE AloneFits(p)'
    <2>1. Undone(p) /\ ResolvedWell(p)
      BY <1>1, <1>3, <1>8 DEF AloneFits
    <2>2. run[p].began = <<docs, locks>>
      BY <1>2, <2>1 DEF Undone, Is
    <2>3. [docs EXCEPT ![Target(p)] = docs[Target(p)]] = docs
      BY <1>1, <1>3, CommandFacts DEF FilesTyped, DocFiles
    <2>4. [locks EXCEPT ![Slot(run[p].kind)] = locks[Slot(run[p].kind)]] = locks
      BY <1>1, <1>3, SlotTyped DEF FilesTyped, LockFiles
    <2>5. Undone(p)'
      BY <1>2, <1>3, <1>4, <2>2, <2>3, <2>4 DEF Undone, Is, Undoing, Target, Cmd
    <2>6. ResolvedWell(p)'
      BY <1>2, <1>3, <1>4, <2>1 DEF ResolvedWell, Is, Target, Op, Cmd
    <2>7. Replayed(p)'
      BY <1>4 DEF Replayed, Is
    <2> QED
      BY <2>5, <2>6, <2>7 DEF AloneFits
  <1>9. run[p].at \notin Dirty /\ "lock" \notin Dirty /\ "lock" \in Places
    BY <1>2 DEF Is, Dirty, Places, Holding, Undoing
  <1> QED
    BY <1>1, <1>2, <1>3, <1>4, <1>5, <1>6, <1>7, <1>8, <1>9, MoveKeeps DEF FilesTyped, ghosts

(***************************************************************************)
(* Steps of the command that holds the guard and writes.                   *)
(***************************************************************************)
(* Nobody else has written anything. *)
LEMMA SoleWriter ==
    ASSUME PInv, NEW p \in Runners, guard = p, NEW q \in Runners, q # p
    PROVE  /\ run[q].at \notin Holding /\ run[q].at \notin Restoring
           /\ Active(p) /\ run[p].alone => run[q].at \notin Dirty
  <1>1. FilesTyped /\ PlaceFits(q) /\ NoOverlap
    BY DEF PInv
  <1>2. run[q].at \notin Holding
    BY <1>1 DEF PlaceFits
  <1>3. ASSUME Active(p), run[p].alone, Is(q, "materialize") PROVE FALSE
    <2>1. Active(q)
      BY <1>3 DEF Is, Active
    <2>2. Op(q) \in Guarded \cup Unguarded
      BY <1>1, <2>1, CommandFacts
    <2>3. Op(q) \notin Unguarded
      BY <1>1, <1>3, <2>1 DEF NoOverlap, Overlaps
    <2> QED
      BY <1>1, <1>3, <2>2, <2>3 DEF PlaceFits
  <1> QED
    BY <1>2, <1>3 DEF Holding, Undoing, Restoring, Dirty, Is

(* Replacing the lock in the slot of the kind found at the beginning.      *)
LEMMA LockReplaced ==
    ASSUME FilesTyped, NEW p \in Runners, Active(p), KindStays(p), NEW lock \in SomeLocks,
           locks.npm # NoLock => lock # NoLock, Replaces(p, lock)
    PROVE  /\ locks' = [locks EXCEPT ![Slot(run[p].kind)] = lock] /\ locks' \in LockFiles
           /\ locks'[Slot(run[p].kind)] = lock
           /\ fd' \in [Runners -> {"none", "spool", "lock", "gone"}]
           /\ LocksEvolve(p)
           /\ run[p].kind = "npm" => locks'.npm # NoLock /\ locks'.bpm = locks.bpm
           /\ locks'.npm # NoLock /\ run[p].kind = "bpm" => locks'.bpm # NoLock
  <1>1. locks' = [locks EXCEPT ![Slot(run[p].kind)] = lock]
    BY DEF Replaces
  <1>2. locks \in LockFiles /\ Slot(run[p].kind) \in {"bpm", "npm"}
    BY SlotTyped DEF FilesTyped
  <1>3. locks' \in LockFiles /\ locks'[Slot(run[p].kind)] = lock
    BY <1>1, <1>2 DEF LockFiles
  <1>4. fd' \in [Runners -> {"none", "spool", "lock", "gone"}]
    BY DEF Replaces, FilesTyped, Replaced
  <1>5. CASE run[p].kind = "npm"
    <2>1. locks.npm # NoLock /\ locks'.npm = lock /\ locks'.bpm = locks.bpm
      BY <1>1, <1>2, <1>5 DEF KindStays, Slot, LockFiles
    <2> QED
      BY <1>1, <1>3, <1>4, <1>5, <2>1 DEF LocksEvolve
  <1>6. CASE run[p].kind # "npm"
    <2>1. locks'.bpm = lock /\ locks'.npm = locks.npm
      BY <1>1, <1>2, <1>6 DEF Slot, LockFiles
    <2>2. locks.npm # NoLock => run[p].kind = "bpm" /\ locks.bpm # NoLock
      BY <1>6 DEF KindStays
    <2> QED
      BY <1>1, <1>3, <1>4, <1>6, <2>1, <2>2 DEF LocksEvolve
  <1> QED
    BY <1>5, <1>6

(* A step of the guard's holder that writes and goes on.                   *)
LEMMA WriterKeeps ==
    ASSUME PInv, NEW p \in Runners, NEW place \in Dirty, Active(p), Becomes(p, place),
           guard = p, guard' = guard, Op(p) \in Guarded,
           UNCHANGED <<view, settled, shown, registry, spool, kept>>,
           docs' \in DocFiles, locks' \in LockFiles, fd' \in [Runners -> {"none", "spool", "lock", "gone"}],
           LocksEvolve(p), EditsKept', PlaceFits(p)', KindStays(p)', run[p].alone => AloneFits(p)',
           AllAlone /\ place \in Written => OwedBefore(p)'
    PROVE  PInv'
  <1>1. FilesTyped /\ OwedHolds
    BY DEF PInv
  <1>2. place \in Places /\ run'[p].alone = run[p].alone
    BY DEF Becomes
  <1>3. FilesTyped'
    BY <1>1 DEF FilesTyped, Becomes
  <1>4. Reaches(p) /\ Steps(p)
    BY <1>2 DEF Reaches, Steps
  <1>5. OwedHolds'
    BY <1>1, <1>2, StillOwed
  <1>6. AloneFits(p)'
    BY <1>2 DEF AloneFits
  <1> QED
    BY <1>3, <1>4, <1>5, <1>6, StepKeeps DEF Fits

(* What was owed when the guard was taken, as long as the owner is alone.  *)
LEMMA OwedWhenBegun ==
    ASSUME PInv, NEW p \in Runners, Active(p), AllAlone, guard = p,
           Is(p, "lock") \/ run[p].at \in Written, run'[p].began = run[p].began,
           UNCHANGED <<settled, shown, view>>
    PROVE  OwedBefore(p)'
  <1>1. run[p].alone /\ OwedHolds /\ AloneFits(p)
    BY DEF AllAlone, PInv
  <1>2. CASE run[p].at \in Written
    BY <1>1, <1>2 DEF OwedHolds, OwedBefore, Agreed
  <1>3. CASE Is(p, "lock")
    <2>1. run[p].began = <<docs, locks>>
      BY <1>1, <1>3 DEF AloneFits, Undone, Is
    <2>2. \A q \in Runners : run[q].at \notin Dirty
      BY <1>1, <1>3, SoleWriter DEF Is, Dirty
    <2> QED
      BY <1>1, <2>1, <2>2 DEF OwedHolds, OwedBefore, Agreed
  <1> QED
    BY <1>2, <1>3

(* Publishing the lock, synchronised or not.                               *)
LEMMA PublishLockInv ==
    ASSUME PInv, NEW p \in Runners, PublishLock(p)
    PROVE  PInv'
  <1>1. FilesTyped /\ PlaceFits(p) /\ AloneFits(p) /\ EditsKept /\ KindStays(p)
    BY DEF PInv
  <1>2. /\ Is(p, "lock") /\ Active(p) /\ Replaces(p, run[p].lock)
        /\ UNCHANGED <<docs, spool, guard, view, registry, settled, shown, ghosts>>
        /\ Move(p, "manifest") \/ Move(p, "restoreLock")
    BY DEF PublishLock, Is, Active
  <1>3. guard = p /\ Op(p) \in Mutations /\ Op(p) \in Guarded /\ Readable(run[p].lock.root)
    BY <1>1, <1>2 DEF PlaceFits, Is, Holding, Undoing
  <1>4. /\ locks' = [locks EXCEPT ![Slot(run[p].kind)] = run[p].lock] /\ locks' \in LockFiles
        /\ locks'[Slot(run[p].kind)] = run[p].lock
        /\ fd' \in [Runners -> {"none", "spool", "lock", "gone"}]
        /\ LocksEvolve(p)
        /\ run[p].kind = "npm" => locks'.npm # NoLock /\ locks'.bpm = locks.bpm
        /\ locks'.npm # NoLock /\ run[p].kind = "bpm" => locks'.bpm # NoLock
    BY <1>1, <1>2, <1>3, CommandFacts, ReadableLocks, LockReplaced
  <1>5. ASSUME NEW place \in {"manifest", "restoreLock"}, Move(p, place) PROVE PInv'
    <2>1. place \in Places /\ place \in Dirty
      BY DEF Places, Holding, Undoing, Dirty
    <2>2. /\ Becomes(p, place)
          /\ run'[p].lock = run[p].lock /\ run'[p].doc = run[p].doc /\ run'[p].began = run[p].began
          /\ run'[p].docWas = run[p].docWas /\ run'[p].lockWas = run[p].lockWas
      BY <1>1, <1>2, <1>5, <2>1, Moves
    <2>3. /\ run'[p].at = place /\ run'[p].cmd = run[p].cmd /\ run'[p].kind = run[p].kind
          /\ run'[p].alone = run[p].alone /\ \A q \in Runners : q # p => run'[q] = run[q]
      BY <2>2 DEF Becomes
    <2>4. PlaceFits(p)'
      BY <1>2, <1>3, <2>2, <2>3 DEF PlaceFits, Is, Op, Cmd, Undoing, Spooling, Holding
    <2>5. KindStays(p)'
      BY <1>1, <1>2, <1>4, <2>2, <2>3 DEF KindStays, LocksEvolve, Is, Op, Cmd, Undoing
    <2>6. EditsKept'
      <3>1. ASSUME kept PROVE EditKept(p)'
        <4>1. EditKept(p) /\ NoLostEdit
          BY <1>1, <3>1 DEF EditsKept
        <4>2. run[p].docWas = docs[Target(p)] /\ \A n \in Names : n # Cmd(p).name => run[p].doc[n] = docs[Target(p)][n]
          BY <1>2, <4>1 DEF EditKept, Is
        <4>3. docs = asked
          BY <1>2, <1>3, <3>1, <4>1, SoleWriter DEF NoLostEdit, Is, Restoring
        <4>4. [docs EXCEPT ![Target(p)] = docs[Target(p)]] = docs
          BY <1>1, <1>2, CommandFacts DEF FilesTyped, DocFiles
        <4> QED
          BY <1>2, <2>2, <2>3, <4>2, <4>3, <4>4 DEF EditKept, Restoring, Target, Cmd, ghosts
      <3> QED
        BY <1>1, <1>2, <2>3, <3>1, EditsStay DEF ghosts, Is, Restoring
    <2>7. ASSUME run[p].alone PROVE AloneFits(p)'
      <3>1. Undone(p) /\ ResolvedWell(p)
        BY <1>1, <1>2, <2>7 DEF AloneFits
      <3>2. run[p].began = <<[docs EXCEPT ![Target(p)] = run[p].docWas], [locks EXCEPT ![Slot(run[p].kind)] = run[p].lockWas]>>
        BY <1>2, <3>1 DEF Undone, Is, Undoing
      <3>3. [locks' EXCEPT ![Slot(run[p].kind)] = run[p].lockWas] = [locks EXCEPT ![Slot(run[p].kind)] = run[p].lockWas]
        BY <1>1, <1>2, <1>4, SlotTyped DEF FilesTyped, LockFiles
      <3>4. Undone(p)'
        BY <1>2, <2>2, <2>3, <3>2, <3>3 DEF Undone, Is, Undoing, Target, Cmd
      <3>5. ResolvedWell(p)'
        BY <1>2, <1>3, <1>4, <2>2, <2>3, <3>1 DEF ResolvedWell, Is, Target, Op, Cmd
      <3>6. Replayed(p)'
        BY <2>3 DEF Replayed, Is
      <3> QED
        BY <3>4, <3>5, <3>6 DEF AloneFits
    <2>8. AllAlone => OwedBefore(p)'
      BY <1>2, <1>3, <2>2, OwedWhenBegun
    <2> QED
      BY <1>1, <1>2, <1>3, <1>4, <2>1, <2>2, <2>4, <2>5, <2>6, <2>7, <2>8, WriterKeeps DEF FilesTyped, ghosts
  <1> QED
    BY <1>2, <1>5

(* Publishing the manifest: the new pair agrees, or both are restored.     *)
LEMMA PublishManifestInv ==
    ASSUME PInv, NEW p \in Runners, PublishManifest(p)
    PROVE  PInv'
  <1>1. FilesTyped /\ PlaceFits(p) /\ AloneFits(p) /\ EditsKept /\ KindStays(p)
    BY DEF PInv
  <1>2. /\ Is(p, "manifest") /\ Active(p) /\ docs' = [docs EXCEPT ![Target(p)] = run[p].doc]
        /\ UNCHANGED <<locks, spool, guard, view, registry, settled, shown, kept, fd>>
    BY DEF PublishManifest, Is, Active
  <1>3. guard = p /\ Op(p) \in Mutations /\ Op(p) \in Guarded
    BY <1>1, <1>2 DEF PlaceFits, Is, Holding, Undoing
  <1>4. /\ Target(p) \in {"root", "member"} /\ run[p].doc \in Docs /\ run[p].docWas \in Docs
        /\ Cmd(p).name \in Names /\ docs \in DocFiles
    BY <1>1, <1>2, <1>3, CommandFacts DEF FilesTyped
  <1>5. docs' \in DocFiles /\ docs'[Target(p)] = run[p].doc
    BY <1>2, <1>4 DEF DocFiles
  <1>6. LocksEvolve(p)
    BY <1>2 DEF LocksEvolve
  <1>7. ASSUME kept
        PROVE  /\ run[p].docWas = docs[Target(p)] /\ docs = asked
               /\ \A n \in Names : n # Cmd(p).name => run[p].doc[n] = docs[Target(p)][n]
    <2>1. EditKept(p) /\ NoLostEdit
      BY <1>1, <1>7 DEF EditsKept
    <2> QED
      BY <1>2, <1>3, <1>7, <2>1, SoleWriter DEF EditKept, NoLostEdit, Is, Restoring
  <1>8. CASE Move(p, "materialize") /\ asked' = [asked EXCEPT ![Target(p)][Cmd(p).name] = run[p].doc[Cmd(p).name]]
    <2>1. "materialize" \in Places /\ "materialize" \in Dirty /\ "materialize" \notin Written
      BY DEF Places, Dirty, Written
    <2>2. Becomes(p, "materialize") /\ run'[p].lock = run[p].lock
      BY <1>1, <1>2, <1>8, <2>1, Moves
    <2>3. /\ run'[p].at = "materialize" /\ run'[p].cmd = run[p].cmd /\ run'[p].kind = run[p].kind
          /\ run'[p].alone = run[p].alone /\ \A q \in Runners : q # p => run'[q] = run[q]
      BY <2>2 DEF Becomes
    <2>4. PlaceFits(p)'
      BY <1>2, <1>3, <2>3 DEF PlaceFits, Is, Op, Cmd, Undoing, Spooling, Holding, Mutations
    <2>5. KindStays(p)'
      BY <1>1, <1>2, <2>3 DEF KindStays, Is, Op, Cmd, Undoing
    <2>6. EditsKept'
      <3>1. EditKept(p)'
        BY <2>3 DEF EditKept, Restoring
      <3>2. ASSUME kept PROVE docs' = asked'
        <4>1. run[p].doc \in [Names -> Sections \cup {"broken"}] /\ docs[Target(p)] \in [Names -> Sections \cup {"broken"}]
          BY <1>4 DEF Docs, Declarations, Broken, DocFiles
        <4>2. run[p].doc = [docs[Target(p)] EXCEPT ![Cmd(p).name] = run[p].doc[Cmd(p).name]]
          BY <1>4, <1>7, <3>2, <4>1
        <4> QED
          BY <1>2, <1>4, <1>7, <1>8, <3>2, <4>2 DEF DocFiles
      <3>3. \A q \in Runners : q # p => PlaceFits(q) /\ run'[q] = run[q]
        BY <2>3 DEF PInv
      <3> QED
        BY <1>2, <1>3, <2>3, <3>1, <3>2, <3>3, EditsWritten
    <2>7. ASSUME run[p].alone PROVE AloneFits(p)'
      <3>1. ResolvedWell(p)
        BY <1>1, <1>2, <2>7 DEF AloneFits
      <3>2. /\ run[p].lock.root = (IF Target(p) = "member" THEN docs.root ELSE run[p].doc)
            /\ locks[Slot(run[p].kind)] = run[p].lock /\ Readable(run[p].lock.root)
        BY <1>2, <3>1 DEF ResolvedWell, Is
      <3>3. docs'.root = run[p].lock.root
        BY <1>2, <1>4, <3>2 DEF DocFiles
      <3>4. ResolvedWell(p)'
        BY <1>2, <2>2, <2>3, <3>2, <3>3 DEF ResolvedWell, Is
      <3>5. Undone(p)' /\ Replayed(p)'
        BY <1>3, <2>3 DEF Undone, Undoing, Replayed, Is, Op, Cmd, Mutations, Unguarded
      <3> QED
        BY <3>4, <3>5 DEF AloneFits
    <2> QED
      BY <1>1, <1>2, <1>3, <1>5, <1>6, <2>1, <2>2, <2>4, <2>5, <2>6, <2>7, WriterKeeps DEF FilesTyped
  <1>9. CASE Move(p, "restoreLock") /\ UNCHANGED asked
    <2>1. "restoreLock" \in Places /\ "restoreLock" \in Dirty
      BY DEF Places, Dirty, Holding, Undoing
    <2>2. /\ Becomes(p, "restoreLock") /\ run'[p].began = run[p].began
          /\ run'[p].docWas = run[p].docWas /\ run'[p].lockWas = run[p].lockWas
      BY <1>1, <1>2, <1>9, <2>1, Moves
    <2>3. /\ run'[p].at = "restoreLock" /\ run'[p].cmd = run[p].cmd /\ run'[p].kind = run[p].kind
          /\ run'[p].alone = run[p].alone /\ \A q \in Runners : q # p => run'[q] = run[q]
      BY <2>2 DEF Becomes
    <2>4. PlaceFits(p)'
      BY <1>2, <1>3, <2>3 DEF PlaceFits, Is, Op, Cmd, Undoing, Spooling, Holding, Mutations
    <2>5. KindStays(p)'
      BY <1>1, <1>2, <2>2, <2>3 DEF KindStays, Is, Op, Cmd, Undoing
    <2>6. EditsKept'
      <3>1. ASSUME kept PROVE EditKept(p)'
        <4>1. [docs' EXCEPT ![Target(p)] = run[p].docWas] = docs
          BY <1>2, <1>4, <1>7, <3>1 DEF DocFiles
        <4> QED
          BY <1>7, <1>9, <2>2, <2>3, <3>1, <4>1 DEF EditKept, Target, Cmd
      <3>2. \A q \in Runners : q # p => PlaceFits(q) /\ run'[q] = run[q]
        BY <2>3 DEF PInv
      <3> QED
        BY <1>2, <1>3, <2>3, <3>1, <3>2, EditsWritten DEF Restoring
    <2>7. ASSUME run[p].alone PROVE AloneFits(p)'
      <3>1. Undone(p)
        BY <1>1, <1>2, <2>7 DEF AloneFits
      <3>2. run[p].began = <<[docs EXCEPT ![Target(p)] = run[p].docWas], [locks EXCEPT ![Slot(run[p].kind)] = run[p].lockWas]>>
        BY <1>2, <3>1 DEF Undone, Is, Undoing
      <3>3. [docs' EXCEPT ![Target(p)] = run[p].docWas] = [docs EXCEPT ![Target(p)] = run[p].docWas]
        BY <1>2, <1>4 DEF DocFiles
      <3>4. Undone(p)'
        BY <1>2, <2>2, <2>3, <3>2, <3>3 DEF Undone, Is, Undoing, Target, Cmd
      <3>5. ResolvedWell(p)' /\ Replayed(p)'
        BY <2>3 DEF ResolvedWell, Replayed, Is
      <3> QED
        BY <3>4, <3>5 DEF AloneFits
    <2>8. AllAlone => OwedBefore(p)'
      BY <1>2, <1>3, <2>2, OwedWhenBegun DEF Is, Written
    <2> QED
      BY <1>1, <1>2, <1>3, <1>5, <1>6, <2>1, <2>2, <2>4, <2>5, <2>6, <2>7, <2>8, WriterKeeps DEF FilesTyped
  <1> QED
    BY <1>8, <1>9 DEF PublishManifest

(* A publication that fails leaves the restoration to do.                  *)
LEMMA PublishFailsInv ==
    ASSUME PInv, NEW p \in Runners, PublishFails(p)
    PROVE  PInv'
  <1>1. FilesTyped /\ PlaceFits(p) /\ AloneFits(p) /\ EditsKept /\ KindStays(p)
    BY DEF PInv
  <1>2. /\ run[p].at \in {"lock", "manifest"} /\ Active(p) /\ Move(p, "restoreLock")
        /\ UNCHANGED <<docs, locks, spool, guard, view, registry, settled, shown, fd, ghosts>>
    BY DEF PublishFails, Active
  <1>3. guard = p /\ Op(p) \in Mutations /\ Op(p) \in Guarded
    BY <1>1, <1>2 DEF PlaceFits, Holding, Undoing
  <1>4. LocksEvolve(p)
    BY <1>2 DEF LocksEvolve
  <1>5. "restoreLock" \in Places /\ "restoreLock" \in Dirty
    BY DEF Places, Dirty, Holding, Undoing
  <1>6. /\ Becomes(p, "restoreLock") /\ run'[p].began = run[p].began
        /\ run'[p].docWas = run[p].docWas /\ run'[p].lockWas = run[p].lockWas
    BY <1>1, <1>2, <1>5, Moves
  <1>7. /\ run'[p].at = "restoreLock" /\ run'[p].cmd = run[p].cmd /\ run'[p].kind = run[p].kind
        /\ run'[p].alone = run[p].alone /\ \A q \in Runners : q # p => run'[q] = run[q]
    BY <1>6 DEF Becomes
  <1>8. PlaceFits(p)'
    BY <1>2, <1>3, <1>7 DEF PlaceFits, Is, Op, Cmd, Undoing, Spooling, Holding, Mutations
  <1>9. KindStays(p)'
    BY <1>1, <1>2, <1>6, <1>7 DEF KindStays, Op, Cmd, Undoing
  <1>10. EditsKept'
    <2>1. ASSUME kept PROVE EditKept(p)'
      <3>1. EditKept(p) /\ NoLostEdit
        BY <1>1, <2>1 DEF EditsKept
      <3>2. run[p].docWas = docs[Target(p)]
        BY <1>2, <3>1 DEF EditKept
      <3>3. docs = asked
        BY <1>2, <1>3, <2>1, <3>1, SoleWriter DEF NoLostEdit, Restoring
      <3>4. [docs EXCEPT ![Target(p)] = docs[Target(p)]] = docs
        BY <1>1, <1>2, CommandFacts DEF FilesTyped, DocFiles
      <3> QED
        BY <1>2, <1>6, <1>7, <3>2, <3>3, <3>4 DEF EditKept, Restoring, Target, Cmd, ghosts
    <2> QED
      BY <1>1, <1>2, <1>7, <2>1, EditsStay DEF ghosts, Restoring
  <1>11. ASSUME run[p].alone PROVE AloneFits(p)'
    <2>1. Undone(p)
      BY <1>1, <1>2, <1>11 DEF AloneFits
    <2>2. Undone(p)'
      BY <1>2, <1>6, <1>7, <2>1 DEF Undone, Is, Undoing, Target, Cmd
    <2>3. ResolvedWell(p)' /\ Replayed(p)'
      BY <1>7 DEF ResolvedWell, Replayed, Is
    <2> QED
      BY <2>2, <2>3 DEF AloneFits
  <1>12. AllAlone => OwedBefore(p)'
    BY <1>2, <1>3, <1>6, OwedWhenBegun DEF Is, Written
  <1> QED
    BY <1>1, <1>2, <1>3, <1>4, <1>5, <1>6, <1>8, <1>9, <1>10, <1>11, <1>12, WriterKeeps DEF FilesTyped, ghosts

(* Restoring the lock.                                                     *)
LEMMA RestoreLockInv ==
    ASSUME PInv, NEW p \in Runners, RestoreLock(p)
    PROVE  PInv'
  <1>1. FilesTyped /\ PlaceFits(p) /\ AloneFits(p) /\ EditsKept /\ KindStays(p)
    BY DEF PInv
  <1>2. /\ Is(p, "restoreLock") /\ Active(p) /\ Replaces(p, run[p].lockWas) /\ Move(p, "restoreManifest")
        /\ UNCHANGED <<docs, spool, guard, view, registry, settled, shown, ghosts>>
    BY DEF RestoreLock, Is, Active
  <1>3. guard = p /\ Op(p) \in Mutations /\ Op(p) \in Guarded
    BY <1>1, <1>2 DEF PlaceFits, Is, Holding, Undoing
  <1>4. locks.npm # NoLock => run[p].lockWas # NoLock
    BY <1>1, <1>2 DEF KindStays, Is, Undoing
  <1>5. /\ locks' = [locks EXCEPT ![Slot(run[p].kind)] = run[p].lockWas] /\ locks' \in LockFiles
        /\ fd' \in [Runners -> {"none", "spool", "lock", "gone"}]
        /\ LocksEvolve(p)
        /\ run[p].kind = "npm" => locks'.npm # NoLock /\ locks'.bpm = locks.bpm
        /\ locks'.npm # NoLock /\ run[p].kind = "bpm" => locks'.bpm # NoLock
    BY <1>1, <1>2, <1>4, CommandFacts, LockReplaced
  <1>6. "restoreManifest" \in Places /\ "restoreManifest" \in Dirty
    BY DEF Places, Dirty, Holding, Undoing
  <1>7. /\ Becomes(p, "restoreManifest") /\ run'[p].began = run[p].began
        /\ run'[p].docWas = run[p].docWas /\ run'[p].lockWas = run[p].lockWas
    BY <1>1, <1>2, <1>6, Moves
  <1>8. /\ run'[p].at = "restoreManifest" /\ run'[p].cmd = run[p].cmd /\ run'[p].kind = run[p].kind
        /\ run'[p].alone = run[p].alone /\ \A q \in Runners : q # p => run'[q] = run[q]
    BY <1>7 DEF Becomes
  <1>9. PlaceFits(p)'
    BY <1>2, <1>3, <1>8 DEF PlaceFits, Is, Op, Cmd, Undoing, Spooling, Holding, Mutations
  <1>10. KindStays(p)'
    BY <1>1, <1>2, <1>5, <1>7, <1>8 DEF KindStays, LocksEvolve, Is, Op, Cmd, Undoing
  <1>11. EditsKept'
    <2>1. ASSUME kept PROVE EditKept(p)'
      BY <1>1, <1>2, <1>7, <1>8, <2>1 DEF EditsKept, EditKept, Restoring, Target, Cmd, Is, ghosts
    <2> QED
      BY <1>1, <1>2, <1>8, <2>1, EditsStay DEF ghosts, Restoring
  <1>12. ASSUME run[p].alone PROVE AloneFits(p)'
    <2>1. Undone(p)
      BY <1>1, <1>2, <1>12 DEF AloneFits
    <2>2. run[p].began = <<[docs EXCEPT ![Target(p)] = run[p].docWas], [locks EXCEPT ![Slot(run[p].kind)] = run[p].lockWas]>>
      BY <1>2, <2>1 DEF Undone, Is, Undoing
    <2>3. [locks' EXCEPT ![Slot(run[p].kind)] = run[p].lockWas] = locks'
      BY <1>1, <1>2, <1>5, SlotTyped DEF FilesTyped, LockFiles
    <2>4. Undone(p)'
      BY <1>2, <1>5, <1>7, <1>8, <2>2, <2>3 DEF Undone, Is, Undoing, Target, Cmd
    <2>5. ResolvedWell(p)' /\ Replayed(p)'
      BY <1>8 DEF ResolvedWell, Replayed, Is
    <2> QED
      BY <2>4, <2>5 DEF AloneFits
  <1>13. AllAlone => OwedBefore(p)'
    BY <1>2, <1>3, <1>7, OwedWhenBegun DEF Is, Written
  <1> QED
    BY <1>1, <1>2, <1>3, <1>5, <1>6, <1>7, <1>9, <1>10, <1>11, <1>12, <1>13, WriterKeeps DEF FilesTyped, ghosts

(***************************************************************************)
(* Commands that end.                                                      *)
(***************************************************************************)
(* The lock that is selected when p's own is in its slot. *)
LEMMA Selected ==
    ASSUME NEW d \in DocFiles, NEW l \in LockFiles, NEW kind, l[Slot(kind)] \in SomeLocks,
           Readable(d.root), d.root = l[Slot(kind)].root, kind = "npm" => l.bpm = NoLock
    PROVE  LoadedIn(d, l) = l[Slot(kind)]
  <1> DEFINE k == l[Slot(kind)]
  <1>1. k # NoLock
    BY ReadableLocks
  <1>2. CASE kind # "npm"
    <2>1. k = l.bpm
      BY <1>2 DEF Slot
    <2>2. KindOf(l) = "bpm"
      BY <1>1, <2>1 DEF KindOf
    <2> QED
      BY <2>1, <2>2 DEF LoadedIn
  <1>3. CASE kind = "npm"
    <2>1. k = l.npm
      BY <1>3 DEF Slot
    <2>2. l.npm # NoLock /\ l.bpm = NoLock
      BY <1>1, <1>3, <2>1
    <2>3. KindOf(l) = "npm"
      BY <2>2 DEF KindOf
    <2>4. d.root \in Declarations
      BY DeclarationsRead DEF DocFiles
    <2>5. [n \in Names |-> IF k.root[n] = "none" THEN "none" ELSE
                           IF d.root[n] \in {"dev", "optional"} THEN d.root[n] ELSE "prod"] = k.root
      BY <2>4 DEF Declarations, Sections
    <2>6. LoadedIn(d, l) = [k EXCEPT !.root = k.root]
      BY <2>1, <2>3, <2>5 DEF LoadedIn
    <2> QED
      BY <2>6 DEF SomeLocks
  <1> QED
    BY <1>2, <1>3

(* A command that ends, whatever it wrote, with what it owes from then on. *)
LEMMA EndKeeps ==
    ASSUME PInv, NEW p \in Runners, NEW owes \in Owed, NEW shows \in BOOLEAN, Active(p), End(p, owes, shows),
           docs' \in DocFiles, locks' \in LockFiles, spool' \in SomeLocks, kept' \in BOOLEAN, UNCHANGED registry,
           fd' \in [Runners -> {"none", "spool", "lock", "gone"}],
           \/ UNCHANGED <<docs, locks, spool>> /\ \A q \in Runners : q # p => fd'[q] = fd[q]
           \/ guard = p /\ Op(p) \in Guarded
           \/ Op(p) \in Unguarded,
           LocksEvolve(p), EditsKept',
           \/ owes = "nothing" /\ ~shows
           \/ run[p].alone /\ AllAlone =>
                 /\ Agreed(docs, locks)'
                 /\ \A q \in Runners : q # p => run[q].at \notin Written
    PROVE  PInv'
  <1>1. FilesTyped /\ OwedHolds
    BY DEF PInv
  <1>2. /\ run' = [run EXCEPT ![p] = Idle]
        /\ guard' = IF guard = p THEN Nobody ELSE guard
        /\ settled' = IF run[p].alone THEN owes ELSE "nothing"
        /\ shown' = (run[p].alone /\ shows)
    BY DEF End
  <1>3. Ceases(p) /\ Steps(p)
    BY <1>1, <1>2, Ends DEF Steps
  <1>4. run[p].alone \in BOOLEAN
    BY <1>1, CommandFacts
  <1>5. FilesTyped'
    BY <1>1, <1>2, <1>3, <1>4 DEF FilesTyped, Ceases, Owed
  <1>6. Reaches(p)
    BY <1>1, <1>2 DEF Reaches
  <1>7. OwedHolds'
    <2>1. CASE settled' = "nothing" /\ ~shown'
      BY <2>1, NothingOwed
    <2>2. CASE ~(settled' = "nothing" /\ ~shown')
      <3>1. run[p].alone
        BY <1>2, <1>4, <2>2
      <3>2. AllAlone => /\ Agreed(docs, locks)'
                        /\ \A q \in Runners : q # p => run[q].at \notin Written
        BY <1>2, <2>2, <3>1
      <3>3. CASE AllAlone
        BY <1>1, <1>3, <1>4, <3>1, <3>2, <3>3, OwedAtEnd
      <3>4. CASE ~AllAlone
        <4>1. ~AllAlone'
          BY <1>3, <3>1, <3>4 DEF AllAlone, Ceases, Idle, Active
        <4> QED
          BY <4>1 DEF OwedHolds
      <3> QED
        BY <3>3, <3>4
    <2> QED
      BY <2>1, <2>2
  <1> QED
    BY <1>3, <1>5, <1>6, <1>7, CeasedFits, StepKeeps

(* The last step of a rollback puts both files back as they were. *)
LEMMA RollbackExact ==
    ASSUME PInv, NEW p \in Runners, RestoreManifest(p), run[p].alone
    PROVE  <<docs, locks>>' = run[p].began
  <1>1. Is(p, "restoreManifest") /\ Active(p) /\ AloneFits(p)
    BY DEF RestoreManifest, Is, Active, PInv
  <1>2. Undone(p)
    BY <1>1 DEF AloneFits
  <1> QED
    BY <1>1, <1>2 DEF Undone, Undoing, Is, RestoreManifest

(* Restoring the manifest ends a complete rollback.                        *)
LEMMA RestoreManifestInv ==
    ASSUME PInv, NEW p \in Runners, RestoreManifest(p)
    PROVE  PInv'
  <1>1. FilesTyped /\ PlaceFits(p) /\ EditsKept /\ OwedHolds
    BY DEF PInv
  <1>2. /\ Is(p, "restoreManifest") /\ Active(p) /\ docs' = [docs EXCEPT ![Target(p)] = run[p].docWas]
        /\ End(p, settled, shown)
        /\ UNCHANGED <<locks, spool, view, registry, fd, ghosts>>
    BY DEF RestoreManifest, Refuse, Is, Active
  <1>3. guard = p /\ Op(p) \in Guarded
    BY <1>1, <1>2 DEF PlaceFits, Is, Holding, Undoing
  <1>4. docs' \in DocFiles
    BY <1>1, <1>2, CommandFacts DEF FilesTyped, DocFiles
  <1>5. LocksEvolve(p)
    BY <1>2 DEF LocksEvolve
  <1>6. Ceases(p) /\ run'[p].at = "idle"
    BY <1>1, <1>2, Ends DEF End, Ceases, Idle
  <1>7. EditsKept'
    <2>1. EditKept(p)'
      BY <1>6 DEF EditKept, Restoring
    <2>2. kept => docs' = asked'
      BY <1>1, <1>2 DEF EditsKept, EditKept, Is, Restoring, ghosts
    <2>3. \A q \in Runners : q # p => PlaceFits(q) /\ run'[q] = run[q]
      BY <1>6 DEF PInv, Ceases
    <2> QED
      BY <1>2, <1>3, <1>6, <2>1, <2>2, <2>3, EditsWritten DEF ghosts
  <1>8. ASSUME run[p].alone, AllAlone
        PROVE  /\ Agreed(docs, locks)'
               /\ \A q \in Runners : q # p => run[q].at \notin Written
    <2>1. UNCHANGED <<settled, shown, view>>
      BY <1>1, <1>2, <1>8 DEF End, FilesTyped
    <2>2. OwedBefore(p)
      BY <1>1, <1>2, <1>8 DEF OwedHolds, Is, Written
    <2>3. run[p].began = <<docs', locks'>>
      BY <1>8, RollbackExact
    <2>4. Agreed(docs, locks)'
      BY <2>1, <2>2, <2>3 DEF OwedBefore, Agreed
    <2> QED
      BY <1>3, <2>4, SoleWriter DEF Written, Holding, Undoing
  <1>9. settled \in Owed /\ shown \in BOOLEAN /\ kept' \in BOOLEAN /\ locks' \in LockFiles /\ spool' \in SomeLocks
        /\ fd' \in [Runners -> {"none", "spool", "lock", "gone"}]
    BY <1>1, <1>2 DEF FilesTyped, ghosts
  <1> QED
    BY <1>2, <1>3, <1>4, <1>5, <1>7, <1>8, <1>9, EndKeeps

(* Restoring the manifest although the lock could not be.                  *)
LEMMA RestoreOtherInv ==
    ASSUME PInv, NEW p \in Runners, RestoreOther(p)
    PROVE  PInv'
  <1>1. FilesTyped /\ PlaceFits(p) /\ EditsKept
    BY DEF PInv
  <1>2. /\ Is(p, "restoreOther") /\ Active(p) /\ docs' = [docs EXCEPT ![Target(p)] = run[p].docWas]
        /\ End(p, "nothing", FALSE)
        /\ UNCHANGED <<locks, spool, view, registry, fd, ghosts>>
    BY DEF RestoreOther, Is, Active
  <1>3. guard = p /\ Op(p) \in Guarded
    BY <1>1, <1>2 DEF PlaceFits, Is, Holding, Undoing
  <1>4. docs' \in DocFiles
    BY <1>1, <1>2, CommandFacts DEF FilesTyped, DocFiles
  <1>5. LocksEvolve(p)
    BY <1>2 DEF LocksEvolve
  <1>6. Ceases(p) /\ run'[p].at = "idle"
    BY <1>1, <1>2, Ends DEF End, Ceases, Idle
  <1>7. EditsKept'
    <2>1. EditKept(p)'
      BY <1>6 DEF EditKept, Restoring
    <2>2. kept => docs' = asked'
      BY <1>1, <1>2 DEF EditsKept, EditKept, Is, Restoring, ghosts
    <2>3. \A q \in Runners : q # p => PlaceFits(q) /\ run'[q] = run[q]
      BY <1>6 DEF PInv, Ceases
    <2> QED
      BY <1>2, <1>3, <1>6, <2>1, <2>2, <2>3, EditsWritten DEF ghosts
  <1>8. kept' \in BOOLEAN /\ locks' \in LockFiles /\ spool' \in SomeLocks
        /\ fd' \in [Runners -> {"none", "spool", "lock", "gone"}] /\ "nothing" \in Owed
    BY <1>1, <1>2 DEF FilesTyped, ghosts, Owed
  <1> QED
    BY <1>2, <1>3, <1>4, <1>5, <1>7, <1>8, EndKeeps

(* A rollback that fails owes nothing any more.                            *)
LEMMA RollbackFailsInv ==
    ASSUME PInv, NEW p \in Runners, RollbackFails(p)
    PROVE  PInv'
  <1>1. FilesTyped /\ PlaceFits(p) /\ AloneFits(p) /\ EditsKept /\ KindStays(p)
    BY DEF PInv
  <1>2. /\ run[p].at \in {"restoreLock", "restoreManifest"} /\ Active(p)
        /\ UNCHANGED <<docs, locks, spool, view, registry, asked, fd>>
    BY DEF RollbackFails, Active
  <1>3. guard = p /\ Op(p) \in Mutations /\ Op(p) \in Guarded
    BY <1>1, <1>2 DEF PlaceFits, Holding, Undoing
  <1>4. LocksEvolve(p)
    BY <1>2 DEF LocksEvolve
  <1>5. CASE Is(p, "restoreLock") /\ Move(p, "restoreOther") /\ UNCHANGED <<guard, settled, shown, kept>>
    <2>1. "restoreOther" \in Places /\ "restoreOther" \in Dirty /\ "restoreOther" \notin Written
      BY DEF Places, Dirty, Holding, Undoing, Written
    <2>2. /\ Becomes(p, "restoreOther")
          /\ run'[p].docWas = run[p].docWas /\ run'[p].lockWas = run[p].lockWas
      BY <1>1, <1>2, <1>5, <2>1, Moves
    <2>3. /\ run'[p].at = "restoreOther" /\ run'[p].cmd = run[p].cmd /\ run'[p].kind = run[p].kind
          /\ run'[p].alone = run[p].alone /\ \A q \in Runners : q # p => run'[q] = run[q]
      BY <2>2 DEF Becomes
    <2>4. PlaceFits(p)'
      BY <1>2, <1>3, <1>5, <2>3 DEF PlaceFits, Is, Op, Cmd, Undoing, Spooling, Holding, Mutations
    <2>5. KindStays(p)'
      BY <1>1, <1>2, <2>2, <2>3 DEF KindStays, Op, Cmd, Undoing
    <2>6. EditsKept'
      <3>1. ASSUME kept PROVE EditKept(p)'
        BY <1>1, <1>2, <2>2, <2>3, <3>1 DEF EditsKept, EditKept, Restoring, Target, Cmd
      <3> QED
        BY <1>1, <1>2, <1>5, <2>3, <3>1, EditsStay DEF Restoring
    <2>7. AloneFits(p)'
      BY <2>3 DEF AloneFits, Undone, Undoing, ResolvedWell, Replayed, Is
    <2> QED
      BY <1>1, <1>2, <1>3, <1>4, <1>5, <2>1, <2>2, <2>4, <2>5, <2>6, <2>7, WriterKeeps DEF FilesTyped
  <1>6. CASE End(p, "nothing", FALSE) /\ kept' = FALSE
    <2>1. EditsKept'
      BY <1>6 DEF EditsKept
    <2>2. docs' \in DocFiles /\ kept' \in BOOLEAN /\ locks' \in LockFiles /\ spool' \in SomeLocks
          /\ fd' \in [Runners -> {"none", "spool", "lock", "gone"}] /\ "nothing" \in Owed
      BY <1>1, <1>2, <1>6 DEF FilesTyped, Owed
    <2> QED
      BY <1>2, <1>3, <1>4, <1>6, <2>1, <2>2, EndKeeps
  <1> QED
    BY <1>5, <1>6 DEF RollbackFails

(* A killed command lets go of the guard, and nothing is owed.             *)
LEMMA KillInv ==
    ASSUME PInv, NEW p \in Runners, Kill(p)
    PROVE  PInv'
  <1>1. FilesTyped /\ EditsKept
    BY DEF PInv
  <1>2. /\ Active(p) /\ End(p, "nothing", FALSE) /\ kept' = (kept /\ run[p].at \notin Restoring)
        /\ fd' = [fd EXCEPT ![p] = "none"]
        /\ UNCHANGED <<docs, locks, spool, view, registry, asked>>
    BY DEF Kill
  <1>3. LocksEvolve(p)
    BY <1>2 DEF LocksEvolve
  <1>4. Ceases(p) /\ run'[p].at = "idle"
    BY <1>1, <1>2, Ends DEF End, Ceases, Idle
  <1>5. EditsKept'
    <2>1. EditKept(p)'
      BY <1>4 DEF EditKept, Restoring
    <2>2. \A q \in Runners : q # p => run'[q] = run[q]
      BY <1>4 DEF Ceases
    <2> QED
      BY <1>1, <1>2, <2>1, <2>2, EditsStay DEF FilesTyped
  <1>6. docs' \in DocFiles /\ kept' \in BOOLEAN /\ locks' \in LockFiles /\ spool' \in SomeLocks
        /\ fd' \in [Runners -> {"none", "spool", "lock", "gone"}] /\ "nothing" \in Owed
        /\ \A q \in Runners : q # p => fd'[q] = fd[q]
    BY <1>1, <1>2 DEF FilesTyped, Owed
  <1> QED
    BY <1>2, <1>3, <1>5, <1>6, EndKeeps

(* The lock that p published or replaced is the one that is selected. *)
LEMMA OwnLockSelected ==
    ASSUME NEW d \in DocFiles, NEW l \in LockFiles, NEW kind \in {"bpm", "npm", "yarn", "none"},
           Readable(d.root), d.root = l[Slot(kind)].root, kind = "npm" => l.bpm = NoLock
    PROVE  LoadedIn(d, l) = l[Slot(kind)]
  <1>1. l[Slot(kind)] \in SomeLocks
    BY DEF Slot, LockFiles
  <1> QED
    BY <1>1, Selected

(* upgrade and dedupe replace the lock alone.                              *)
LEMMA ReplaceLockInv ==
    ASSUME PInv, NEW p \in Runners, ReplaceLock(p)
    PROVE  PInv'
  <1>1. FilesTyped /\ PlaceFits(p) /\ AloneFits(p) /\ EditsKept /\ KindStays(p)
    BY DEF PInv
  <1>2. /\ Is(p, "replace") /\ Active(p) /\ Replaces(p, run[p].lock)
        /\ UNCHANGED <<docs, spool, view, registry, ghosts>>
    BY DEF ReplaceLock, Is, Active
  <1>3. guard = p /\ Op(p) \in Guarded /\ Readable(run[p].lock.root)
    BY <1>1, <1>2 DEF PlaceFits, Is, Holding
  <1>4. /\ locks' \in LockFiles /\ locks'[Slot(run[p].kind)] = run[p].lock
        /\ fd' \in [Runners -> {"none", "spool", "lock", "gone"}]
        /\ LocksEvolve(p)
        /\ run[p].kind = "npm" => locks'.npm # NoLock /\ locks'.bpm = locks.bpm
        /\ locks'.npm # NoLock /\ run[p].kind = "bpm" => locks'.bpm # NoLock
    BY <1>1, <1>2, <1>3, CommandFacts, ReadableLocks, LockReplaced
  <1>5. ASSUME run[p].alone PROVE docs.root = run[p].lock.root
    BY <1>1, <1>2, <1>5 DEF AloneFits, ResolvedWell
  <1>6. run[p].at \notin Restoring
    BY <1>2 DEF Is, Restoring
  <1>7. CASE Move(p, "materialize") /\ UNCHANGED <<guard, settled, shown>>
    <2>1. "materialize" \in Places /\ "materialize" \in Dirty /\ "materialize" \notin Written
      BY DEF Places, Dirty, Written
    <2>2. Becomes(p, "materialize") /\ run'[p].lock = run[p].lock
      BY <1>1, <1>2, <1>7, <2>1, Moves
    <2>3. /\ run'[p].at = "materialize" /\ run'[p].cmd = run[p].cmd /\ run'[p].kind = run[p].kind
          /\ run'[p].alone = run[p].alone /\ \A q \in Runners : q # p => run'[q] = run[q]
      BY <2>2 DEF Becomes
    <2>4. PlaceFits(p)'
      BY <1>2, <1>3, <1>7, <2>3 DEF PlaceFits, Is, Op, Cmd, Undoing, Spooling, Holding, Guarded
    <2>5. KindStays(p)'
      BY <1>1, <1>2, <1>4, <2>3 DEF KindStays, LocksEvolve, Is, Op, Cmd, Undoing
    <2>6. EditsKept'
      <3>1. EditKept(p)'
        BY <2>3 DEF EditKept, Restoring
      <3> QED
        BY <1>1, <1>2, <1>6, <2>3, <3>1, EditsStay DEF ghosts
    <2>7. ASSUME run[p].alone PROVE AloneFits(p)'
      BY <1>2, <1>3, <1>4, <1>5, <2>2, <2>3, <2>7
      DEF AloneFits, Undone, Undoing, ResolvedWell, Replayed, Is, Op, Cmd, Guarded, Unguarded
    <2> QED
      BY <1>1, <1>2, <1>3, <1>4, <1>7, <2>1, <2>2, <2>4, <2>5, <2>6, <2>7, WriterKeeps DEF FilesTyped, ghosts
  <1>8. CASE End(p, "sections", FALSE)
    <2>1. Ceases(p) /\ run'[p].at = "idle"
      BY <1>1, <1>2, <1>8, Ends DEF End, Ceases, Idle
    <2>2. EditsKept'
      <3>1. EditKept(p)' /\ \A q \in Runners : q # p => run'[q] = run[q]
        BY <2>1 DEF EditKept, Restoring, Ceases
      <3> QED
        BY <1>1, <1>2, <1>6, <3>1, EditsStay DEF ghosts
    <2>3. ASSUME run[p].alone PROVE Agreed(docs, locks)'
      <3>1. run[p].kind = "npm" => locks'.bpm = NoLock
        BY <1>1, <1>2, <1>3, <1>4, <2>3 DEF KindStays
      <3>2. LoadedIn(docs, locks') = run[p].lock
        BY <1>1, <1>2, <1>3, <1>4, <1>5, <2>3, <3>1, OwnLockSelected, CommandFacts DEF FilesTyped
      <3>3. settled' = "sections" /\ ~shown'
        BY <1>8, <2>3 DEF End
      <3> QED
        BY <1>2, <1>3, <1>5, <2>3, <3>2, <3>3 DEF Agreed
    <2>4. \A q \in Runners : q # p => run[q].at \notin Written
      BY <1>3, SoleWriter DEF Written, Holding, Undoing
    <2>5. docs' \in DocFiles /\ kept' \in BOOLEAN /\ spool' \in SomeLocks /\ "sections" \in Owed
      BY <1>1, <1>2 DEF FilesTyped, Owed, ghosts
    <2> QED
      BY <1>2, <1>3, <1>4, <1>8, <2>2, <2>3, <2>4, <2>5, EndKeeps
  <1> QED
    BY <1>7, <1>8 DEF ReplaceLock

(***************************************************************************)
(* Materialize.                                                            *)
(***************************************************************************)
(* LoadedIn is what loading the selected lock yields.                      *)
LEMMA LoadedInIsLoaded == LoadedIn(docs, locks) = Loaded(Kind)
  <1>1. KindOf(locks) = Kind /\ Kind \in {"bpm", "npm", "yarn", "none"}
    BY DEF KindOf, Kind
  <1> QED
    BY <1>1 DEF LoadedIn, Loaded, Split

(* Beside a command without the guard that is alone, nothing runs. *)
LEMMA SoleRunner ==
    ASSUME NoOverlap, NEW p \in Runners, Active(p), run[p].alone, Op(p) \in Unguarded, NEW q \in Runners, q # p
    PROVE  ~Active(q) /\ run[q].at = "idle"
  BY DEF NoOverlap, Overlaps, Active

(* Materializing makes the view that of the command's lock.                *)
LEMMA MaterializeInv ==
    ASSUME PInv, NEW p \in Runners, Materialize(p)
    PROVE  PInv'
  <1>1. FilesTyped /\ PlaceFits(p) /\ AloneFits(p) /\ EditsKept /\ KindStays(p) /\ NoOverlap
    BY DEF PInv
  <1>2. Is(p, "materialize") /\ Active(p) /\ UNCHANGED <<docs, locks, spool, registry, fd, ghosts>>
    BY DEF Materialize, Is, Active
  <1>3. PICK shows \in BOOLEAN : End(p, Owes(p), shows) /\ (shows => view' = run[p].lock)
    BY DEF Materialize
  <1>4. Owes(p) \in Owed
    BY DEF Owes, Owed
  <1>5. Ceases(p) /\ run'[p].at = "idle"
    BY <1>1, <1>2, <1>3, Ends DEF End, Ceases, Idle
  <1>6. EditsKept'
    <2>1. EditKept(p)' /\ \A q \in Runners : q # p => run'[q] = run[q]
      BY <1>5 DEF EditKept, Restoring, Ceases
    <2>2. run[p].at \notin Restoring
      BY <1>2 DEF Is, Restoring
    <2> QED
      BY <1>1, <1>2, <2>1, <2>2, EditsStay DEF ghosts
  <1>7. Op(p) \in Guarded \cup Unguarded
    BY <1>1, <1>2, CommandFacts
  <1>8. ASSUME run[p].alone
        PROVE  /\ Agreed(docs, locks)'
               /\ \A q \in Runners : q # p => run[q].at \notin Written
    <2>1. settled' = Owes(p) /\ (shown' => shows)
      BY <1>3, <1>8 DEF End
    <2>2. ResolvedWell(p) /\ Replayed(p)
      BY <1>1, <1>2, <1>8 DEF AloneFits
    <2>3. CASE Op(p) \in Guarded
      <3>1. guard = p
        BY <1>1, <1>2, <2>3 DEF PlaceFits
      <3>2. locks[Slot(run[p].kind)] = run[p].lock /\ docs.root = run[p].lock.root /\ Readable(docs.root)
        BY <1>2, <2>2, <2>3 DEF ResolvedWell
      <3>3. run[p].kind = "npm" => locks.bpm = NoLock
        BY <1>1, <1>2, <1>8, <2>3 DEF KindStays
      <3>4. LoadedIn(docs, locks) = run[p].lock
        BY <1>1, <1>2, <3>2, <3>3, OwnLockSelected, CommandFacts DEF FilesTyped
      <3>5. settled' = "sections"
        BY <2>1, <2>3 DEF Owes
      <3>6. Agreed(docs, locks)'
        BY <1>2, <1>3, <2>1, <3>2, <3>4, <3>5 DEF Agreed
      <3> QED
        BY <3>1, <3>6, SoleWriter DEF Written, Holding, Undoing
    <2>4. CASE Op(p) \in Unguarded
      <3>1. /\ run[p].lock = Loaded(Kind)
            /\ Op(p) = "ci" => FrozenAccepts(run[p].lock)
            /\ run[p].kind \in {"bpm", "none"} => ~Drifted(run[p].lock)
        BY <1>2, <2>2, <2>4 DEF Replayed
      <3>2. LoadedIn(docs, locks) = run[p].lock
        BY <3>1, LoadedInIsLoaded
      <3>3. settled' = "sections" => Readable(docs.root) /\ docs.root = run[p].lock.root
        BY <2>1, <2>4, <3>1 DEF Owes, Guarded, Unguarded, FrozenAccepts
      <3>4. settled' = "names" => Readable(docs.root) /\ Declared(docs.root) = Declared(run[p].lock.root)
        BY <2>1, <3>1 DEF Owes, Drifted
      <3>5. Agreed(docs, locks)'
        BY <1>2, <1>3, <2>1, <3>2, <3>3, <3>4 DEF Agreed
      <3> QED
        BY <1>1, <1>2, <1>8, <2>4, <3>5, SoleRunner DEF Written
    <2> QED
      BY <1>7, <2>3, <2>4
  <1>9. LocksEvolve(p)
    BY <1>2 DEF LocksEvolve
  <1>10. docs' \in DocFiles /\ kept' \in BOOLEAN /\ locks' \in LockFiles /\ spool' \in SomeLocks
         /\ fd' \in [Runners -> {"none", "spool", "lock", "gone"}] /\ \A q \in Runners : q # p => fd'[q] = fd[q]
    BY <1>1, <1>2 DEF FilesTyped, ghosts
  <1> QED
    BY <1>2, <1>3, <1>4, <1>6, <1>8, <1>9, <1>10, EndKeeps

(***************************************************************************)
(* install, ci and import.                                                 *)
(***************************************************************************)
(* Failures before anything is published.                                  *)
LEMMA UnresolvedInv ==
    ASSUME PInv, NEW p \in Runners, Unresolved(p) \/ Unpublished(p) \/ SpoolFails(p)
    PROVE  PInv'
  <1>1. /\ Active(p) /\ run[p].at \notin Dirty /\ Refuse(p)
        /\ UNCHANGED <<docs, locks, spool, view, registry, ghosts>>
        /\ fd' = fd \/ fd' = [fd EXCEPT ![p] = "none"]
    BY DEF Unresolved, Unpublished, SpoolFails, Is, Active, Dirty
  <1> QED
    BY <1>1, RefuseKeeps DEF ghosts

(* install and ci decide on what they found.                               *)
LEMMA FoundInv ==
    ASSUME PInv, NEW p \in Runners, Found(p)
    PROVE  PInv'
  <1>1. FilesTyped /\ PlaceFits(p) /\ AloneFits(p) /\ EditsKept
    BY DEF PInv
  <1>2. Is(p, "found") /\ Active(p) /\ UNCHANGED <<docs, locks, spool, view, registry, fd, ghosts>>
    BY DEF Found, Is, Active
  <1>3. run[p].at \notin Dirty
    BY <1>2 DEF Is, Dirty
  <1>4. CASE Refuse(p)
    BY <1>2, <1>3, <1>4, RefuseKeeps DEF ghosts
  <1> DEFINE fresh == Op(p) = "install" /\ run[p].kind \in {"bpm", "none"} /\ (run[p].kind = "bpm" => Drifted(run[p].lock))
             place == IF fresh THEN "fresh" ELSE "materialize"
  <1>5. CASE /\ ~(Op(p) = "ci" /\ (run[p].kind = "none" \/ ~FrozenAccepts(run[p].lock)))
             /\ Move(p, place) /\ UNCHANGED <<guard, settled, shown>>
    <2>1. place \in Places /\ (place \notin Dirty \/ place = "materialize") /\ place \notin Undoing /\ place \notin Restoring
      BY DEF Places, Spooling, Dirty, Undoing, Restoring
    <2>2. Becomes(p, place) /\ run'[p].lock = run[p].lock
      BY <1>1, <1>2, <1>5, <2>1, Moves
    <2>3. run'[p].at = place /\ run'[p].cmd = run[p].cmd /\ run'[p].kind = run[p].kind
      BY <2>2 DEF Becomes
    <2>4. Op(p) \in {"install", "ci"} /\ Op(p) \in Unguarded
      BY <1>1, <1>2 DEF PlaceFits, Is, Unguarded
    <2>5. PlaceFits(p)'
      BY <2>3, <2>4 DEF PlaceFits, Is, Op, Cmd, Undoing, Spooling, Holding, Guarded
    <2>6. EditKept(p)'
      BY <2>1, <2>3 DEF EditKept, Restoring
    <2>7. ASSUME run[p].alone PROVE AloneFits(p)'
      <3>1. run[p].kind = Kind /\ run[p].lock = Loaded(Kind)
        BY <1>1, <1>2, <2>7 DEF AloneFits, Replayed
      <3>2. Undone(p)' /\ ResolvedWell(p)'
        BY <2>3, <2>4 DEF Undone, Undoing, ResolvedWell, Is, Op, Cmd, Guarded
      <3>3. Loaded(Kind)' = Loaded(Kind)
        BY <1>2 DEF Loaded, Kind, Split
      <3>4. ~fresh =>
              /\ Op(p) = "ci" => FrozenAccepts(run[p].lock)
              /\ run[p].kind \in {"bpm", "none"} => ~Drifted(run[p].lock)
        BY <1>5, <2>4 DEF FrozenAccepts, Drifted
      <3>5. Replayed(p)'
        BY <1>2, <2>2, <2>3, <3>1, <3>3, <3>4 DEF Replayed, Is, Op, Cmd, FrozenAccepts, Drifted
      <3> QED
        BY <3>2, <3>5 DEF AloneFits
    <2> HIDE DEF place
    <2> QED
      BY <1>1, <1>2, <1>3, <1>5, <2>1, <2>2, <2>3, <2>5, <2>6, <2>7, MoveKeeps DEF FilesTyped, ghosts
  <1> QED
    BY <1>4, <1>5 DEF Found

(* A lock that is about to be written by a command without the guard.      *)
LEMMA SpoolOpened ==
    ASSUME PInv, NEW p \in Runners, Active(p), NEW lock \in SomeLocks, Readable(lock.root),
           run[p].at \in {"fresh", "import"}, Op(p) = "import" \/ Is(p, "fresh"), Op(p) # "import" => lock.root = docs.root,
           run' = [run EXCEPT ![p].at = "spool", ![p].lock = lock],
           UNCHANGED <<docs, locks, spool, view, registry, fd, ghosts, guard, settled, shown>>
    PROVE  PInv'
  <1>1. FilesTyped /\ PlaceFits(p)
    BY DEF PInv
  <1>2. Becomes(p, "spool") /\ run'[p].lock = lock
    BY <1>1, Spools
  <1>3. run'[p].at = "spool" /\ run'[p].cmd = run[p].cmd /\ run'[p].kind = run[p].kind
    BY <1>2 DEF Becomes
  <1>4. PlaceFits(p)'
    BY <1>1, <1>2, <1>3 DEF PlaceFits, Is, Op, Cmd, Undoing, Spooling, Holding
  <1>5. EditKept(p)'
    BY <1>3 DEF EditKept, Restoring
  <1>6. AloneFits(p)'
    BY <1>2, <1>3 DEF AloneFits, Undone, Undoing, ResolvedWell, Replayed, Is, Op, Cmd
  <1>7. "spool" \in Places /\ "spool" \notin Dirty /\ "spool" \notin Undoing /\ run[p].at \notin Dirty
    BY DEF Places, Spooling, Dirty, Undoing
  <1> QED
    BY <1>1, <1>2, <1>3, <1>4, <1>5, <1>6, <1>7, MoveKeeps DEF FilesTyped, ghosts

(* install resolves afresh.                                                *)
LEMMA ResolveFreshInv ==
    ASSUME PInv, NEW p \in Runners, ResolveFresh(p)
    PROVE  PInv'
  <1>1. FilesTyped
    BY DEF PInv
  <1>2. Is(p, "fresh") /\ Active(p) /\ UNCHANGED <<docs, locks, spool, view, registry, fd, ghosts>>
    BY DEF ResolveFresh, Is, Active
  <1>3. CASE Readable(docs.root) /\ Readable(docs.member)
    <2> DEFINE lock == Lock(docs.root, docs.member, TRUE)
    <2>1. docs.root \in Docs /\ docs.member \in Docs
      BY <1>1 DEF FilesTyped, DocFiles
    <2>2. lock \in SomeLocks /\ lock.root = docs.root
      BY <1>1, <2>1, LocksMade
    <2>3. run' = [run EXCEPT ![p].at = "spool", ![p].lock = lock] /\ UNCHANGED <<guard, settled, shown>>
      BY <1>3 DEF ResolveFresh
    <2> HIDE DEF lock
    <2> QED
      BY <1>2, <1>3, <2>2, <2>3, SpoolOpened DEF Is
  <1>4. CASE ~(Readable(docs.root) /\ Readable(docs.member))
    BY <1>2, <1>4, RefuseKeeps DEF ResolveFresh, Is, Dirty, ghosts
  <1> QED
    BY <1>3, <1>4

(* import converts the foreign lock.                                       *)
LEMMA ImportInv ==
    ASSUME PInv, NEW p \in Runners, Import(p)
    PROVE  PInv'
  <1>1. FilesTyped /\ PlaceFits(p)
    BY DEF PInv
  <1>2. Is(p, "import") /\ Active(p) /\ UNCHANGED <<docs, locks, spool, view, registry, fd, ghosts>>
    BY DEF Import, Is, Active
  <1> DEFINE kind == IF locks.npm # NoLock THEN "npm" ELSE "yarn"
             lock == [Loaded(kind) EXCEPT !.full = FALSE]
  <1>3. CASE Loads(kind)
    <2>1. Loaded(kind) \in SomeLocks /\ Readable(Loaded(kind).root)
      BY <1>1, <1>3, LocksLoaded
    <2>2. run' = [run EXCEPT ![p].at = "spool", ![p].lock = lock] /\ UNCHANGED <<guard, settled, shown>>
      BY <1>3 DEF Import
    <2> HIDE DEF kind
    <2>3. lock \in SomeLocks /\ lock.root = Loaded(kind).root
      BY <2>1 DEF SomeLocks
    <2>4. Op(p) = "import"
      BY <1>1, <1>2 DEF PlaceFits
    <2> HIDE DEF lock
    <2> QED
      BY <1>2, <2>1, <2>2, <2>3, <2>4, SpoolOpened DEF Is
  <1>4. CASE ~Loads(kind)
    BY <1>2, <1>4, RefuseKeeps DEF Import, Is, Dirty, ghosts
  <1> QED
    BY <1>3, <1>4

(* Opening and truncating the sibling file.                                *)
LEMMA OpenSpoolInv ==
    ASSUME PInv, NEW p \in Runners, OpenSpool(p)
    PROVE  PInv'
  <1>1. FilesTyped /\ PlaceFits(p) /\ AloneFits(p)
    BY DEF PInv
  <1>2. /\ Is(p, "spool") /\ Active(p) /\ spool' = Torn /\ fd' = [fd EXCEPT ![p] = "spool"] /\ Move(p, "fill")
        /\ UNCHANGED <<docs, locks, guard, view, registry, settled, shown, ghosts>>
    BY DEF OpenSpool, Is, Active
  <1>3. "fill" \in Places /\ "fill" \notin Dirty /\ "fill" \notin Undoing /\ run[p].at \notin Dirty
    BY <1>2 DEF Is, Places, Spooling, Dirty, Undoing
  <1>4. Becomes(p, "fill") /\ run'[p].lock = run[p].lock
    BY <1>1, <1>2, <1>3, Moves
  <1>5. run'[p].at = "fill" /\ run'[p].cmd = run[p].cmd /\ run'[p].kind = run[p].kind
    BY <1>4 DEF Becomes
  <1>6. Op(p) \in Unguarded
    BY <1>1, <1>2 DEF PlaceFits, Is, Spooling
  <1>7. PlaceFits(p)'
    BY <1>1, <1>2, <1>4, <1>5 DEF PlaceFits, Is, Op, Cmd, Undoing, Spooling, Holding
  <1>8. EditKept(p)'
    BY <1>5 DEF EditKept, Restoring
  <1>9. ASSUME run[p].alone PROVE AloneFits(p)'
    <2>1. Op(p) # "import" => run[p].lock.root = docs.root
      BY <1>1, <1>2, <1>9 DEF AloneFits, Replayed, Is
    <2>2. fd'[p] = "spool"
      BY <1>1, <1>2 DEF FilesTyped
    <2> QED
      BY <1>2, <1>4, <1>5, <2>1, <2>2 DEF AloneFits, Undone, Undoing, ResolvedWell, Replayed, Is, Op, Cmd
  <1>10. spool' \in SomeLocks
    BY <1>2 DEF Torn, NoLock, SomeLocks, Docs
  <1> QED
    BY <1>1, <1>2, <1>3, <1>4, <1>5, <1>6, <1>7, <1>8, <1>9, <1>10, MoveKeeps DEF FilesTyped, ghosts

(* A step of a command without the guard that writes the lock. *)
LEMMA SpoolerKeeps ==
    ASSUME PInv, NEW p \in Runners, NEW place \in {"rename", "materialize"}, Active(p), Becomes(p, place),
           Op(p) \in Unguarded, guard' = guard,
           UNCHANGED <<docs, view, settled, shown, registry, ghosts>>,
           locks' \in LockFiles, spool' \in SomeLocks, fd' \in [Runners -> {"none", "spool", "lock", "gone"}],
           run[p].at \in {"fill", "rename"}, locks'.npm = locks.npm, locks'.bpm = locks.bpm \/ locks'.bpm # NoLock,
           place = "rename" /\ run[p].alone => UNCHANGED locks,
           PlaceFits(p)', run[p].alone => AloneFits(p)'
    PROVE  PInv'
  <1> USE DEF ghosts
  <1>1. FilesTyped /\ OwedHolds /\ EditsKept /\ KindStays(p)
    BY DEF PInv
  <1>2. /\ run'[p].at = place /\ run'[p].cmd = run[p].cmd /\ run'[p].kind = run[p].kind
        /\ run'[p].alone = run[p].alone /\ \A q \in Runners : q # p => run'[q] = run[q]
        /\ place \in Places
    BY DEF Becomes
  <1>3. FilesTyped'
    BY <1>1 DEF FilesTyped, Becomes
  <1>4. Reaches(p) /\ Steps(p)
    BY <1>2 DEF Reaches, LocksEvolve, Steps
  <1>5. EditsKept'
    <2>1. EditKept(p)' /\ run[p].at \notin Restoring
      BY <1>2 DEF EditKept, Restoring
    <2> QED
      BY <1>1, <1>2, <2>1, EditsStay
  <1>6. OwedHolds'
    <2>1. CASE place = "rename" /\ ~run[p].alone
      <3>1. ~AllAlone'
        BY <1>2, <2>1 DEF AllAlone, Active
      <3> QED
        BY <3>1 DEF OwedHolds
    <2>2. CASE place = "materialize" \/ UNCHANGED locks
      BY <1>1, <1>2, <2>2, StillOwed DEF Dirty, Written
    <2> QED
      BY <2>1, <2>2
  <1>7. KindStays(p)'
    <2>1. Op(p) \notin Guarded
      BY DEF Guarded, Unguarded
    <2> QED
      BY <1>1, <1>2, <2>1 DEF KindStays, Op, Cmd, Undoing
  <1>8. AloneFits(p)'
    BY <1>2 DEF AloneFits
  <1> QED
    BY <1>3, <1>4, <1>5, <1>6, <1>7, <1>8, StepKeeps DEF Fits

(* Writing into the file that was opened, wherever it is by now.           *)
LEMMA FillSpoolInv ==
    ASSUME PInv, NEW p \in Runners, FillSpool(p)
    PROVE  PInv'
  <1>1. FilesTyped /\ PlaceFits(p) /\ AloneFits(p)
    BY DEF PInv
  <1>2. /\ Is(p, "fill") /\ Active(p) /\ Move(p, "rename")
        /\ spool' = IF fd[p] = "spool" THEN run[p].lock ELSE spool
        /\ locks' = IF fd[p] = "lock" THEN [locks EXCEPT !.bpm = run[p].lock] ELSE locks
        /\ fd' = [fd EXCEPT ![p] = "none"]
        /\ UNCHANGED <<docs, guard, view, registry, settled, shown, ghosts>>
    BY DEF FillSpool, Is, Active
  <1>3. "rename" \in Places
    BY DEF Places, Spooling
  <1>4. Becomes(p, "rename") /\ run'[p].lock = run[p].lock
    BY <1>1, <1>2, <1>3, Moves
  <1>5. run'[p].at = "rename" /\ run'[p].cmd = run[p].cmd /\ run'[p].kind = run[p].kind
    BY <1>4 DEF Becomes
  <1>6. Op(p) \in Unguarded /\ Readable(run[p].lock.root)
    BY <1>1, <1>2 DEF PlaceFits, Is, Spooling
  <1>7. run[p].lock \in SomeLocks /\ run[p].lock # NoLock
    BY <1>1, <1>2, <1>6, CommandFacts, ReadableLocks
  <1>8. /\ locks' \in LockFiles /\ spool' \in SomeLocks /\ fd' \in [Runners -> {"none", "spool", "lock", "gone"}]
        /\ locks'.npm = locks.npm /\ (locks'.bpm = locks.bpm \/ locks'.bpm # NoLock)
    BY <1>1, <1>2, <1>7 DEF FilesTyped, LockFiles
  <1>9. PlaceFits(p)'
    BY <1>1, <1>2, <1>4, <1>5 DEF PlaceFits, Is, Op, Cmd, Undoing, Spooling, Holding
  <1>10. ASSUME run[p].alone PROVE AloneFits(p)' /\ UNCHANGED locks
    <2>1. (Op(p) # "import" => run[p].lock.root = docs.root) /\ fd[p] = "spool"
      BY <1>1, <1>2, <1>10 DEF AloneFits, Replayed, Is
    <2> QED
      BY <1>2, <1>4, <1>5, <2>1 DEF AloneFits, Undone, Undoing, ResolvedWell, Replayed, Is, Op, Cmd
  <1> QED
    BY <1>2, <1>4, <1>6, <1>8, <1>9, <1>10, SpoolerKeeps DEF Is, ghosts

(* Renaming the sibling file over bpm.lock, whoever wrote it.              *)
LEMMA RenameSpoolInv ==
    ASSUME PInv, NEW p \in Runners, RenameSpool(p)
    PROVE  PInv'
  <1>1. FilesTyped /\ PlaceFits(p) /\ AloneFits(p) /\ EditsKept
    BY DEF PInv
  <1>2. Is(p, "rename") /\ Active(p) /\ UNCHANGED <<docs, view, registry, ghosts>>
    BY DEF RenameSpool, Is, Active
  <1>3. Op(p) \in Unguarded
    BY <1>1, <1>2 DEF PlaceFits, Is, Spooling
  <1>4. ASSUME End(p, "nothing", FALSE), locks' \in LockFiles, spool' \in SomeLocks, LocksEvolve(p),
               fd' \in [Runners -> {"none", "spool", "lock", "gone"}]
        PROVE  PInv'
    <2>1. Ceases(p) /\ run'[p].at = "idle"
      BY <1>1, <1>2, <1>4, Ends DEF End, Ceases, Idle
    <2>2. EditsKept'
      <3>1. EditKept(p)' /\ \A q \in Runners : q # p => run'[q] = run[q]
        BY <2>1 DEF EditKept, Restoring, Ceases
      <3>2. run[p].at \notin Restoring
        BY <1>2 DEF Is, Restoring
      <3> QED
        BY <1>1, <1>2, <3>1, <3>2, EditsStay DEF ghosts
    <2>3. docs' \in DocFiles /\ kept' \in BOOLEAN /\ "nothing" \in Owed
      BY <1>1, <1>2 DEF FilesTyped, Owed, ghosts
    <2> QED
      BY <1>2, <1>3, <1>4, <2>2, <2>3, EndKeeps
  <1>5. CASE spool = NoLock
    <2>1. End(p, "nothing", FALSE) /\ UNCHANGED <<spool, locks, fd>>
      BY <1>5 DEF RenameSpool
    <2> QED
      BY <1>1, <1>4, <2>1 DEF FilesTyped, LocksEvolve
  <1>6. CASE spool # NoLock
    <2>1. /\ spool' = NoLock /\ locks' = [locks EXCEPT !.bpm = spool]
          /\ fd' = [q \in Runners |-> IF fd[q] = "spool" THEN "lock" ELSE Replaced(q)]
          /\ IF Op(p) = "import" THEN End(p, "nothing", FALSE)
             ELSE Move(p, "materialize") /\ UNCHANGED <<guard, settled, shown>>
      BY <1>6 DEF RenameSpool
    <2>2. locks' \in LockFiles /\ locks'.bpm = spool /\ locks'.npm = locks.npm
      BY <1>1, <2>1 DEF FilesTyped, LockFiles
    <2>3. spool' \in SomeLocks
      BY <2>1 DEF NoLock, SomeLocks, Docs
    <2>4. fd' \in [Runners -> {"none", "spool", "lock", "gone"}]
      BY <1>1, <2>1 DEF FilesTyped, Replaced
    <2>5. CASE Op(p) = "import"
      BY <1>3, <1>4, <1>6, <2>1, <2>2, <2>3, <2>4, <2>5 DEF LocksEvolve
    <2>6. CASE Op(p) # "import"
      <3>1. "materialize" \in Places
        BY DEF Places
      <3>2. Becomes(p, "materialize") /\ run'[p].lock = run[p].lock
        BY <1>1, <1>2, <2>1, <2>6, <3>1, Moves
      <3>3. run'[p].at = "materialize" /\ run'[p].cmd = run[p].cmd /\ run'[p].kind = run[p].kind
        BY <3>2 DEF Becomes
      <3>4. Op(p) = "install"
        BY <1>1, <1>2, <2>6 DEF PlaceFits, Is, Spooling
      <3>5. PlaceFits(p)'
        BY <3>3, <3>4 DEF PlaceFits, Is, Op, Cmd, Undoing, Spooling, Holding, Guarded
      <3>6. ASSUME run[p].alone PROVE AloneFits(p)'
        <4>1. run[p].lock.root = docs.root /\ spool = run[p].lock
          BY <1>1, <1>2, <2>6, <3>6 DEF AloneFits, Replayed, Is
        <4>2. Kind' = "bpm" /\ Loaded(Kind)' = run[p].lock
          BY <1>6, <2>2, <4>1 DEF Kind, Loaded
        <4>3. ~Drifted(run[p].lock)'
          BY <1>2, <3>2, <4>1 DEF Drifted
        <4>4. Replayed(p)'
          BY <3>2, <3>3, <3>4, <4>2, <4>3 DEF Replayed, Is, Op, Cmd, Drifted
        <4>5. Undone(p)' /\ ResolvedWell(p)'
          BY <3>3, <3>4 DEF Undone, Undoing, ResolvedWell, Is, Op, Cmd, Guarded
        <4> QED
          BY <4>4, <4>5 DEF AloneFits
      <3> QED
        BY <1>2, <1>3, <1>6, <2>1, <2>2, <2>3, <2>4, <2>6, <3>2, <3>5, <3>6, SpoolerKeeps DEF Is, ghosts
    <2> QED
      BY <2>5, <2>6
  <1> QED
    BY <1>5, <1>6

(***************************************************************************)
(* Commands that begin, and editors.                                       *)
(***************************************************************************)
(* What is left of a command when another begins, or an editor saves. *)
Lowered(q) ==
    /\ run'[q].at = run[q].at
    /\ Active(q) =>
          /\ run'[q].cmd = run[q].cmd /\ run'[q].kind = run[q].kind /\ run'[q].lock = run[q].lock
          /\ run'[q].doc = run[q].doc /\ run'[q].docWas = run[q].docWas /\ run'[q].lockWas = run[q].lockWas
          /\ run'[q].began = run[q].began /\ (run'[q].alone => run[q].alone)

(* A command that is no longer alone promises less.                        *)
LEMMA LoweredFits ==
    ASSUME FilesTyped, NEW q \in Runners, Lowered(q), Fits(q),
           UNCHANGED <<locks, spool, fd, guard>>, UNCHANGED docs \/ ~run'[q].alone
    PROVE  Fits(q)'
  <1>1. Active(q)' <=> Active(q)
    BY DEF Lowered, Active
  <1>2. CASE ~Active(q)
    <2>1. run'[q].at = "idle"
      BY <1>2 DEF Lowered, Active
    <2>2. PlaceFits(q)'
      BY <2>1 DEF PlaceFits, Holding, Undoing, Spooling, Is
    <2> QED
      BY <2>1, <2>2 DEF Fits, KindStays, AloneFits, Active
  <1>3. CASE Active(q)
    <2>1. /\ run'[q].at = run[q].at
          /\ run'[q].cmd = run[q].cmd /\ run'[q].kind = run[q].kind /\ run'[q].lock = run[q].lock
          /\ run'[q].doc = run[q].doc /\ run'[q].docWas = run[q].docWas /\ run'[q].lockWas = run[q].lockWas
          /\ run'[q].began = run[q].began /\ (run'[q].alone => run[q].alone)
      BY <1>3 DEF Lowered
    <2>2. PlaceFits(q)'
      BY <2>1 DEF Fits, PlaceFits, Is, Op, Cmd
    <2>3. KindStays(q)'
      BY <1>1, <2>1 DEF Fits, KindStays, Op, Cmd
    <2>4. ASSUME run'[q].alone PROVE Undone(q)' /\ ResolvedWell(q)' /\ Replayed(q)'
      <3>1. Undone(q) /\ ResolvedWell(q) /\ Replayed(q) /\ UNCHANGED docs
        BY <1>3, <2>1, <2>4 DEF Fits, AloneFits
      <3>2. Undone(q)'
        BY <2>1, <3>1 DEF Undone, Target, Cmd, Is, Slot
      <3>3. ResolvedWell(q)'
        BY <2>1, <3>1 DEF ResolvedWell, Target, Cmd, Is, Slot, Op
      <3>4. Replayed(q)'
        BY <2>1, <3>1 DEF Replayed, Is, Op, Cmd, Kind, Loaded, Split, FrozenAccepts, Drifted
      <3> QED
        BY <3>2, <3>3, <3>4
    <2> QED
      BY <2>2, <2>3, <2>4 DEF Fits, AloneFits
  <1> QED
    BY <1>2, <1>3

(* The record a command begins with, and when it overlaps another.         *)
Begun(p, c, alone) ==
    [at |-> IF c.op \in Guarded THEN "guard" ELSE IF c.op = "import" THEN "import" ELSE "found",
     cmd |-> c, kind |-> Kind, lock |-> Loaded(Kind), doc |-> Broken,
     docWas |-> Broken, lockWas |-> NoLock, began |-> <<>>, alone |-> alone]
Clashes(c, q) == Active(q) /\ (c.op \in Unguarded \/ Op(q) \in Unguarded)

(* A command that begins lowers those it overlaps.                         *)
LEMMA Begins ==
    ASSUME FilesTyped, NEW p \in Runners, NEW c \in Commands, Begin(p, c)
    PROVE  /\ run' \in [Runners -> {Idle} \cup Running]
           /\ ~Active(p) /\ \E alone \in BOOLEAN : run'[p] = Begun(p, c, alone) /\ (alone => \A q \in Runners : ~Clashes(c, q))
           /\ \A q \in Runners : q # p => Lowered(q) /\ (Active(q)' /\ run'[q].alone => ~Clashes(c, q))
           /\ UNCHANGED <<docs, locks, spool, guard, view, registry, settled, shown, fd, ghosts>>
  <1>1. run \in [Runners -> {Idle} \cup Running]
    BY DEF FilesTyped
  <1> DEFINE alone == \A q \in Runners : ~Clashes(c, q)
             r == Begun(p, c, alone)
  <1>2. /\ ~Active(p)
        /\ run' = [q \in Runners |-> IF q = p THEN r ELSE IF Clashes(c, q) THEN [run[q] EXCEPT !.alone = FALSE] ELSE run[q]]
        /\ UNCHANGED <<docs, locks, spool, guard, view, registry, settled, shown, fd, ghosts>>
    BY DEF Begin, Begun, Clashes
  <1>3. r \in Running
    <2>1. Kind \in {"bpm", "npm", "yarn", "none"} /\ Loaded(Kind) \in SomeLocks
      BY LocksLoaded
    <2>2. NoLock \in SomeLocks /\ Broken \in Docs /\ {"guard", "import", "found"} \subseteq Places
      BY DEF NoLock, SomeLocks, Docs, Places
    <2>3. alone \in BOOLEAN
      OBVIOUS
    <2> HIDE DEF alone
    <2> QED
      BY <2>1, <2>2, <2>3 DEF Begun, Running
  <1>4. ASSUME NEW q \in Runners, Clashes(c, q)
        PROVE  /\ [run[q] EXCEPT !.alone = FALSE] \in Running
               /\ [run[q] EXCEPT !.alone = FALSE].alone = FALSE
               /\ q # p => Lowered(q)
    <2>1. Active(q) /\ run[q] \in Running
      BY <1>4, RunShapes DEF Clashes
    <2>2. /\ [run[q] EXCEPT !.alone = FALSE] \in Running
          /\ [run[q] EXCEPT !.alone = FALSE].alone = FALSE
      BY <2>1 DEF Running
    <2>3. q # p => run'[q] = [run[q] EXCEPT !.alone = FALSE]
      BY <1>2, <1>4
    <2> QED
      BY <2>1, <2>2, <2>3 DEF Lowered, Running
  <1>5. run' \in [Runners -> {Idle} \cup Running]
    BY <1>1, <1>2, <1>3, <1>4
  <1>6. ASSUME NEW q \in Runners, q # p PROVE Lowered(q) /\ (Active(q)' /\ run'[q].alone => ~Clashes(c, q))
    <2>1. CASE Clashes(c, q)
      BY <1>2, <1>4, <1>6, <2>1
    <2>2. CASE ~Clashes(c, q)
      BY <1>2, <1>6, <2>2 DEF Lowered
    <2> QED
      BY <2>1, <2>2
  <1>7. run'[p] = r
    BY <1>2
  <1>8. alone \in BOOLEAN
    OBVIOUS
  <1> QED
    BY <1>2, <1>5, <1>6, <1>7, <1>8

(* Beginning a command changes no file.                                    *)
LEMMA BeginInv ==
    ASSUME PInv, NEW p \in Runners, NEW c \in Commands, Begin(p, c)
    PROVE  PInv'
  <1>1. FilesTyped /\ NoOverlap /\ EditsKept /\ OwedHolds /\ \A q \in Runners : Fits(q)
    BY DEF PInv, Fits
  <1>2. /\ run' \in [Runners -> {Idle} \cup Running] /\ ~Active(p)
        /\ \A q \in Runners : q # p => Lowered(q) /\ (Active(q)' /\ run'[q].alone => ~Clashes(c, q))
        /\ UNCHANGED <<docs, locks, spool, guard, view, registry, settled, shown, fd, ghosts>>
    BY <1>1, Begins
  <1>3. PICK alone \in BOOLEAN : run'[p] = Begun(p, c, alone) /\ (alone => \A q \in Runners : ~Clashes(c, q))
    BY <1>1, Begins
  <1>4. /\ run'[p].at = (IF c.op \in Guarded THEN "guard" ELSE IF c.op = "import" THEN "import" ELSE "found")
        /\ run'[p].cmd = c /\ run'[p].kind = Kind /\ run'[p].lock = Loaded(Kind) /\ run'[p].alone = alone
    BY <1>3 DEF Begun
  <1>5. c.op \in Guarded \cup Unguarded
    BY ProjectAssumption
  <1>6. FilesTyped'
    BY <1>1, <1>2 DEF FilesTyped, ghosts
  <1>7. NoOverlap'
    <2> SUFFICES ASSUME NEW q \in Runners, NEW r \in Runners, Overlaps(q, r)', run'[q].alone PROVE FALSE
      BY DEF NoOverlap
    <2>1. q # r /\ Active(q)' /\ Active(r)' /\ (run'[q].cmd.op \in Unguarded \/ run'[r].cmd.op \in Unguarded)
      BY DEF Overlaps, Op, Cmd
    <2>2. ASSUME NEW s \in Runners, s # p, Active(s)' PROVE Active(s) /\ run'[s].cmd.op = Op(s)
      BY <1>2, <2>2 DEF Lowered, Active, Op, Cmd
    <2>3. CASE q = p
      <3>1. ~Clashes(c, r)
        BY <1>3, <1>4, <2>3
      <3> QED
        BY <1>4, <2>1, <2>2, <2>3, <3>1 DEF Clashes
    <2>4. CASE r = p
      <3>1. ~Clashes(c, q)
        BY <1>2, <2>1, <2>4
      <3> QED
        BY <1>4, <2>1, <2>2, <2>4, <3>1 DEF Clashes
    <2>5. CASE q # p /\ r # p
      <3>1. run[q].alone
        BY <1>2, <2>1, <2>2, <2>5 DEF Lowered
      <3>2. Overlaps(q, r)
        BY <2>1, <2>2, <2>5 DEF Overlaps
      <3> QED
        BY <1>1, <3>1, <3>2 DEF NoOverlap
    <2> QED
      BY <2>3, <2>4, <2>5
  <1>8. \A q \in Runners : q # p => Fits(q)'
    BY <1>1, <1>2, LoweredFits
  <1>9. Fits(p)'
    <2>1. PlaceFits(p)'
      BY <1>4, <1>5 DEF PlaceFits, Is, Op, Cmd, Holding, Undoing, Spooling, Guarded, Unguarded
    <2>2. KindStays(p)'
      BY <1>2, <1>4 DEF KindStays, Kind, Undoing, Op, Cmd
    <2>3. Loaded(Kind)' = Loaded(Kind) /\ Kind' = Kind
      BY <1>2 DEF Loaded, Kind, Split
    <2>4. AloneFits(p)'
      BY <1>4, <2>3 DEF AloneFits, Undone, Undoing, ResolvedWell, Replayed, Is
    <2> QED
      BY <2>1, <2>2, <2>4 DEF Fits
  <1>10. run[p].at = "idle" /\ \A q \in Runners : q # p => run'[q].at = run[q].at
    BY <1>2 DEF Active, Lowered
  <1>11. EditsKept'
    <2> SUFFICES ASSUME kept' PROVE NoLostEdit' /\ \A q \in Runners : EditKept(q)'
      BY DEF EditsKept
    <2>1. NoLostEdit /\ kept /\ UNCHANGED <<docs, asked>> /\ \A q \in Runners : EditKept(q)
      BY <1>1, <1>2 DEF EditsKept, ghosts
    <2>2. NoLostEdit'
      BY <1>10, <2>1 DEF NoLostEdit, Restoring
    <2>3. EditKept(p)'
      BY <1>4 DEF EditKept, Restoring
    <2>4. ASSUME NEW q \in Runners, q # p PROVE EditKept(q)'
      <3>1. CASE Active(q)
        BY <1>2, <2>1, <2>4, <3>1 DEF EditKept, Lowered, Cmd, Target
      <3>2. CASE ~Active(q)
        <4>1. run'[q].at = "idle"
          BY <1>10, <2>4, <3>2 DEF Active
        <4> QED
          BY <4>1 DEF EditKept, Restoring
      <3> QED
        BY <3>1, <3>2
    <2> QED
      BY <2>2, <2>3, <2>4
  <1>12. OwedHolds'
    <2> SUFFICES ASSUME AllAlone'
                 PROVE  /\ (\A q \in Runners : run'[q].at \notin Dirty) => Agreed(docs, locks)'
                        /\ \A q \in Runners : run'[q].at \in Written => OwedBefore(q)'
      BY DEF OwedHolds
    <2>1. AllAlone
      BY <1>2 DEF AllAlone, Lowered, Active
    <2>2. (\A q \in Runners : run'[q].at \notin Dirty) => Agreed(docs, locks)'
      <3>1. "idle" \notin Dirty
        BY DEF Dirty
      <3> QED
        BY <1>1, <1>2, <1>10, <2>1, <3>1 DEF OwedHolds, Agreed
    <2>3. ASSUME NEW q \in Runners, run'[q].at \in Written PROVE OwedBefore(q)'
      <3>1. q # p
        BY <1>4, <2>3 DEF Written
      <3>2. run[q].at \in Written /\ Active(q)
        BY <1>10, <2>3, <3>1 DEF Written, Active
      <3>3. run'[q].began = run[q].began
        BY <1>2, <3>1, <3>2 DEF Lowered
      <3> QED
        BY <1>1, <1>2, <2>1, <3>2, <3>3 DEF OwedHolds, OwedBefore, Agreed
    <2> QED
      BY <2>2, <2>3
  <1> QED
    BY <1>6, <1>7, <1>8, <1>9, <1>11, <1>12 DEF PInv, Fits

(* An editor that saves a manifest lowers every command that runs.         *)
LEMMA SaveInv ==
    ASSUME PInv, NEW s \in Saves, Save(s.file, s.doc)
    PROVE  PInv'
  <1>1. FilesTyped /\ NoOverlap /\ \A q \in Runners : Fits(q)
    BY DEF PInv, Fits
  <1>2. /\ docs' = [docs EXCEPT ![s.file] = s.doc]
        /\ run' = [q \in Runners |-> IF Active(q) THEN [run[q] EXCEPT !.alone = FALSE] ELSE run[q]]
        /\ settled' = "nothing" /\ shown' = FALSE
        /\ asked' = docs' /\ kept' = (kept /\ \A q \in Runners : ~Active(q))
        /\ UNCHANGED <<locks, spool, fd, guard, view, registry>>
    BY DEF Save
  <1>3. ASSUME NEW q \in Runners
        PROVE  run'[q] \in {Idle} \cup Running /\ Lowered(q) /\ (Active(q) => ~run'[q].alone)
    <2>1. CASE Active(q)
      <3>1. run[q] \in Running /\ run'[q] = [run[q] EXCEPT !.alone = FALSE]
        BY <1>1, <1>2, <2>1, RunShapes
      <3> QED
        BY <3>1 DEF Lowered, Running
    <2>2. CASE ~Active(q)
      BY <1>1, <1>2, <2>2 DEF Lowered, FilesTyped
    <2> QED
      BY <2>1, <2>2
  <1>4. docs' \in DocFiles
    BY <1>1, <1>2, ProjectAssumption DEF FilesTyped, DocFiles, Docs
  <1>5. FilesTyped'
    <2>1. run' \in [Runners -> {Idle} \cup Running]
      BY <1>2, <1>3
    <2>2. kept' \in BOOLEAN
      BY <1>2
    <2> QED
      BY <1>1, <1>2, <1>4, <2>1, <2>2 DEF FilesTyped, Owed
  <1>6. \A q \in Runners : Active(q)' => Active(q) /\ ~run'[q].alone
    BY <1>3 DEF Lowered, Active
  <1>7. NoOverlap'
    BY <1>6 DEF NoOverlap, Overlaps
  <1>8. ASSUME NEW q \in Runners PROVE Fits(q)'
    <2>1. CASE Active(q)
      BY <1>1, <1>2, <1>3, <2>1, LoweredFits
    <2>2. CASE ~Active(q)
      <3>1. run'[q].at = "idle"
        BY <1>3, <2>2 DEF Active, Lowered
      <3>2. PlaceFits(q)'
        BY <3>1 DEF PlaceFits, Holding, Undoing, Spooling, Is
      <3> QED
        BY <3>1, <3>2 DEF Fits, KindStays, AloneFits, Active
    <2> QED
      BY <2>1, <2>2
  <1>9. EditsKept'
    <2> SUFFICES ASSUME kept' PROVE NoLostEdit' /\ \A q \in Runners : EditKept(q)'
      BY DEF EditsKept
    <2>1. \A q \in Runners : run'[q].at = "idle"
      BY <1>2, <1>3 DEF Active, Lowered
    <2> QED
      BY <1>2, <2>1 DEF EditKept, NoLostEdit, Restoring
  <1>10. OwedHolds'
    BY <1>2, NothingOwed
  <1> QED
    BY <1>5, <1>7, <1>8, <1>9, <1>10 DEF PInv, Fits

(***************************************************************************)
(* The theorems.                                                           *)
(***************************************************************************)
(* The registry goes on, or nothing happens.                               *)
LEMMA StillInv ==
    ASSUME PInv, UNCHANGED vars \/ Advance
    PROVE  PInv'
  <1>1. /\ UNCHANGED <<docs, locks, spool, fd, guard, view, run, settled, shown, ghosts>>
        /\ registry' \in {0, 1}
    BY DEF vars, Advance, PInv, FilesTyped
  <1> USE <1>1 DEF PInv, ghosts
  <1>2. FilesTyped'
    BY DEF FilesTyped
  <1>3. NoOverlap'
    BY DEF NoOverlap, Overlaps, Active, Op, Cmd
  <1>4. EditsKept'
    BY DEF EditsKept, EditKept, NoLostEdit, Cmd, Target
  <1>5. OwedHolds'
    BY DEF OwedHolds, OwedBefore, Agreed, AllAlone, Active
  <1>6. ASSUME NEW p \in Runners PROVE PlaceFits(p)' /\ KindStays(p)' /\ AloneFits(p)'
    <2>1. PlaceFits(p)' /\ KindStays(p)'
      BY DEF PlaceFits, KindStays, Is, Op, Cmd, Active
    <2>2. Undone(p)' = Undone(p) /\ ResolvedWell(p)' = ResolvedWell(p)
      BY DEF Undone, ResolvedWell, Is, Op, Cmd, Target
    <2>3. Replayed(p)' = Replayed(p)
      BY DEF Replayed, Is, Op, Cmd, Kind, Loaded, Split, FrozenAccepts, Drifted
    <2> QED
      BY <2>1, <2>2, <2>3 DEF AloneFits, Active
  <1> QED
    BY <1>2, <1>3, <1>4, <1>5, <1>6

(* A project starts with manifests that declare nothing and at most a      *)
(* foreign lock, with no bpm.lock.                                         *)
LEMMA ProjectInvInit ==
    ASSUME NEW commands, NEW saves, NEW failures, NEW generation \in 0 .. 1,
           ProjectInit(commands, saves, failures, generation)
    PROVE  PInv
  <1>1. /\ spool = NoLock /\ guard = Nobody /\ registry = generation
        /\ run = [p \in Runners |-> Idle] /\ settled = "nothing" /\ shown = FALSE
        /\ fd = [p \in Runners |-> "none"] /\ asked = docs /\ kept = TRUE
    BY DEF ProjectInit
  <1>2. PICK kind \in ForeignKinds : Start(kind)
    BY DEF ProjectInit
  <1> DEFINE first == [n \in Names |-> "none"]
             lock == [root |-> first, member |-> first, seen |-> 0, full |-> FALSE]
  <1>3. first \in Docs
    BY DEF Docs, Declarations, Sections
  <1>4. NoLock \in SomeLocks
    BY DEF NoLock, SomeLocks, Docs
  <1> HIDE DEF first
  <1>5. lock \in SomeLocks
    BY <1>3 DEF SomeLocks
  <1>6. /\ docs = [d \in {"root", "member"} |-> first]
        /\ locks = [bpm |-> NoLock, npm |-> IF kind = "npm" THEN lock ELSE NoLock,
                    yarn |-> IF kind = "yarn" THEN lock ELSE NoLock]
    BY <1>2 DEF Start, first
  <1> HIDE DEF lock
  <1>7. docs \in DocFiles
    BY <1>3, <1>6 DEF DocFiles
  <1>8. locks \in LockFiles
    BY <1>4, <1>5, <1>6 DEF LockFiles
  <1>9. FilesTyped
    <2>1. registry \in {0, 1}
      BY <1>1
    <2> QED
      BY <1>1, <1>4, <1>7, <1>8, <2>1 DEF FilesTyped, Owed
  <1>10. \A p \in Runners : run[p].at = "idle"
    BY <1>1 DEF Idle
  <1>11. NoOverlap
    BY <1>10 DEF NoOverlap, Overlaps, Active
  <1>12. EditsKept
    BY <1>1, <1>10 DEF EditsKept, EditKept, NoLostEdit, Restoring
  <1>13. OwedHolds
    BY <1>1 DEF OwedHolds, OwedBefore, Agreed
  <1>14. ASSUME NEW p \in Runners PROVE PlaceFits(p) /\ KindStays(p) /\ AloneFits(p)
    BY <1>10 DEF PlaceFits, Holding, Undoing, Spooling, Is, KindStays, AloneFits, Active
  <1> QED
    BY <1>9, <1>11, <1>12, <1>13, <1>14 DEF PInv

(* Every step keeps the invariant.                                         *)
LEMMA ProjectInvNext ==
    ASSUME PInv, [ProjectNext]_vars
    PROVE  PInv'
  <1>1. ASSUME NEW p \in Runners, Step(p) PROVE PInv'
    BY <1>1, AcquireInv, EditInv, ResolveInv, CaptureInv, PublishLockInv, PublishManifestInv, RestoreLockInv,
       RestoreManifestInv, RestoreOtherInv, ReplaceLockInv, FoundInv, ResolveFreshInv, ImportInv, OpenSpoolInv,
       FillSpoolInv, RenameSpoolInv, MaterializeInv DEF Step
  <1>2. ASSUME NEW p \in Runners, Trouble(p) PROVE PInv'
    BY <1>2, UnresolvedInv, PublishFailsInv, RollbackFailsInv, KillInv DEF Trouble
  <1> QED
    BY <1>1, <1>2, BeginInv, SaveInv, StillInv DEF ProjectNext

(* What the invariant says of a project where no command runs.             *)
LEMMA ConsistentFromInv ==
    ASSUME PInv
    PROVE  ProjectConsistent
  <1>1. FilesTyped /\ EditsKept /\ OwedHolds
    BY DEF PInv
  <1>2. NoLostEdit
    BY <1>1 DEF EditsKept, NoLostEdit
  <1>3. ASSUME Quiet PROVE Agreed(docs, locks)
    <2>1. \A p \in Runners : run[p].at = "idle"
      BY <1>3 DEF Quiet, Active
    <2>2. AllAlone
      BY <2>1 DEF AllAlone, Active
    <2> QED
      BY <1>1, <2>1, <2>2 DEF OwedHolds, Dirty
  <1>4. Quiet => PairAgrees
    BY <1>1, <1>3, LoadedInIsLoaded DEF PairAgrees, Agreed, FilesTyped, Owed
  <1>5. Quiet /\ shown => view = Loaded(Kind)
    BY <1>3, LoadedInIsLoaded DEF Agreed
  <1> QED
    BY <1>2, <1>4, <1>5 DEF ProjectConsistent, QuietPairAgrees, ViewIsLock

(* For any number of processes, commands, edits by hand, faults and kills: *)
(* unless an edit by hand or a rollback that was cut short interferes, no  *)
(* edit that a command published is lost to another; when no command runs, *)
(* the root manifest and the selected lock agree as far as the last        *)
(* command owes it, and node_modules is what that lock says                *)
(* (acquire_project_mutation_guard, publish and its rollback, write_to).   *)
THEOREM ProjectStaysConsistent == ProjectSpec => []ProjectConsistent
  <1>1. ASSUME \E commands, saves, failures \in Nat, generation \in 0 .. 1 :
                  ProjectInit(commands, saves, failures, generation)
        PROVE  PInv
    BY <1>1, ProjectInvInit
  <1>2. PInv /\ [ProjectNext]_vars => PInv'
    BY ProjectInvNext
  <1>3. PInv => ProjectConsistent
    BY ConsistentFromInv
  <1> QED
    BY <1>1, <1>2, <1>3, PTL DEF ProjectSpec

(* For any number of the same: a transaction that fails and is rolled back *)
(* completely leaves manifest and lock exactly as they were when it took   *)
(* the guard, if neither an editor nor a command without the guard was     *)
(* there meanwhile.                                                        *)
THEOREM RollbacksExact == ProjectSpec => RolledBack
  <1>1. ASSUME \E commands, saves, failures \in Nat, generation \in 0 .. 1 :
                  ProjectInit(commands, saves, failures, generation)
        PROVE  PInv
    BY <1>1, ProjectInvInit
  <1>2. PInv /\ [ProjectNext]_vars => PInv'
    BY ProjectInvNext
  <1> DEFINE Exactly == \A p \in Runners : Is(p, "restoreManifest") /\ run[p].alone /\ RestoreManifest(p)
                                          => <<docs, locks>>' = run[p].began
  <1>3. PInv /\ [ProjectNext]_vars => [Exactly]_vars
    BY RollbackExact
  <1> QED
    BY <1>1, <1>2, <1>3, PTL DEF ProjectSpec, RolledBack
=============================================================================
