--------------------------- MODULE LifecycleProofs ---------------------------
(***************************************************************************)
(* Proofs about the passes over install scripts and the derived images:    *)
(* store images stay pristine, one pass at a time builds an image, and     *)
(* whoever succeeds leaves the packages as if their scripts had run, but   *)
(* for images that are collected while they are copied: for every lock     *)
(* file and any number of passes, faults, kills and collections.           *)
(***************************************************************************)
EXTENDS Lifecycle, TLAPS

(* What an install over a volume owes a package, and which paths it is to  *)
(* record.                                                                 *)
Wanted(p) == Packages[p].fetched /\ Packages[p].placed
AsIfRun(p, env) == IF Wanted(p) THEN Marks(<<p, env, "run">>) ELSE {}
Recorded == {p \in DOMAIN Packages : Wanted(p) /\ Packages[p].scripts # <<>>}

(* The mark of the k-th script of the package a pass is at, and all of     *)
(* them.                                                                   *)
Mark(i, k) == <<Scripts(i, at[i])[k], job[i].env>>
Due(i) == {Mark(i, k) : k \in DOMAIN Scripts(i, at[i])}

(* What the place a pass has come to says about its package. *)
AtPackage(i) ==
    /\ pc[i] \in Places \ {"visit", "done", "failed"} => at[i] \in DOMAIN Packages /\ Packages[at[i]].fetched
    /\ pc[i] = "read" => job[i].mode # "ignore" /\ (job[i].mode = "skip" => Packages[at[i]].placed)
    /\ pc[i] \in Places \ {"visit", "read", "done", "failed"} =>
           job[i].mode \in {"run", "prepare"} /\ Scripts(i, at[i]) # <<>>
    /\ pc[i] \in Ensuring \cup Copying \cup {"lock"} => UsesDerived(i)
    /\ pc[i] = "copy" => job[i].mode = "run"
    /\ pc[i] \in {"place", "in place"} => job[i].mode = "run"
    /\ pc[i] = "in place" /\ job[i].volume => Packages[at[i]].placed
    /\ pc[i] = "visit" => at[i] <= Len(Packages) + 1
    /\ pc[i] \in {"visit", "read", "lock", "look", "isolate", "hit", "place"} => step[i] = 1
    /\ pc[i] = "done" => job[i].mode = "ignore" \/ at[i] = Len(Packages) + 1

(* The tree scripts run in is a copy with the marks of the scripts that    *)
(* are over; marks of later ones may be there from a build that was        *)
(* degraded.  One into which an image is copied has the marks that were    *)
(* met, all of them so far unless a collector came between.                *)
Isolated(i) ==
    /\ pc[i] \in {"build", "in place"} =>
           /\ ~Tree(i).shared
           /\ Tree(i).ran \subseteq Due(i)
           /\ \A k \in DOMAIN Scripts(i, at[i]) : k < step[i] => Mark(i, k) \in Tree(i).ran
    /\ pc[i] \in {"publish", "publish metadata"} => Tree(i).ran = Due(i)
    /\ pc[i] = "copy" =>
           /\ Tree(i).ran \subseteq Due(i)
           /\ <<i, at[i]>> \in raced \/ \A k \in DOMAIN Scripts(i, at[i]) : k < step[i] => Mark(i, k) \in Tree(i).ran

(* The packages behind the pass are as if run, but for files of an image   *)
(* that was collected while it was attached, and those ahead untouched.    *)
Settled(i, p) ==
    /\ entry[i][p].ran \subseteq AsIfRun(p, job[i].env)
    /\ <<i, p>> \in raced \/ entry[i][p].ran = AsIfRun(p, job[i].env)
EntriesInOrder(i) ==
    job[i].mode = "run" /\ job[i].volume => \A p \in DOMAIN Packages :
        /\ p < at[i] => Settled(i, p)
        /\ p = at[i] => entry[i][p].ran \subseteq AsIfRun(p, job[i].env)
        /\ p > at[i] => entry[i][p].ran = {}

(* The paths behind the pass are recorded, those ahead are not.            *)
PathsInOrder(i) ==
    job[i].mode \in {"run", "skip"} /\ job[i].volume =>
        /\ paths[i] \subseteq Recorded
        /\ \A p \in Recorded : p < at[i] => p \in paths[i]
        /\ \A p \in paths[i] : p <= at[i]
        /\ pc[i] = "in place" => at[i] \in paths[i]

PassInv(i) == AtPackage(i) /\ Isolated(i) /\ EntriesInOrder(i) /\ PathsInOrder(i)

(* Unless a collector began to remove it since, the image that a pass was  *)
(* told to attach is whole.                                                *)
HitWhole(i) ==
    pc[i] \in Copying /\ <<i, at[i]>> \notin raced =>
        lock[Key(i)] # Collector /\ derived[Key(i)].ran = Marks(Key(i))

(* An image that is being removed passes no test any more.                 *)
RemovedTorn == \A key \in Keys : lock[key] = Collector => derived[key].state = "torn"

PassesInv ==
    /\ TypeOK /\ LockedWhileEnsuring /\ ImagesPristine /\ DerivedComplete
    /\ \A i \in Passes : PassInv(i)
ImagesInv == RemovedTorn /\ \A i \in Passes : HitWhole(i)
IInv == PassesInv /\ ImagesInv

(* A step of one pass leaves the others where they are.                    *)
SamePass(j) ==
    /\ job'[j] = job[j] /\ pc'[j] = pc[j] /\ at'[j] = at[j] /\ step'[j] = step[j]
    /\ entry'[j] = entry[j] /\ work'[j] = work[j] /\ paths'[j] = paths[j]
    /\ \A p : <<j, p>> \in raced => <<j, p>> \in raced'
OnlyOf(i) == job' = job /\ \A j \in Passes \ {i} : SamePass(j)
-----------------------------------------------------------------------------
(* The lock's packages, from LockAssumption. *)
LEMMA PackageFacts ==
    /\ Len(Packages) \in Nat /\ DOMAIN Packages = 1 .. Len(Packages)
    /\ \A p \in DOMAIN Packages :
           /\ Packages[p].fetched \in BOOLEAN /\ Packages[p].placed \in BOOLEAN
           /\ Packages[p].scripts \in Seq(STRING) /\ Packages[p].prepare \in Seq(STRING)
  <1> DEFINE R == [fetched : BOOLEAN, placed : BOOLEAN, scripts : Seq(STRING), prepare : Seq(STRING)]
  <1>1. Packages \in Seq(R)
    BY LockAssumption
  <1> HIDE DEF R
  <1>2. Len(Packages) \in Nat /\ DOMAIN Packages = 1 .. Len(Packages)
    BY <1>1
  <1>3. \A p \in DOMAIN Packages : Packages[p] \in R
    BY <1>1
  <1> QED
    BY <1>2, <1>3 DEF R

(* The scripts a pass runs for its package are a sequence. *)
LEMMA ScriptFacts ==
    ASSUME NEW i \in Passes, at[i] \in DOMAIN Packages
    PROVE  /\ Scripts(i, at[i]) \in Seq(STRING)
           /\ Len(Scripts(i, at[i])) \in Nat
           /\ DOMAIN Scripts(i, at[i]) = 1 .. Len(Scripts(i, at[i]))
           /\ job[i].mode # "prepare" => Scripts(i, at[i]) = Packages[at[i]].scripts
  BY PackageFacts DEF Scripts

(* What a pass may be, from JobsAssumption. *)
LEMMA JobFacts ==
    ASSUME TypeOK, NEW i \in Passes
    PROVE  /\ job[i] \in Jobs /\ job[i].mode \in Modes /\ job[i].volume \in BOOLEAN /\ job[i].derived \in BOOLEAN
           /\ job[i].env \in {j.env : j \in Jobs}
  BY JobsAssumption DEF TypeOK

(* The key of a derived image names the scripts and the environment that   *)
(* decide its content: a pass that runs the scripts of its package makes   *)
(* the marks of the image with its key.                                    *)
LEMMA KeyFacts ==
    ASSUME TypeOK, NEW i \in Passes, at[i] \in DOMAIN Packages, job[i].mode \in {"run", "prepare"}
    PROVE  /\ Key(i) \in Keys
           /\ Due(i) = Marks(Key(i))
           /\ Due(i) \subseteq AllMarks
  <1>1. job[i].env \in {j.env : j \in Jobs}
    BY JobFacts
  <1>2. Key(i) \in Keys
    BY <1>1 DEF Key, Keys
  <1>3. Due(i) = Marks(Key(i))
    BY DEF Due, Mark, Marks, Key, Scripts, Sources, Prepares
  <1>4. Due(i) \subseteq AllMarks
    BY <1>1, ScriptFacts DEF Due, Mark, AllMarks
  <1> QED
    BY <1>2, <1>3, <1>4

(* For an install these are the marks its package is to bear. *)
LEMMA DueOfRun ==
    ASSUME TypeOK, NEW i \in Passes, at[i] \in DOMAIN Packages, job[i].mode = "run"
    PROVE  Due(i) = Marks(<<at[i], job[i].env, "run">>)
  BY KeyFacts DEF Key

(* A pass that attaches an image is at a package of the lock. *)
LEMMA CopyingKey ==
    ASSUME PassesInv, NEW j \in Passes, pc[j] \in Copying
    PROVE  Key(j) \in Keys
  <1>1. pc[j] \in Places \ {"visit", "read", "done", "failed"}
    BY DEF Places, Copying
  <1> QED
    BY <1>1, KeyFacts DEF PassesInv, PassInv, AtPackage

(* A package without scripts is as if run from the start. *)
LEMMA NoScriptsNoMarks ==
    ASSUME NEW p \in DOMAIN Packages, Packages[p].scripts = <<>>, NEW env
    PROVE  AsIfRun(p, env) = {}
  BY DEF AsIfRun, Marks, Sources

(* A guard that is dropped gives up its own lock only. *)
LEMMA ReleaseEffect ==
    ASSUME TypeOK, NEW i \in Passes, Release(i)
    PROVE  /\ lock' \in [Keys -> Passes \cup {Free, Collector}]
           /\ \A key \in Keys : lock'[key] = IF lock[key] = i THEN Free ELSE lock[key]
  BY DEF TypeOK, Release

(* A pass that gives up its lock and leaves ensure keeps locks and passes  *)
(* in step.                                                                *)
LEMMA LocksReleased ==
    ASSUME TypeOK, LockedWhileEnsuring, NEW i \in Passes, OnlyOf(i), Release(i), pc'[i] \notin Ensuring
    PROVE  LockedWhileEnsuring'
  <1> SUFFICES ASSUME NEW j \in Passes, NEW key \in Keys
               PROVE  lock'[key] = j <=> pc'[j] \in Ensuring /\ key = Key(j)'
    BY DEF LockedWhileEnsuring, Keys
  <1>1. lock'[key] = IF lock[key] = i THEN Free ELSE lock[key]
    BY ReleaseEffect
  <1>2. lock[key] = j <=> pc[j] \in Ensuring /\ key = Key(j)
    BY DEF LockedWhileEnsuring
  <1>3. CASE j = i
    BY <1>1, <1>3, JobsAssumption
  <1>4. CASE j # i
    <2>1. pc'[j] = pc[j] /\ Key(j)' = Key(j)
      BY <1>4 DEF OnlyOf, SamePass, Key
    <2> QED
      BY <1>1, <1>2, <1>4, <2>1, JobsAssumption
  <1> QED
    BY <1>3, <1>4

(* So does one that stays inside ensure on the same package, or outside. *)
LEMMA LocksKept ==
    ASSUME LockedWhileEnsuring, NEW i \in Passes, OnlyOf(i), lock' = lock,
           pc'[i] \in Ensuring <=> pc[i] \in Ensuring,
           pc[i] \in Ensuring => at'[i] = at[i]
    PROVE  LockedWhileEnsuring'
  <1> SUFFICES ASSUME NEW j \in Passes, NEW key \in Keys
               PROVE  lock'[key] = j <=> pc'[j] \in Ensuring /\ key = Key(j)'
    BY DEF LockedWhileEnsuring, Keys
  <1>1. lock[key] = j <=> pc[j] \in Ensuring /\ key = Key(j)
    BY DEF LockedWhileEnsuring
  <1>2. pc'[j] \in Ensuring <=> pc[j] \in Ensuring
    BY DEF OnlyOf, SamePass
  <1>3. pc[j] \in Ensuring => Key(j)' = Key(j)
    BY DEF OnlyOf, SamePass, Key
  <1> QED
    BY <1>1, <1>2, <1>3

(* What holds of a pass depends on its own tree and position: steps of     *)
(* others leave it alone.                                                  *)
LEMMA OthersKeep ==
    ASSUME NEW j \in Passes, SamePass(j), PassInv(j)
    PROVE  PassInv(j)'
  <1>1. /\ job'[j] = job[j] /\ pc'[j] = pc[j] /\ at'[j] = at[j] /\ step'[j] = step[j]
        /\ entry'[j] = entry[j] /\ work'[j] = work[j] /\ paths'[j] = paths[j]
        /\ \A p : <<j, p>> \in raced => <<j, p>> \in raced'
    BY DEF SamePass
  <1>2. /\ Tree(j)' = Tree(j) /\ Due(j)' = Due(j)
        /\ \A p : Scripts(j, p)' = Scripts(j, p)
        /\ \A k : Mark(j, k)' = Mark(j, k)
        /\ UsesDerived(j)' = UsesDerived(j)
    BY <1>1 DEF Tree, InEntry, Due, Mark, Scripts, UsesDerived
  <1>3. AtPackage(j)'
    BY <1>1, <1>2 DEF PassInv, AtPackage
  <1>4. Isolated(j)'
    BY <1>1, <1>2 DEF PassInv, Isolated
  <1>5. EntriesInOrder(j)'
    BY <1>1 DEF PassInv, EntriesInOrder, Settled
  <1>6. PathsInOrder(j)'
    BY <1>1 DEF PassInv, PathsInOrder
  <1> QED
    BY <1>3, <1>4, <1>5, <1>6 DEF PassInv

(* A step of one pass has to be looked at for that pass only, besides the  *)
(* parts that are shared.                                                  *)
LEMMA OnePass ==
    ASSUME IInv, NEW i \in Passes, OnlyOf(i), TypeOK', LockedWhileEnsuring', ImagesPristine', DerivedComplete',
           PassInv(i)'
    PROVE  PassesInv'
  <1>1. ASSUME NEW j \in Passes PROVE PassInv(j)'
    <2>1. CASE j # i
      BY <2>1, OthersKeep DEF IInv, PassesInv, OnlyOf
    <2> QED
      BY <2>1
  <1> QED
    BY <1>1 DEF PassesInv

(* Going on to the next package is right when this one is as if run and    *)
(* its path recorded or rightly not.                                       *)
LEMMA Passed ==
    ASSUME TypeOK, NEW i \in Passes, PassInv(i), at[i] \in DOMAIN Packages, Next1(i), job' = job, raced' = raced,
           job[i].mode = "run" /\ job[i].volume =>
               /\ entry'[i][at[i]].ran \subseteq AsIfRun(at[i], job[i].env)
               /\ <<i, at[i]>> \in raced \/ entry'[i][at[i]].ran = AsIfRun(at[i], job[i].env)
               /\ \A p \in DOMAIN Packages \ {at[i]} : entry'[i][p] = entry[i][p],
           job[i].mode \in {"run", "skip"} /\ job[i].volume =>
               /\ at[i] \in paths'[i] <=> at[i] \in Recorded
               /\ \A p \in DOMAIN Packages \ {at[i]} : p \in paths'[i] <=> p \in paths[i]
               /\ paths'[i] \subseteq DOMAIN Packages
    PROVE  /\ PassInv(i)' /\ pc'[i] = "visit" /\ pc' \in [Passes -> Places]
           /\ at' \in [Passes -> Nat \ {0}] /\ step' \in [Passes -> Nat \ {0}]
           /\ \A j \in Passes \ {i} : pc'[j] = pc[j] /\ at'[j] = at[j] /\ step'[j] = step[j]
  <1>1. /\ pc'[i] = "visit" /\ pc' \in [Passes -> Places] /\ at'[i] = at[i] + 1 /\ step'[i] = 1
        /\ at' \in [Passes -> Nat \ {0}] /\ step' \in [Passes -> Nat \ {0}]
        /\ \A j \in Passes \ {i} : pc'[j] = pc[j] /\ at'[j] = at[j] /\ step'[j] = step[j]
    <2>1. /\ pc' = [pc EXCEPT ![i] = "visit"] /\ at' = [at EXCEPT ![i] = at[i] + 1]
          /\ step' = [step EXCEPT ![i] = 1]
      BY DEF Next1, Goto
    <2>2. /\ pc \in [Passes -> Places] /\ at \in [Passes -> Nat \ {0}] /\ step \in [Passes -> Nat \ {0}]
          /\ "visit" \in Places
      BY DEF TypeOK, Places
    <2>3. at[i] + 1 \in Nat \ {0}
      BY <2>2
    <2> QED
      BY <2>1, <2>2, <2>3
  <1>2. DOMAIN Packages = 1 .. Len(Packages) /\ Len(Packages) \in Nat /\ at[i] \in Nat
    BY PackageFacts DEF TypeOK
  <1>3. AtPackage(i)'
    BY <1>1, <1>2 DEF AtPackage, Ensuring, Copying
  <1>4. Isolated(i)'
    BY <1>1 DEF Isolated
  <1>5. EntriesInOrder(i)'
    <2>1. ASSUME job[i].mode = "run", job[i].volume, NEW p \in DOMAIN Packages
          PROVE  /\ p < at[i] + 1 =>
                        /\ entry'[i][p].ran \subseteq AsIfRun(p, job[i].env)
                        /\ <<i, p>> \in raced \/ entry'[i][p].ran = AsIfRun(p, job[i].env)
                 /\ p >= at[i] + 1 => entry'[i][p].ran = {}
      <3>1. p \in Nat
        BY <1>2
      <3>2. CASE p = at[i]
        BY <1>2, <2>1, <3>1, <3>2
      <3>3. CASE p # at[i]
        BY <1>2, <2>1, <3>1, <3>3 DEF PassInv, EntriesInOrder, Settled
      <3> QED
        BY <3>2, <3>3
    <2>2. ASSUME job[i].mode = "run", job[i].volume, NEW p \in DOMAIN Packages
          PROVE  /\ p < at'[i] => Settled(i, p)'
                 /\ p = at'[i] => entry'[i][p].ran \subseteq AsIfRun(p, job'[i].env)
                 /\ p > at'[i] => entry'[i][p].ran = {}
      <3>1. p \in Nat
        BY <1>2
      <3>2. p < at'[i] => Settled(i, p)'
        BY <1>1, <2>1, <2>2 DEF Settled
      <3>3. p > at'[i] => p >= at[i] + 1
        BY <1>1, <1>2, <3>1
      <3>4. p = at'[i] => p >= at[i] + 1
        BY <1>1, <1>2, <3>1
      <3> QED
        BY <2>1, <2>2, <3>2, <3>3, <3>4
    <2> QED
      BY <2>2 DEF EntriesInOrder, AsIfRun, Wanted, Marks
  <1>6. PathsInOrder(i)'
    <2> SUFFICES ASSUME job[i].mode \in {"run", "skip"}, job[i].volume
                 PROVE  /\ paths'[i] \subseteq Recorded
                        /\ \A p \in Recorded : p < at[i] + 1 => p \in paths'[i]
                        /\ \A p \in paths'[i] : p <= at[i] + 1
      BY <1>1 DEF PathsInOrder, Recorded, Wanted
    <2>1. Recorded \subseteq DOMAIN Packages
      BY DEF Recorded
    <2>2. /\ paths[i] \subseteq Recorded
          /\ \A p \in Recorded : p < at[i] => p \in paths[i]
          /\ \A p \in paths[i] : p <= at[i]
      BY DEF PassInv, PathsInOrder
    <2>3. paths'[i] \subseteq Recorded
      BY <2>2
    <2>4. ASSUME NEW p \in Recorded, p < at[i] + 1 PROVE p \in paths'[i]
      BY <1>2, <2>1, <2>2, <2>4
    <2>5. ASSUME NEW p \in paths'[i] PROVE p <= at[i] + 1
      BY <1>2, <2>1, <2>2, <2>3, <2>5
    <2> QED
      BY <2>3, <2>4, <2>5
  <1> QED
    BY <1>1, <1>3, <1>4, <1>5, <1>6 DEF PassInv

(* A pass that fails keeps what it had done for the packages before. *)
LEMMA Failed ==
    ASSUME NEW i \in Passes, PassInv(i), job' = job, raced' = raced, pc'[i] = "failed",
           at'[i] = at[i], entry'[i] = entry[i], paths'[i] = paths[i]
    PROVE  PassInv(i)'
  <1>1. AtPackage(i)' /\ Isolated(i)'
    BY DEF AtPackage, Isolated, Ensuring, Places, Copying
  <1>2. EntriesInOrder(i)'
    BY DEF PassInv, EntriesInOrder, Settled
  <1>3. PathsInOrder(i)'
    BY DEF PassInv, PathsInOrder
  <1> QED
    BY <1>1, <1>2, <1>3 DEF PassInv

(* Writing to the package's tree changes its entry in the volume's staging *)
(* tree, or the working copy, and nothing else.                            *)
LEMMA TreeSet ==
    ASSUME TypeOK, NEW i \in Passes, at[i] \in DOMAIN Packages, NEW tree \in Trees, SetTree(i, tree)
    PROVE  /\ entry' \in [Passes -> [DOMAIN Packages -> Trees]] /\ work' \in [Passes -> Trees]
           /\ \A j \in Passes \ {i} : entry'[j] = entry[j] /\ work'[j] = work[j]
           /\ \A p \in DOMAIN Packages \ {at[i]} : entry'[i][p] = entry[i][p]
           /\ InEntry(i) => entry'[i][at[i]] = tree
           /\ ~InEntry(i) => entry' = entry
           /\ job' = job /\ at' = at => Tree(i)' = tree
  <1>1. CASE InEntry(i)
    <2>1. entry' = [entry EXCEPT ![i] = [entry[i] EXCEPT ![at[i]] = tree]] /\ work' = work
      BY <1>1 DEF SetTree
    <2>2. entry \in [Passes -> [DOMAIN Packages -> Trees]] /\ work \in [Passes -> Trees]
      BY DEF TypeOK
    <2>3. entry[i] \in [DOMAIN Packages -> Trees]
      BY <2>2
    <2>4. entry'[i] = [entry[i] EXCEPT ![at[i]] = tree] /\ entry'[i] \in [DOMAIN Packages -> Trees]
      BY <2>1, <2>2, <2>3
    <2>5. entry' \in [Passes -> [DOMAIN Packages -> Trees]]
      BY <2>1, <2>2, <2>4
    <2>6. entry'[i][at[i]] = tree
      BY <2>3, <2>4
    <2>7. job' = job /\ at' = at => Tree(i)' = tree
      BY <1>1, <2>6 DEF Tree, InEntry
    <2>8. \A j \in Passes \ {i} : entry'[j] = entry[j] /\ work'[j] = work[j]
      BY <2>1, <2>2
    <2>9. \A p \in DOMAIN Packages \ {at[i]} : entry'[i][p] = entry[i][p]
      BY <2>3, <2>4
    <2> QED
      BY <1>1, <2>1, <2>2, <2>5, <2>6, <2>7, <2>8, <2>9
  <1>2. CASE ~InEntry(i)
    BY <1>2 DEF TypeOK, SetTree, Tree, InEntry
  <1> QED
    BY <1>1, <1>2

(* A package under way bears some of its marks and no others. *)
LEMMA EntryReplaced ==
    ASSUME TypeOK, NEW i \in Passes, PassInv(i), job' = job, at' = at, raced' = raced,
           \A p \in DOMAIN Packages \ {at[i]} : entry'[i][p] = entry[i][p],
           job[i].mode = "run" /\ job[i].volume => entry'[i][at[i]].ran \subseteq AsIfRun(at[i], job[i].env)
    PROVE  EntriesInOrder(i)'
  <1> SUFFICES ASSUME job[i].mode = "run", job[i].volume, NEW p \in DOMAIN Packages
               PROVE  /\ p < at[i] =>
                             /\ entry'[i][p].ran \subseteq AsIfRun(p, job[i].env)
                             /\ <<i, p>> \in raced \/ entry'[i][p].ran = AsIfRun(p, job[i].env)
                      /\ p = at[i] => entry'[i][p].ran \subseteq AsIfRun(p, job[i].env)
                      /\ p > at[i] => entry'[i][p].ran = {}
    BY DEF EntriesInOrder, Settled, AsIfRun, Wanted, Marks, Sources, Prepares
  <1>1. p \in Nat /\ at[i] \in Nat
    BY PackageFacts DEF TypeOK
  <1>2. CASE p = at[i]
    BY <1>1, <1>2
  <1>3. CASE p # at[i]
    BY <1>3 DEF PassInv, EntriesInOrder, Settled
  <1> QED
    BY <1>2, <1>3

(* The tree a pass works on. *)
LEMMA TreeFacts ==
    ASSUME TypeOK, NEW i \in Passes, at[i] \in DOMAIN Packages
    PROVE  /\ Tree(i) \in Trees /\ Tree(i).shared \in BOOLEAN /\ Tree(i).ran \subseteq AllMarks
           /\ InEntry(i) => Tree(i) = entry[i][at[i]]
  BY DEF TypeOK, Tree, Trees

(* A step that only moves the pass. *)
LEMMA Moved ==
    ASSUME TypeOK, NEW i \in Passes, NEW place \in Places, Goto(i, place)
    PROVE  /\ pc' \in [Passes -> Places] /\ pc'[i] = place
           /\ \A j \in Passes \ {i} : pc'[j] = pc[j]
  BY DEF TypeOK, Goto

(* The store's and the derived images are as they were. *)
LEMMA StoreKept ==
    ASSUME ImagesPristine, DerivedComplete, image' = image, derived' = derived
    PROVE  ImagesPristine' /\ DerivedComplete'
  BY DEF ImagesPristine, DerivedComplete

(* A failure is counted. *)
LEMMA FaultTypes ==
    ASSUME TypeOK, Fault
    PROVE  faults' \in 0 .. MaxFaults
  BY BoundsAssumption DEF TypeOK, Fault

(* A pass that moves on within its package and writes no entry and no path *)
(* keeps their order.                                                      *)
LEMMA Stays ==
    ASSUME NEW i \in Passes, PassInv(i), job' = job, at' = at, raced' = raced, entry' = entry, paths' = paths,
           pc'[i] # "in place", AtPackage(i)', Isolated(i)'
    PROVE  PassInv(i)'
  <1>1. EntriesInOrder(i)'
    BY DEF PassInv, EntriesInOrder, Settled
  <1>2. PathsInOrder(i)'
    BY DEF PassInv, PathsInOrder
  <1> QED
    BY <1>1, <1>2 DEF PassInv
-----------------------------------------------------------------------------
(* Every pass begins at the first package, over a staging tree that still  *)
(* is the store's.                                                         *)
LEMMA InitInv == Init => IInv
  <1> SUFFICES ASSUME Init PROVE IInv
    OBVIOUS
  <1>0. /\ Len(Packages) \in Nat /\ DOMAIN Packages = 1 .. Len(Packages)
        /\ Pristine \in Trees /\ Pristine.ran = {}
        /\ Absent \in [state : States, ran : SUBSET AllMarks]
        /\ Absent.state = "absent" /\ Absent.ran = {}
        /\ "visit" \in Places /\ "visit" \notin Ensuring
    BY PackageFacts DEF Pristine, Trees, Absent, States, Places, Ensuring, Copying
  <1>1. TypeOK
    <2>1. image \in [DOMAIN Packages -> [present : BOOLEAN, ran : SUBSET AllMarks]]
      <3>1. PICK lost : image = [p \in DOMAIN Packages |-> [present |-> p \notin lost, ran |-> {}]]
        BY DEF Init
      <3>2. \A p \in DOMAIN Packages :
                [present |-> p \notin lost, ran |-> {}] \in [present : BOOLEAN, ran : SUBSET AllMarks]
        OBVIOUS
      <3> QED
        BY <3>1, <3>2
    <2>2. /\ entry \in [Passes -> [DOMAIN Packages -> Trees]] /\ work \in [Passes -> Trees]
          /\ derived \in [Keys -> [state : States, ran : SUBSET AllMarks]]
      BY <1>0 DEF Init
    <2>3. /\ pc \in [Passes -> Places] /\ at \in [Passes -> Nat \ {0}] /\ step \in [Passes -> Nat \ {0}]
          /\ faults \in 0 .. MaxFaults /\ crashes \in 0 .. MaxCrashes
      BY <1>0, BoundsAssumption DEF Init
    <2> QED
      BY <2>1, <2>2, <2>3 DEF Init, TypeOK
  <1>2. LockedWhileEnsuring
    BY <1>0, JobsAssumption DEF Init, LockedWhileEnsuring
  <1>3. ImagesPristine
    BY DEF Init, ImagesPristine
  <1>4. DerivedComplete
    BY <1>0 DEF Init, DerivedComplete
  <1>5. ASSUME NEW i \in Passes PROVE PassInv(i)
    <2>1. /\ pc[i] = "visit" /\ at[i] = 1 /\ step[i] = 1 /\ paths[i] = {}
          /\ \A p \in DOMAIN Packages : entry[i][p] = Pristine
      BY DEF Init
    <2>2. AtPackage(i)
      BY <1>0, <2>1 DEF AtPackage, Places, Ensuring, Copying
    <2>3. Isolated(i)
      BY <2>1 DEF Isolated
    <2>4. EntriesInOrder(i)
      BY <1>0, <2>1 DEF EntriesInOrder
    <2>5. PathsInOrder(i)
      BY <1>0, <2>1 DEF PathsInOrder, Recorded
    <2> QED
      BY <2>2, <2>3, <2>4, <2>5 DEF PassInv
  <1>6. ImagesInv
    BY <1>0, JobsAssumption DEF Init, ImagesInv, RemovedTorn, HitWhole, Copying, Free, Collector
  <1> QED
    BY <1>1, <1>2, <1>3, <1>4, <1>5, <1>6 DEF IInv, PassesInv
-----------------------------------------------------------------------------
(* What is passed over unread is a package that is not to bear marks, and  *)
(* whose path nobody records; the end of the list ends the pass.           *)
LEMMA VisitInv ==
    ASSUME IInv, NEW i \in Passes, Visit(i)
    PROVE  PassesInv'
  <1>1. /\ pc[i] = "visit" /\ job' = job /\ entry' = entry /\ work' = work /\ paths' = paths /\ image' = image
        /\ derived' = derived /\ lock' = lock /\ faults' = faults /\ crashes' = crashes /\ excused' = excused /\ raced' = raced
    BY DEF Visit
  <1>2. /\ TypeOK /\ LockedWhileEnsuring /\ PassInv(i) /\ ImagesPristine' /\ DerivedComplete'
        /\ at[i] \in Nat \ {0} /\ at[i] <= Len(Packages) + 1
        /\ Len(Packages) \in Nat /\ DOMAIN Packages = 1 .. Len(Packages)
    BY <1>1, StoreKept, PackageFacts DEF IInv, PassesInv, TypeOK, PassInv, AtPackage
  <1>3. SUFFICES /\ PassInv(i)' /\ pc' \in [Passes -> Places] /\ at' \in [Passes -> Nat \ {0}]
                 /\ step' \in [Passes -> Nat \ {0}] /\ pc'[i] \notin Ensuring
                 /\ \A j \in Passes \ {i} : pc'[j] = pc[j] /\ at'[j] = at[j] /\ step'[j] = step[j]
    <2>1. OnlyOf(i)
      BY <1>1, <1>3 DEF OnlyOf, SamePass
    <2>2. TypeOK'
      BY <1>1, <1>2, <1>3 DEF TypeOK
    <2>3. LockedWhileEnsuring'
      BY <1>1, <1>2, <1>3, <2>1, LocksKept DEF Ensuring
    <2> QED
      BY <1>2, <1>3, <2>1, <2>2, <2>3, OnePass
  <1>4. CASE job[i].mode = "ignore" \/ at[i] > Len(Packages)
    <2>1. Goto(i, "done") /\ at' = at /\ step' = step
      BY <1>4 DEF Visit
    <2>2. /\ pc' \in [Passes -> Places] /\ pc'[i] = "done"
          /\ \A j \in Passes \ {i} : pc'[j] = pc[j]
      BY <1>2, <2>1, Moved DEF Places, Copying
    <2>3. job[i].mode = "ignore" \/ at[i] = Len(Packages) + 1
      BY <1>2, <1>4
    <2>4. AtPackage(i)'
      BY <1>1, <2>1, <2>2, <2>3 DEF AtPackage, Ensuring, Places, Copying
    <2>5. Isolated(i)'
      BY <2>2 DEF Isolated
    <2> QED
      BY <1>1, <1>2, <2>1, <2>2, <2>4, <2>5, Stays DEF TypeOK, Ensuring
  <1>5. CASE ~(job[i].mode = "ignore" \/ at[i] > Len(Packages))
    <2> DEFINE p == Packages[at[i]]
    <2>1. at[i] \in DOMAIN Packages /\ p.fetched \in BOOLEAN /\ p.placed \in BOOLEAN
      BY <1>2, <1>5, PackageFacts
    <2>2. CASE ~p.fetched \/ (job[i].mode = "skip" /\ ~(job[i].volume /\ p.placed))
      <3>1. Next1(i)
        BY <1>5, <2>2 DEF Visit
      <3>2. job[i].mode = "run" /\ job[i].volume => AsIfRun(at[i], job[i].env) = {} /\ entry[i][at[i]].ran = {}
        BY <1>2, <2>1, <2>2 DEF PassInv, EntriesInOrder, AsIfRun, Wanted
      <3>3. job[i].mode \in {"run", "skip"} /\ job[i].volume =>
                /\ at[i] \in paths[i] <=> at[i] \in Recorded
                /\ paths[i] \subseteq DOMAIN Packages
        BY <1>2, <2>1, <2>2 DEF PassInv, PathsInOrder, Recorded, Wanted
      <3> QED
        BY <1>1, <1>2, <2>1, <3>1, <3>2, <3>3, Passed DEF Ensuring
    <2>3. CASE ~(~p.fetched \/ (job[i].mode = "skip" /\ ~(job[i].volume /\ p.placed)))
      <3>1. Goto(i, "read") /\ at' = at /\ step' = step
        BY <1>5, <2>3 DEF Visit
      <3>2. /\ pc' \in [Passes -> Places] /\ pc'[i] = "read"
            /\ \A j \in Passes \ {i} : pc'[j] = pc[j]
        BY <1>2, <3>1, Moved DEF Places, Copying
      <3>3. AtPackage(i)' /\ Isolated(i)'
        BY <1>1, <1>2, <1>5, <2>1, <2>3, <3>1, <3>2 DEF PassInv, AtPackage, Isolated, Ensuring, Places, Copying
      <3> QED
        BY <1>1, <1>2, <3>1, <3>2, <3>3, Stays DEF TypeOK, Ensuring
    <2> QED
      BY <2>2, <2>3
  <1> QED
    BY <1>4, <1>5

(* A manifest that cannot be read ends the pass. *)
LEMMA ReadFailsInv ==
    ASSUME IInv, NEW i \in Passes, ReadFails(i)
    PROVE  PassesInv'
  <1>1. /\ pc[i] = "read" /\ Goto(i, "failed") /\ excused' = excused \cup {i} /\ raced' = raced
        /\ job' = job /\ at' = at /\ step' = step /\ entry' = entry /\ work' = work /\ paths' = paths
        /\ image' = image /\ derived' = derived /\ lock' = lock /\ crashes' = crashes
        /\ Fault \/ faults' = faults
    BY DEF ReadFails, Excuse
  <1>2. TypeOK /\ LockedWhileEnsuring /\ PassInv(i) /\ ImagesPristine' /\ DerivedComplete'
    BY <1>1, StoreKept DEF IInv, PassesInv
  <1>3. pc' \in [Passes -> Places] /\ pc'[i] = "failed" /\ \A j \in Passes \ {i} : pc'[j] = pc[j]
    BY <1>1, <1>2, Moved DEF Places, Copying
  <1>4. OnlyOf(i)
    BY <1>1, <1>3 DEF OnlyOf, SamePass
  <1>5. TypeOK'
    <2>1. faults' \in 0 .. MaxFaults
      BY <1>1, <1>2, FaultTypes DEF TypeOK
    <2> QED
      BY <1>1, <1>2, <1>3, <2>1 DEF TypeOK
  <1>6. LockedWhileEnsuring'
    BY <1>1, <1>2, <1>3, <1>4, LocksKept DEF Ensuring
  <1>7. PassInv(i)'
    BY <1>1, <1>2, <1>3, Failed
  <1> QED
    BY <1>2, <1>4, <1>5, <1>6, <1>7, OnePass

(* read_scripts_healing restores an image without marks; a package without *)
(* scripts is passed over, and over a cached volume exactly the paths are  *)
(* recorded that the building pass recorded.                               *)
LEMMA ReadScriptsInv ==
    ASSUME IInv, NEW i \in Passes, ReadScripts(i)
    PROVE  PassesInv'
  <1>1. /\ pc[i] = "read" /\ image' = [image EXCEPT ![at[i]].present = TRUE]
        /\ job' = job /\ entry' = entry /\ work' = work
        /\ derived' = derived /\ lock' = lock /\ faults' = faults /\ crashes' = crashes /\ excused' = excused /\ raced' = raced
    BY DEF ReadScripts
  <1>2. /\ TypeOK /\ LockedWhileEnsuring /\ PassInv(i)
        /\ at[i] \in DOMAIN Packages /\ Packages[at[i]].fetched /\ step[i] = 1
        /\ job[i].mode \in Modes \ {"ignore"} /\ (job[i].mode = "skip" => Packages[at[i]].placed)
    BY <1>1, JobFacts DEF IInv, PassesInv, PassInv, AtPackage, Places, Ensuring, Copying
  <1>3. /\ image' \in [DOMAIN Packages -> [present : BOOLEAN, ran : SUBSET AllMarks]]
        /\ \A p \in DOMAIN Packages : image'[p].ran = image[p].ran
    <2> DEFINE R == [present : BOOLEAN, ran : SUBSET AllMarks]
               healed == [image[at[i]] EXCEPT !.present = TRUE]
    <2>1. image \in [DOMAIN Packages -> R]
      BY <1>2 DEF TypeOK
    <2>2. image' = [image EXCEPT ![at[i]] = healed]
      BY <1>1
    <2>3. healed \in R /\ healed.ran = image[at[i]].ran
      BY <1>2, <2>1
    <2> HIDE DEF R, healed
    <2>4. image' \in [DOMAIN Packages -> R] /\ \A p \in DOMAIN Packages : image'[p].ran = image[p].ran
      BY <1>2, <2>1, <2>2, <2>3
    <2> QED
      BY <2>4 DEF R
  <1>4. ImagesPristine' /\ DerivedComplete'
    BY <1>1, <1>3 DEF IInv, PassesInv, ImagesPristine, DerivedComplete
  <1>5. SUFFICES /\ PassInv(i)' /\ pc' \in [Passes -> Places] /\ at' \in [Passes -> Nat \ {0}]
                 /\ step' \in [Passes -> Nat \ {0}] /\ pc'[i] \notin Ensuring
                 /\ paths' \in [Passes -> SUBSET DOMAIN Packages]
                 /\ \A j \in Passes \ {i} :
                        pc'[j] = pc[j] /\ at'[j] = at[j] /\ step'[j] = step[j] /\ paths'[j] = paths[j]
    <2>1. OnlyOf(i)
      BY <1>1, <1>5 DEF OnlyOf, SamePass
    <2>2. TypeOK'
      BY <1>1, <1>2, <1>3, <1>5 DEF TypeOK
    <2>3. LockedWhileEnsuring'
      BY <1>1, <1>2, <1>5, <2>1, LocksKept DEF Ensuring
    <2> QED
      BY <1>4, <1>5, <2>1, <2>2, <2>3, OnePass
  <1>6. paths \in [Passes -> SUBSET DOMAIN Packages]
    BY <1>2 DEF TypeOK
  <1>7. CASE Scripts(i, at[i]) = <<>>
    <2>1. Next1(i) /\ paths' = paths
      BY <1>7 DEF ReadScripts
    <2>2. job[i].mode = "run" /\ job[i].volume => AsIfRun(at[i], job[i].env) = {} /\ entry[i][at[i]].ran = {}
      BY <1>2, <1>7, NoScriptsNoMarks DEF PassInv, EntriesInOrder, Scripts
    <2>3. job[i].mode \in {"run", "skip"} /\ job[i].volume =>
              /\ at[i] \in paths[i] <=> at[i] \in Recorded
              /\ paths[i] \subseteq DOMAIN Packages
      BY <1>2, <1>7 DEF PassInv, PathsInOrder, Recorded, Scripts
    <2> QED
      BY <1>1, <1>2, <1>6, <2>1, <2>2, <2>3, Passed DEF Ensuring
  <1>8. CASE Scripts(i, at[i]) # <<>> /\ job[i].mode = "skip"
    <2>1. Next1(i) /\ paths' = [paths EXCEPT ![i] = paths[i] \cup {at[i]}]
      BY <1>8 DEF ReadScripts, Record
    <2>2. /\ paths' \in [Passes -> SUBSET DOMAIN Packages] /\ paths'[i] = paths[i] \cup {at[i]}
          /\ \A j \in Passes \ {i} : paths'[j] = paths[j]
      BY <1>2, <1>6, <2>1
    <2>3. at[i] \in Recorded
      BY <1>2, <1>8 DEF Recorded, Wanted, Scripts
    <2> QED
      BY <1>1, <1>2, <1>8, <2>1, <2>2, <2>3, Passed DEF Ensuring
  <1>9. CASE Scripts(i, at[i]) # <<>> /\ job[i].mode # "skip"
    <2> DEFINE place == IF UsesDerived(i) THEN "lock" ELSE "place"
    <2>1. Goto(i, place) /\ at' = at /\ step' = step /\ paths' = paths
      BY <1>9 DEF ReadScripts
    <2>2. /\ pc' \in [Passes -> Places] /\ pc'[i] = place
          /\ \A j \in Passes \ {i} : pc'[j] = pc[j]
      BY <1>2, <2>1, Moved DEF Places, Copying
    <2>3. job[i].mode \in {"run", "prepare"} /\ (~UsesDerived(i) => job[i].mode = "run")
      BY <1>2, <1>9 DEF UsesDerived, Modes
    <2>4. Scripts(i, at[i])' = Scripts(i, at[i]) /\ UsesDerived(i)' = UsesDerived(i)
      BY <1>1, <2>1 DEF Scripts, UsesDerived
    <2>5. AtPackage(i)'
      BY <1>1, <1>2, <1>9, <2>1, <2>2, <2>3, <2>4 DEF AtPackage, Ensuring, Places, Copying
    <2>6. Isolated(i)'
      BY <2>2 DEF Isolated
    <2> QED
      BY <1>1, <1>2, <1>6, <2>1, <2>2, <2>5, <2>6, Stays DEF TypeOK, Ensuring
  <1> QED
    BY <1>7, <1>8, <1>9

(* The lock of a key is taken when it is free, so its holder is the only   *)
(* one inside ensure with that key.                                        *)
LEMMA LockInv ==
    ASSUME IInv, NEW i \in Passes, Lock(i)
    PROVE  PassesInv'
  <1>1. /\ pc[i] = "lock" /\ lock[Key(i)] = Free /\ lock' = [lock EXCEPT ![Key(i)] = i] /\ Goto(i, "look")
        /\ job' = job /\ at' = at /\ step' = step /\ entry' = entry /\ work' = work /\ paths' = paths
        /\ image' = image /\ derived' = derived /\ faults' = faults /\ crashes' = crashes /\ excused' = excused /\ raced' = raced
    BY DEF Lock
  <1>2. TypeOK /\ LockedWhileEnsuring /\ PassInv(i) /\ ImagesPristine' /\ DerivedComplete'
    BY <1>1, StoreKept DEF IInv, PassesInv
  <1>3. pc' \in [Passes -> Places] /\ pc'[i] = "look" /\ \A j \in Passes \ {i} : pc'[j] = pc[j]
    BY <1>1, <1>2, Moved DEF Places, Ensuring, Copying
  <1>4. OnlyOf(i)
    BY <1>1, <1>3 DEF OnlyOf, SamePass
  <1>5. Key(i) \in Keys
    BY <1>1, <1>2, KeyFacts DEF PassInv, AtPackage, Places
  <1>6. lock' \in [Keys -> Passes \cup {Free, Collector}]
    BY <1>1, <1>2 DEF TypeOK
  <1>7. TypeOK'
    BY <1>1, <1>2, <1>3, <1>6 DEF TypeOK
  <1>8. LockedWhileEnsuring'
    <2> SUFFICES ASSUME NEW j \in Passes, NEW key \in Keys
                 PROVE  lock'[key] = j <=> pc'[j] \in Ensuring /\ key = Key(j)
      BY <1>1 DEF LockedWhileEnsuring, Key
    <2>1. lock[key] = j <=> pc[j] \in Ensuring /\ key = Key(j)
      BY <1>2 DEF LockedWhileEnsuring
    <2>2. lock'[key] = IF key = Key(i) THEN i ELSE lock[key]
      BY <1>1, <1>2 DEF TypeOK
    <2>3. "lock" \notin Ensuring /\ "look" \in Ensuring
      BY DEF Ensuring
    <2> QED
      BY <1>1, <1>3, <2>1, <2>2, <2>3, JobsAssumption
  <1>9. PassInv(i)'
    <2>1. Scripts(i, at[i])' = Scripts(i, at[i]) /\ UsesDerived(i)' = UsesDerived(i)
      BY <1>1 DEF Scripts, UsesDerived
    <2>2. AtPackage(i)'
      BY <1>1, <1>2, <1>3, <2>1 DEF PassInv, AtPackage, Ensuring, Places, Copying
    <2>3. Isolated(i)'
      BY <1>3 DEF Isolated
    <2> QED
      BY <1>1, <1>2, <1>3, <2>2, <2>3, Stays
  <1> QED
    BY <1>2, <1>4, <1>7, <1>8, <1>9, OnePass

(* ensure gives its lock up and an install goes on in place, from the      *)
(* first script; a preparation fails.                                      *)
LEMMA Degraded ==
    ASSUME TypeOK, LockedWhileEnsuring, NEW i \in Passes, PassInv(i), pc[i] \in Ensuring, Degrade(i),
           job' = job, at' = at, raced' = raced, entry' = entry, work' = work, paths' = paths
    PROVE  /\ PassInv(i)' /\ OnlyOf(i) /\ LockedWhileEnsuring'
           /\ pc' \in [Passes -> Places] /\ step' \in [Passes -> Nat \ {0}] /\ lock' \in [Keys -> Passes \cup {Free, Collector}]
  <1>1. /\ Release(i) /\ Goto(i, IF job[i].mode = "prepare" THEN "failed" ELSE "place")
        /\ step' = [step EXCEPT ![i] = 1]
    BY DEF Degrade
  <1>2. /\ pc' \in [Passes -> Places] /\ pc'[i] = (IF job[i].mode = "prepare" THEN "failed" ELSE "place")
        /\ \A j \in Passes \ {i} : pc'[j] = pc[j]
    BY <1>1, Moved DEF Places, Copying
  <1>3. step' \in [Passes -> Nat \ {0}] /\ step'[i] = 1 /\ \A j \in Passes \ {i} : step'[j] = step[j]
    BY <1>1 DEF TypeOK
  <1>4. OnlyOf(i)
    BY <1>2, <1>3 DEF OnlyOf, SamePass
  <1>5. Scripts(i, at[i])' = Scripts(i, at[i])
    BY DEF Scripts
  <1>6. AtPackage(i)'
    BY <1>2, <1>3, <1>5 DEF PassInv, AtPackage, Ensuring, Places, Copying
  <1>7. Isolated(i)'
    BY <1>2 DEF Isolated
  <1>8. PassInv(i)'
    BY <1>2, <1>6, <1>7, Stays
  <1>9. LockedWhileEnsuring'
    BY <1>1, <1>2, <1>4, LocksReleased DEF Ensuring
  <1> QED
    BY <1>1, <1>2, <1>3, <1>4, <1>8, <1>9, ReleaseEffect

(* A failure of the derived store, before or after it has published. *)
LEMMA EnsureFailsInv ==
    ASSUME IInv, NEW i \in Passes, EnsureFails(i)
    PROVE  PassesInv'
  <1>1. /\ pc[i] \in Ensuring /\ Fault /\ Degrade(i) /\ excused' = excused \cup {i} /\ raced' = raced
        /\ job' = job /\ at' = at /\ entry' = entry /\ work' = work /\ paths' = paths
        /\ image' = image /\ derived' = derived /\ crashes' = crashes
    BY DEF EnsureFails, Excuse, Ensuring
  <1>2. TypeOK /\ LockedWhileEnsuring /\ PassInv(i) /\ ImagesPristine' /\ DerivedComplete'
    BY <1>1, StoreKept DEF IInv, PassesInv
  <1>3. /\ PassInv(i)' /\ OnlyOf(i) /\ LockedWhileEnsuring'
        /\ pc' \in [Passes -> Places] /\ step' \in [Passes -> Nat \ {0}] /\ lock' \in [Keys -> Passes \cup {Free, Collector}]
    BY <1>1, <1>2, Degraded
  <1>4. faults' \in 0 .. MaxFaults
    BY <1>1, <1>2, FaultTypes
  <1>5. TypeOK'
    BY <1>1, <1>2, <1>3, <1>4 DEF TypeOK
  <1> QED
    BY <1>2, <1>3, <1>5, OnePass

(* A copy of a store image is no longer the store's and bears no marks. *)
LEMMA CopyOfImage ==
    ASSUME TypeOK, ImagesPristine, NEW p \in DOMAIN Packages
    PROVE  Copy(image[p]) \in Trees /\ ~Copy(image[p]).shared /\ Copy(image[p]).ran = {}
  BY DEF TypeOK, ImagesPristine, Copy, Trees

(* Under the lock: build when there is nothing, attach what is sound,      *)
(* degrade on the rest.                                                    *)
LEMMA LookInv ==
    ASSUME IInv, NEW i \in Passes, Look(i)
    PROVE  PassesInv'
  <1>1. /\ pc[i] = "look"
        /\ job' = job /\ at' = at /\ entry' = entry /\ paths' = paths
        /\ image' = image /\ derived' = derived /\ faults' = faults /\ crashes' = crashes /\ excused' = excused /\ raced' = raced
    BY DEF Look
  <1>2. /\ TypeOK /\ LockedWhileEnsuring /\ PassInv(i) /\ ImagesPristine' /\ DerivedComplete'
        /\ at[i] \in DOMAIN Packages /\ step[i] = 1
    BY <1>1, StoreKept DEF IInv, PassesInv, PassInv, AtPackage, Places, Ensuring, Copying
  <1>3. Scripts(i, at[i])' = Scripts(i, at[i]) /\ UsesDerived(i)' = UsesDerived(i)
    BY <1>1 DEF Scripts, UsesDerived
  <1>4. CASE derived[Key(i)].state = "absent"
    <2>1. Goto(i, "isolate") /\ work' = [work EXCEPT ![i] = Copy(image[at[i]])] /\ step' = step /\ lock' = lock
      BY <1>4 DEF Look, ValidatePublished
    <2>2. pc' \in [Passes -> Places] /\ pc'[i] = "isolate" /\ \A j \in Passes \ {i} : pc'[j] = pc[j]
      BY <1>2, <2>1, Moved DEF Places, Ensuring, Copying
    <2>3. work' \in [Passes -> Trees] /\ \A j \in Passes \ {i} : work'[j] = work[j]
      BY <1>2, <2>1, CopyOfImage DEF IInv, PassesInv, TypeOK
    <2>4. OnlyOf(i)
      BY <1>1, <2>1, <2>2, <2>3 DEF OnlyOf, SamePass
    <2>5. TypeOK'
      BY <1>1, <1>2, <2>1, <2>2, <2>3 DEF TypeOK
    <2>6. LockedWhileEnsuring'
      BY <1>1, <1>2, <2>1, <2>2, <2>4, LocksKept DEF Ensuring
    <2>7. AtPackage(i)'
      BY <1>1, <1>2, <1>3, <2>1, <2>2 DEF PassInv, AtPackage, Ensuring, Places, Copying
    <2>8. Isolated(i)'
      BY <2>2 DEF Isolated
    <2>9. PassInv(i)'
      BY <1>1, <1>2, <2>2, <2>7, <2>8, Stays
    <2> QED
      BY <1>2, <2>4, <2>5, <2>6, <2>9, OnePass
  <1>5. CASE derived[Key(i)].state # "absent" /\ ValidatePublished(Key(i))
    <2>1. Goto(i, "hit") /\ Release(i) /\ step' = step /\ work' = work
      BY <1>5 DEF Look
    <2>2. pc' \in [Passes -> Places] /\ pc'[i] = "hit" /\ \A j \in Passes \ {i} : pc'[j] = pc[j]
      BY <1>2, <2>1, Moved DEF Places, Copying
    <2>3. OnlyOf(i)
      BY <1>1, <2>1, <2>2 DEF OnlyOf, SamePass
    <2>4. TypeOK'
      BY <1>1, <1>2, <2>1, <2>2, ReleaseEffect DEF TypeOK
    <2>5. LockedWhileEnsuring'
      BY <1>2, <2>1, <2>2, <2>3, LocksReleased DEF Ensuring
    <2>6. AtPackage(i)'
      BY <1>1, <1>2, <1>3, <2>1, <2>2 DEF PassInv, AtPackage, Ensuring, Places, Copying
    <2>7. Isolated(i)'
      BY <2>2 DEF Isolated
    <2>8. PassInv(i)'
      BY <1>1, <1>2, <2>2, <2>6, <2>7, Stays
    <2> QED
      BY <1>2, <2>3, <2>4, <2>5, <2>8, OnePass
  <1>6. CASE derived[Key(i)].state # "absent" /\ ~ValidatePublished(Key(i))
    <2>1. Degrade(i) /\ work' = work
      BY <1>6 DEF Look
    <2>2. /\ PassInv(i)' /\ OnlyOf(i) /\ LockedWhileEnsuring'
          /\ pc' \in [Passes -> Places] /\ step' \in [Passes -> Nat \ {0}] /\ lock' \in [Keys -> Passes \cup {Free, Collector}]
      BY <1>1, <1>2, <2>1, Degraded DEF Ensuring
    <2>3. TypeOK'
      BY <1>1, <1>2, <2>1, <2>2 DEF TypeOK
    <2> QED
      BY <1>2, <2>2, <2>3, OnePass
  <1> QED
    BY <1>4, <1>5, <1>6

(* An install over a volume runs scripts only for a package that is        *)
(* placed, and in the volume's own entry of it.                            *)
LEMMA TreeWanted ==
    ASSUME TypeOK, NEW i \in Passes, PassInv(i), job[i].mode = "run", job[i].volume,
           pc[i] \in Ensuring \cup Copying \cup {"in place"}
    PROVE  /\ InEntry(i) /\ Wanted(at[i]) /\ at[i] \in Recorded
           /\ Due(i) = AsIfRun(at[i], job[i].env)
  <1>1. at[i] \in DOMAIN Packages /\ Wanted(at[i]) /\ Scripts(i, at[i]) # <<>>
    BY DEF PassInv, AtPackage, UsesDerived, Wanted, Ensuring, Places, Copying
  <1>2. InEntry(i) /\ Scripts(i, at[i]) = Packages[at[i]].scripts
    BY DEF InEntry, Scripts
  <1> QED
    BY <1>1, <1>2, DueOfRun DEF Recorded, AsIfRun

(* isolate_package: no script starts on files that are the store's, and a  *)
(* tree that is not does not bear marks of anything but these scripts: a   *)
(* run after a degraded ensure finds the marks its build left.             *)
LEMMA IsolateInv ==
    ASSUME IInv, NEW i \in Passes, Isolate(i)
    PROVE  PassesInv'
  <1>1. /\ pc[i] \in {"isolate", "place"} /\ job' = job /\ image' = image /\ derived' = derived /\ lock' = lock
        /\ faults' = faults /\ crashes' = crashes /\ excused' = excused /\ raced' = raced
    BY DEF Isolate
  <1>2. /\ TypeOK /\ LockedWhileEnsuring /\ PassInv(i) /\ ImagesPristine' /\ DerivedComplete'
        /\ at[i] \in DOMAIN Packages /\ step[i] = 1 /\ Packages[at[i]].fetched
        /\ job[i].mode \in {"run", "prepare"} /\ Scripts(i, at[i]) # <<>>
    BY <1>1, StoreKept DEF IInv, PassesInv, PassInv, AtPackage, Places, Ensuring, Copying
  <1>3. /\ job[i].volume \in BOOLEAN /\ Packages[at[i]].placed \in BOOLEAN
        /\ paths \in [Passes -> SUBSET DOMAIN Packages]
    BY <1>2, JobFacts, PackageFacts DEF TypeOK
  <1>4. CASE pc[i] = "place" /\ job[i].volume /\ ~Packages[at[i]].placed
    <2>1. Next1(i) /\ entry' = entry /\ work' = work /\ paths' = paths
      BY <1>4 DEF Isolate
    <2>2. job[i].mode = "run" => AsIfRun(at[i], job[i].env) = {} /\ entry[i][at[i]].ran = {}
      BY <1>2, <1>4 DEF PassInv, EntriesInOrder, AsIfRun, Wanted
    <2>3. job[i].mode = "run" =>
              /\ at[i] \in paths[i] <=> at[i] \in Recorded
              /\ paths[i] \subseteq DOMAIN Packages
      BY <1>2, <1>4 DEF PassInv, PathsInOrder, Recorded, Wanted
    <2>4. /\ PassInv(i)' /\ pc'[i] = "visit" /\ pc' \in [Passes -> Places]
          /\ at' \in [Passes -> Nat \ {0}] /\ step' \in [Passes -> Nat \ {0}]
          /\ \A j \in Passes \ {i} : pc'[j] = pc[j] /\ at'[j] = at[j] /\ step'[j] = step[j]
      BY <1>1, <1>2, <2>1, <2>2, <2>3, Passed
    <2>5. OnlyOf(i)
      BY <1>1, <2>1, <2>4 DEF OnlyOf, SamePass
    <2>6. TypeOK'
      BY <1>1, <1>2, <2>1, <2>4 DEF TypeOK
    <2>7. LockedWhileEnsuring'
      BY <1>1, <1>2, <1>4, <2>4, <2>5, LocksKept DEF Ensuring
    <2> QED
      BY <1>2, <2>4, <2>5, <2>6, <2>7, OnePass
  <1>5. CASE ~(pc[i] = "place" /\ job[i].volume /\ ~Packages[at[i]].placed)
    <2> DEFINE tree == IF InEntry(i) /\ ~Tree(i).shared THEN Tree(i) ELSE Copy(image[at[i]])
               place == IF pc[i] = "isolate" THEN "build" ELSE "in place"
    <2>1. /\ Goto(i, place) /\ at' = at /\ step' = step
          /\ SetTree(i, tree)
          /\ paths' = IF pc[i] = "place" /\ job[i].volume THEN [paths EXCEPT ![i] = paths[i] \cup {at[i]}] ELSE paths
      BY <1>5 DEF Isolate, Record
    <2>2. pc' \in [Passes -> Places] /\ pc'[i] = place /\ \A j \in Passes \ {i} : pc'[j] = pc[j]
      BY <1>2, <2>1, Moved DEF Places, Ensuring, Copying
    <2>3. InEntry(i) => job[i].mode = "run" /\ job[i].volume
      BY <1>2 DEF InEntry
    <2>4. job[i].mode = "run" /\ job[i].volume => InEntry(i) /\ Wanted(at[i]) /\ at[i] \in Recorded
      BY <1>1, <1>2, <1>5 DEF PassInv, AtPackage, UsesDerived, InEntry, Wanted, Recorded, Scripts, Ensuring
    <2>5. /\ tree \in Trees /\ ~tree.shared
          /\ job[i].mode = "run" /\ job[i].volume => tree.ran \subseteq AsIfRun(at[i], job[i].env)
          /\ tree.ran \subseteq Due(i)
      <3>1. CASE InEntry(i) /\ ~Tree(i).shared
        <4>1. Tree(i) \in Trees /\ Tree(i) = entry[i][at[i]]
          BY <1>2, <3>1, TreeFacts
        <4>2. Tree(i).ran \subseteq AsIfRun(at[i], job[i].env)
          BY <1>2, <2>3, <3>1, <4>1 DEF PassInv, EntriesInOrder
        <4>3. AsIfRun(at[i], job[i].env) = Due(i)
          BY <1>2, <2>3, <2>4, <3>1, DueOfRun DEF AsIfRun
        <4> QED
          BY <3>1, <4>1, <4>2, <4>3
      <3>2. CASE ~(InEntry(i) /\ ~Tree(i).shared)
        <4>1. tree = Copy(image[at[i]])
          BY <3>2
        <4> HIDE DEF tree
        <4> QED
          BY <1>2, <4>1, CopyOfImage DEF IInv, PassesInv
      <3> QED
        BY <3>1, <3>2
    <2> HIDE DEF tree
    <2>6. /\ entry' \in [Passes -> [DOMAIN Packages -> Trees]] /\ work' \in [Passes -> Trees]
          /\ \A j \in Passes \ {i} : entry'[j] = entry[j] /\ work'[j] = work[j]
          /\ \A p \in DOMAIN Packages \ {at[i]} : entry'[i][p] = entry[i][p]
          /\ InEntry(i) => entry'[i][at[i]] = tree
          /\ Tree(i)' = tree
      BY <1>1, <1>2, <2>1, <2>5, TreeSet
    <2>7. /\ paths' \in [Passes -> SUBSET DOMAIN Packages]
          /\ paths'[i] = IF pc[i] = "place" /\ job[i].volume THEN paths[i] \cup {at[i]} ELSE paths[i]
          /\ \A j \in Passes \ {i} : paths'[j] = paths[j]
      BY <1>2, <1>3, <2>1
    <2>8. OnlyOf(i)
      BY <1>1, <2>1, <2>2, <2>6, <2>7 DEF OnlyOf, SamePass
    <2>9. TypeOK'
      BY <1>1, <1>2, <2>1, <2>2, <2>6, <2>7 DEF TypeOK
    <2>10. LockedWhileEnsuring'
      BY <1>1, <1>2, <2>1, <2>2, <2>8, LocksKept DEF Ensuring
    <2>11. /\ Scripts(i, at[i])' = Scripts(i, at[i]) /\ UsesDerived(i)' = UsesDerived(i) /\ Due(i)' = Due(i)
      BY <1>1, <2>1 DEF Scripts, UsesDerived, Due, Mark
    <2>12. AtPackage(i)'
      BY <1>1, <1>2, <1>3, <1>5, <2>1, <2>2, <2>11 DEF PassInv, AtPackage, Ensuring, Places, Copying
    <2>13. Isolated(i)'
      <3>1. \A k \in DOMAIN Scripts(i, at[i]) : ~(k < 1)
        BY <1>2, ScriptFacts
      <3> QED
        BY <1>2, <2>1, <2>2, <2>5, <2>6, <2>11, <3>1 DEF Isolated
    <2>14. EntriesInOrder(i)'
      BY <1>1, <1>2, <2>1, <2>4, <2>5, <2>6, EntryReplaced
    <2>15. PathsInOrder(i)'
      <3> SUFFICES ASSUME job[i].mode \in {"run", "skip"}, job[i].volume
                   PROVE  /\ paths'[i] \subseteq Recorded
                          /\ \A p \in Recorded : p < at[i] => p \in paths'[i]
                          /\ \A p \in paths'[i] : p <= at[i]
                          /\ pc'[i] = "in place" => at[i] \in paths'[i]
        BY <1>1, <2>1 DEF PathsInOrder, Recorded, Wanted
      <3>1. /\ paths[i] \subseteq Recorded
            /\ \A p \in Recorded : p < at[i] => p \in paths[i]
            /\ \A p \in paths[i] : p <= at[i]
        BY <1>2 DEF PassInv, PathsInOrder
      <3>2. at[i] \in Recorded /\ at[i] <= at[i]
        BY <1>2, <2>4 DEF TypeOK
      <3> QED
        BY <1>1, <2>2, <2>7, <3>1, <3>2
    <2> QED
      BY <1>2, <2>8, <2>9, <2>10, <2>12, <2>13, <2>14, <2>15, OnePass DEF PassInv
  <1> QED
    BY <1>4, <1>5

(* The next script is one of the package's, or all have been run. *)
LEMMA StepInRange ==
    ASSUME TypeOK, NEW i \in Passes, at[i] \in DOMAIN Packages
    PROVE  /\ step[i] <= Len(Scripts(i, at[i])) => step[i] \in DOMAIN Scripts(i, at[i])
           /\ step[i] > Len(Scripts(i, at[i])) => \A k \in DOMAIN Scripts(i, at[i]) : k < step[i]
           /\ DOMAIN Scripts(i, at[i]) \subseteq Nat
  <1> DEFINE n == Len(Scripts(i, at[i]))
  <1>1. n \in Nat /\ DOMAIN Scripts(i, at[i]) = 1 .. n
    BY ScriptFacts
  <1>2. step[i] \in Nat \ {0}
    BY DEF TypeOK
  <1> HIDE DEF n
  <1>3. /\ step[i] <= n => step[i] \in 1 .. n
        /\ step[i] > n => \A k \in 1 .. n : k < step[i]
        /\ 1 .. n \subseteq Nat
    BY <1>1, <1>2
  <1> QED
    BY <1>1, <1>3 DEF n

(* A script marks the tree, and since the tree is isolated, nothing of the *)
(* store.                                                                  *)
LEMMA RunScriptInv ==
    ASSUME IInv, NEW i \in Passes, RunScript(i)
    PROVE  PassesInv'
  <1>0. pc[i] \in {"build", "in place"} /\ step[i] <= Len(Scripts(i, at[i])) /\ pc' = pc /\ at' = at
    BY DEF RunScript
  <1> DEFINE mark == {Mark(i, step[i])}
             tree == [Tree(i) EXCEPT !.ran = Tree(i).ran \cup mark]
  <1>1. /\ pc[i] \in {"build", "in place"} /\ step[i] <= Len(Scripts(i, at[i]))
        /\ SetTree(i, tree) /\ step' = [step EXCEPT ![i] = step[i] + 1]
        /\ image' = IF Tree(i).shared THEN [image EXCEPT ![at[i]].ran = @ \cup mark] ELSE image
        /\ job' = job /\ pc' = pc /\ at' = at /\ paths' = paths /\ derived' = derived /\ lock' = lock
        /\ faults' = faults /\ crashes' = crashes /\ excused' = excused /\ raced' = raced
    BY DEF RunScript, Mark
  <1>2. /\ TypeOK /\ LockedWhileEnsuring /\ PassInv(i)
        /\ at[i] \in DOMAIN Packages /\ job[i].mode \in {"run", "prepare"}
        /\ ~Tree(i).shared /\ Tree(i).ran \subseteq Due(i)
        /\ \A k \in DOMAIN Scripts(i, at[i]) : k < step[i] => Mark(i, k) \in Tree(i).ran
    BY <1>1 DEF IInv, PassesInv, PassInv, AtPackage, Isolated, Places, Ensuring, Copying
  <1>3. image' = image /\ ImagesPristine' /\ DerivedComplete'
    BY <1>1, <1>2, StoreKept DEF IInv, PassesInv
  <1>4. /\ step[i] \in Nat \ {0} /\ step[i] \in DOMAIN Scripts(i, at[i])
        /\ DOMAIN Scripts(i, at[i]) \subseteq Nat
        /\ step' \in [Passes -> Nat \ {0}] /\ step'[i] = step[i] + 1 /\ \A j \in Passes \ {i} : step'[j] = step[j]
    <2>1. step[i] \in Nat \ {0} /\ step \in [Passes -> Nat \ {0}]
      BY <1>2 DEF TypeOK
    <2>2. step[i] \in DOMAIN Scripts(i, at[i]) /\ DOMAIN Scripts(i, at[i]) \subseteq Nat
      BY <1>0, <1>2, StepInRange
    <2>3. step[i] + 1 \in Nat \ {0}
      BY <2>1
    <2> QED
      BY <1>1, <2>1, <2>2, <2>3
  <1>5. Mark(i, step[i]) \in Due(i) /\ Due(i) \subseteq AllMarks
    BY <1>2, <1>4, KeyFacts DEF Due
  <1>6. tree \in Trees /\ ~tree.shared /\ tree.ran = Tree(i).ran \cup mark /\ tree.ran \subseteq Due(i)
    <2>1. Tree(i) \in Trees
      BY <1>2, TreeFacts
    <2> QED
      BY <1>2, <1>5, <2>1 DEF Trees
  <1> HIDE DEF tree
  <1>7. /\ entry' \in [Passes -> [DOMAIN Packages -> Trees]] /\ work' \in [Passes -> Trees]
        /\ \A j \in Passes \ {i} : entry'[j] = entry[j] /\ work'[j] = work[j]
        /\ \A p \in DOMAIN Packages \ {at[i]} : entry'[i][p] = entry[i][p]
        /\ InEntry(i) => entry'[i][at[i]] = tree
        /\ Tree(i)' = tree
    BY <1>1, <1>2, <1>6, TreeSet
  <1>8. OnlyOf(i)
    BY <1>1, <1>4, <1>7 DEF OnlyOf, SamePass
  <1>9. TypeOK'
    BY <1>1, <1>2, <1>3, <1>4, <1>7 DEF TypeOK
  <1>10. LockedWhileEnsuring'
    BY <1>1, <1>2, <1>8, LocksKept
  <1>11. /\ Scripts(i, at[i])' = Scripts(i, at[i]) /\ UsesDerived(i)' = UsesDerived(i) /\ Due(i)' = Due(i)
         /\ \A k : Mark(i, k)' = Mark(i, k)
    BY <1>1 DEF Scripts, UsesDerived, Due, Mark
  <1>12. AtPackage(i)'
    BY <1>1, <1>2, <1>11 DEF PassInv, AtPackage
  <1>13. Isolated(i)'
    <2>1. ASSUME NEW k \in DOMAIN Scripts(i, at[i]), k < step[i] + 1 PROVE Mark(i, k) \in tree.ran
      <3>1. k < step[i] \/ k = step[i]
        BY <1>4, <2>1
      <3> QED
        BY <1>2, <1>6, <2>1, <3>1
    <2> QED
      <3>1. /\ pc'[i] \in {"build", "in place"} /\ at'[i] = at[i] /\ step'[i] = step[i] + 1 /\ Tree(i)' = tree
        BY <1>0, <1>4, <1>7
      <3>2. /\ ~Tree(i)'.shared /\ Tree(i)'.ran \subseteq Due(i)'
            /\ \A k \in DOMAIN Scripts(i, at[i])' : k < step'[i] => Mark(i, k)' \in Tree(i)'.ran
        BY <1>6, <1>11, <2>1, <3>1
      <3> QED
        BY <3>1, <3>2 DEF Isolated
  <1>14. EntriesInOrder(i)'
    <2>1. job[i].mode = "run" /\ job[i].volume =>
              entry'[i][at[i]] = tree /\ tree.ran \subseteq AsIfRun(at[i], job[i].env)
      BY <1>1, <1>2, <1>6, <1>7, TreeWanted DEF Ensuring
    <2> QED
      BY <1>1, <1>2, <1>7, <2>1, EntryReplaced
  <1>15. PathsInOrder(i)'
    BY <1>1, <1>2 DEF PassInv, PathsInOrder
  <1> QED
    BY <1>3, <1>8, <1>9, <1>10, <1>12, <1>13, <1>14, <1>15, OnePass DEF PassInv

(* A failing script ends the pass and gives its lock up. *)
LEMMA ScriptFailsInv ==
    ASSUME IInv, NEW i \in Passes, ScriptFails(i)
    PROVE  PassesInv'
  <1>1. /\ Fault /\ Release(i) /\ Goto(i, "failed") /\ excused' = excused \cup {i} /\ raced' = raced
        /\ job' = job /\ at' = at /\ step' = step /\ entry' = entry /\ work' = work /\ paths' = paths
        /\ image' = image /\ derived' = derived /\ crashes' = crashes
    BY DEF ScriptFails, Excuse
  <1>2. TypeOK /\ LockedWhileEnsuring /\ PassInv(i) /\ ImagesPristine' /\ DerivedComplete'
    BY <1>1, StoreKept DEF IInv, PassesInv
  <1>3. pc' \in [Passes -> Places] /\ pc'[i] = "failed" /\ \A j \in Passes \ {i} : pc'[j] = pc[j]
    BY <1>1, <1>2, Moved DEF Places, Copying
  <1>4. OnlyOf(i)
    BY <1>1, <1>3 DEF OnlyOf, SamePass
  <1>5. TypeOK'
    <2>1. faults' \in 0 .. MaxFaults /\ lock' \in [Keys -> Passes \cup {Free, Collector}]
      BY <1>1, <1>2, FaultTypes, ReleaseEffect
    <2> QED
      BY <1>1, <1>2, <1>3, <2>1 DEF TypeOK
  <1>6. LockedWhileEnsuring'
    BY <1>1, <1>2, <1>3, <1>4, LocksReleased DEF Ensuring
  <1>7. PassInv(i)'
    BY <1>1, <1>2, <1>3, Failed
  <1> QED
    BY <1>2, <1>4, <1>5, <1>6, <1>7, OnePass

(* After the last script the tree bears the marks of all of them and no    *)
(* others.                                                                 *)
LEMMA AllMarked ==
    ASSUME TypeOK, NEW i \in Passes, PassInv(i), pc[i] \in {"build", "in place"}, step[i] > Len(Scripts(i, at[i]))
    PROVE  Tree(i).ran = Due(i)
  <1>1. /\ at[i] \in DOMAIN Packages /\ Tree(i).ran \subseteq Due(i)
        /\ \A k \in DOMAIN Scripts(i, at[i]) : k < step[i] => Mark(i, k) \in Tree(i).ran
    BY DEF PassInv, AtPackage, Isolated, Places, Ensuring, Copying
  <1>2. \A k \in DOMAIN Scripts(i, at[i]) : Mark(i, k) \in Tree(i).ran
    BY <1>1, StepInRange
  <1> QED
    BY <1>1, <1>2 DEF Due

(* The scripts are over: a build is published, a package in place is done  *)
(* with.                                                                   *)
LEMMA FinishInv ==
    ASSUME IInv, NEW i \in Passes, Finish(i)
    PROVE  PassesInv'
  <1>1. /\ pc[i] \in {"build", "in place"} /\ step[i] > Len(Scripts(i, at[i]))
        /\ job' = job /\ entry' = entry /\ work' = work /\ paths' = paths /\ image' = image /\ derived' = derived
        /\ lock' = lock /\ faults' = faults /\ crashes' = crashes /\ excused' = excused /\ raced' = raced
    BY DEF Finish
  <1>2. /\ TypeOK /\ LockedWhileEnsuring /\ PassInv(i) /\ ImagesPristine' /\ DerivedComplete'
        /\ at[i] \in DOMAIN Packages
    BY <1>1, StoreKept DEF IInv, PassesInv, PassInv, AtPackage, Places, Ensuring, Copying
  <1>3. Tree(i).ran = Due(i)
    BY <1>1, <1>2, AllMarked
  <1>4. CASE pc[i] = "build"
    <2>1. Goto(i, "publish") /\ at' = at /\ step' = step
      BY <1>4 DEF Finish
    <2>2. pc' \in [Passes -> Places] /\ pc'[i] = "publish" /\ \A j \in Passes \ {i} : pc'[j] = pc[j]
      BY <1>2, <2>1, Moved DEF Places, Ensuring, Copying
    <2>3. OnlyOf(i)
      BY <1>1, <2>1, <2>2 DEF OnlyOf, SamePass
    <2>4. TypeOK'
      BY <1>1, <1>2, <2>1, <2>2 DEF TypeOK
    <2>5. LockedWhileEnsuring'
      BY <1>1, <1>2, <1>4, <2>1, <2>2, <2>3, LocksKept DEF Ensuring
    <2>6. /\ Scripts(i, at[i])' = Scripts(i, at[i]) /\ UsesDerived(i)' = UsesDerived(i)
          /\ Due(i)' = Due(i) /\ Tree(i)' = Tree(i)
      BY <1>1, <2>1 DEF Scripts, UsesDerived, Due, Mark, Tree, InEntry
    <2>7. AtPackage(i)'
      BY <1>1, <1>2, <1>4, <2>1, <2>2, <2>6 DEF PassInv, AtPackage, Ensuring, Places, Copying
    <2>8. Isolated(i)'
      BY <1>3, <2>2, <2>6 DEF Isolated
    <2>9. PassInv(i)'
      BY <1>1, <1>2, <2>1, <2>2, <2>7, <2>8, Stays
    <2> QED
      BY <1>2, <2>3, <2>4, <2>5, <2>9, OnePass
  <1>5. CASE pc[i] = "in place"
    <2>1. Next1(i)
      BY <1>5 DEF Finish
    <2>2. job[i].mode = "run"
      BY <1>2, <1>5 DEF PassInv, AtPackage
    <2>3. job[i].volume => /\ entry[i][at[i]].ran = AsIfRun(at[i], job[i].env)
                           /\ at[i] \in paths[i] /\ at[i] \in Recorded /\ paths[i] \subseteq DOMAIN Packages
      <3> SUFFICES ASSUME job[i].volume
                   PROVE  /\ entry[i][at[i]].ran = AsIfRun(at[i], job[i].env)
                          /\ at[i] \in paths[i] /\ at[i] \in Recorded /\ paths[i] \subseteq DOMAIN Packages
        OBVIOUS
      <3>1. InEntry(i) /\ at[i] \in Recorded /\ Due(i) = AsIfRun(at[i], job[i].env)
        BY <1>2, <1>5, <2>2, TreeWanted
      <3>2. Tree(i) = entry[i][at[i]]
        BY <1>2, <3>1, TreeFacts
      <3>3. at[i] \in paths[i] /\ paths[i] \subseteq DOMAIN Packages
        BY <1>2, <1>5, <2>2 DEF PassInv, PathsInOrder, Recorded
      <3> QED
        BY <1>3, <3>1, <3>2, <3>3
    <2>4. /\ PassInv(i)' /\ pc'[i] = "visit" /\ pc' \in [Passes -> Places]
          /\ at' \in [Passes -> Nat \ {0}] /\ step' \in [Passes -> Nat \ {0}]
          /\ \A j \in Passes \ {i} : pc'[j] = pc[j] /\ at'[j] = at[j] /\ step'[j] = step[j]
      BY <1>1, <1>2, <2>1, <2>3, Passed
    <2>5. OnlyOf(i)
      BY <1>1, <2>4 DEF OnlyOf, SamePass
    <2>6. TypeOK'
      BY <1>1, <1>2, <2>4 DEF TypeOK
    <2>7. LockedWhileEnsuring'
      BY <1>1, <1>2, <1>5, <2>4, <2>5, LocksKept DEF Ensuring
    <2> QED
      BY <1>2, <2>4, <2>5, <2>6, <2>7, OnePass
  <1> QED
    BY <1>1, <1>4, <1>5

(* What is published under a key has the marks of that key. *)
LEMMA PublishInv ==
    ASSUME IInv, NEW i \in Passes, Publish(i)
    PROVE  PassesInv'
  <1> DEFINE new == [state |-> "sound", ran |-> Tree(i).ran]
  <1>1. /\ pc[i] = "publish" /\ derived' = [derived EXCEPT ![Key(i)] = new]
        /\ Goto(i, "publish metadata") /\ job' = job /\ at' = at /\ step' = step /\ entry' = entry /\ work' = work
        /\ paths' = paths /\ image' = image
        /\ lock' = lock /\ faults' = faults /\ crashes' = crashes /\ excused' = excused /\ raced' = raced
    BY DEF Publish, SnapshotPkgTree
  <1>2. /\ TypeOK /\ LockedWhileEnsuring /\ PassInv(i) /\ ImagesPristine'
        /\ at[i] \in DOMAIN Packages /\ job[i].mode \in {"run", "prepare"} /\ Tree(i).ran = Due(i)
    BY <1>1 DEF IInv, PassesInv, PassInv, AtPackage, Isolated, Places, Ensuring, ImagesPristine
  <1>3. Key(i) \in Keys /\ Due(i) = Marks(Key(i)) /\ Due(i) \subseteq AllMarks
    BY <1>2, KeyFacts
  <1>4. new \in [state : States, ran : SUBSET AllMarks] /\ new.ran = Marks(Key(i))
    BY <1>2, <1>3 DEF States
  <1> HIDE DEF new
  <1>5. /\ derived' \in [Keys -> [state : States, ran : SUBSET AllMarks]]
        /\ \A key \in Keys : derived'[key] = IF key = Key(i) THEN new ELSE derived[key]
    BY <1>1, <1>2, <1>3, <1>4 DEF TypeOK
  <1>6. DerivedComplete'
    <2>1. ASSUME NEW key \in Keys
          PROVE  /\ derived'[key].ran \subseteq Marks(key)
                 /\ derived'[key].state \in {"sound", "altered"} => derived'[key].ran = Marks(key)
      BY <1>4, <1>5, <2>1 DEF IInv, PassesInv, DerivedComplete
    <2> QED
      BY <2>1 DEF DerivedComplete, Marks, Sources, Prepares
  <1>7. pc' \in [Passes -> Places] /\ pc'[i] = "publish metadata" /\ \A j \in Passes \ {i} : pc'[j] = pc[j]
    BY <1>1, <1>2, Moved DEF Places, Ensuring, Copying
  <1>8. OnlyOf(i)
    BY <1>1, <1>7 DEF OnlyOf, SamePass
  <1>9. TypeOK'
    BY <1>1, <1>2, <1>5, <1>7 DEF TypeOK
  <1>10. LockedWhileEnsuring'
    BY <1>1, <1>2, <1>7, <1>8, LocksKept DEF Ensuring
  <1>11. /\ Scripts(i, at[i])' = Scripts(i, at[i]) /\ UsesDerived(i)' = UsesDerived(i)
         /\ Due(i)' = Due(i) /\ Tree(i)' = Tree(i)
    BY <1>1 DEF Scripts, UsesDerived, Due, Mark, Tree, InEntry
  <1>12. AtPackage(i)'
    BY <1>1, <1>2, <1>7, <1>11 DEF PassInv, AtPackage, Ensuring, Places, Copying
  <1>13. Isolated(i)'
    BY <1>2, <1>7, <1>11 DEF Isolated
  <1>14. PassInv(i)'
    BY <1>1, <1>2, <1>7, <1>12, <1>13, Stays
  <1> QED
    BY <1>2, <1>6, <1>8, <1>9, <1>10, <1>14, OnePass

(* The package's path is recorded beside those before it. *)
LEMMA PathRecorded ==
    ASSUME TypeOK, NEW i \in Passes, at[i] \in DOMAIN Packages, Record(i)
    PROVE  /\ paths' \in [Passes -> SUBSET DOMAIN Packages] /\ paths'[i] = paths[i] \cup {at[i]}
           /\ \A j \in Passes \ {i} : paths'[j] = paths[j]
  BY DEF TypeOK, Record

(* The builder's own entry is the tree it has published. *)
LEMMA PublishMetadataInv ==
    ASSUME IInv, NEW i \in Passes, PublishMetadata(i)
    PROVE  PassesInv'
  <1>1. /\ pc[i] = "publish metadata" /\ Release(i) /\ Next1(i) /\ Record(i)
        /\ job' = job /\ entry' = entry /\ work' = work /\ image' = image /\ derived' = derived
        /\ faults' = faults /\ crashes' = crashes /\ excused' = excused /\ raced' = raced
    BY DEF PublishMetadata
  <1>2. /\ TypeOK /\ LockedWhileEnsuring /\ PassInv(i) /\ ImagesPristine' /\ DerivedComplete'
        /\ at[i] \in DOMAIN Packages /\ job[i].mode \in {"run", "prepare"} /\ Tree(i).ran = Due(i)
    BY <1>1, StoreKept DEF IInv, PassesInv, PassInv, AtPackage, Isolated, Places, Ensuring, Copying
  <1>3. /\ paths' \in [Passes -> SUBSET DOMAIN Packages] /\ paths'[i] = paths[i] \cup {at[i]}
        /\ \A j \in Passes \ {i} : paths'[j] = paths[j]
    BY <1>1, <1>2, PathRecorded
  <1>4. job[i].mode = "run" /\ job[i].volume =>
            entry[i][at[i]].ran = AsIfRun(at[i], job[i].env) /\ at[i] \in Recorded
    <2> SUFFICES ASSUME job[i].mode = "run", job[i].volume
                 PROVE  entry[i][at[i]].ran = AsIfRun(at[i], job[i].env) /\ at[i] \in Recorded
      OBVIOUS
    <2>1. InEntry(i) /\ at[i] \in Recorded /\ Due(i) = AsIfRun(at[i], job[i].env)
      BY <1>1, <1>2, TreeWanted DEF Ensuring
    <2>2. Tree(i) = entry[i][at[i]]
      BY <1>2, <2>1, TreeFacts
    <2> QED
      BY <1>2, <2>1, <2>2
  <1>5. /\ PassInv(i)' /\ pc'[i] = "visit" /\ pc' \in [Passes -> Places]
        /\ at' \in [Passes -> Nat \ {0}] /\ step' \in [Passes -> Nat \ {0}]
        /\ \A j \in Passes \ {i} : pc'[j] = pc[j] /\ at'[j] = at[j] /\ step'[j] = step[j]
    <2>1. job[i].mode \in {"run", "skip"} /\ job[i].volume =>
              /\ at[i] \in paths'[i] <=> at[i] \in Recorded
              /\ \A p \in DOMAIN Packages \ {at[i]} : p \in paths'[i] <=> p \in paths[i]
              /\ paths'[i] \subseteq DOMAIN Packages
      BY <1>2, <1>3, <1>4
    <2> QED
      BY <1>1, <1>2, <1>4, <2>1, Passed
  <1>6. OnlyOf(i)
    BY <1>1, <1>3, <1>5 DEF OnlyOf, SamePass
  <1>7. TypeOK'
    BY <1>1, <1>2, <1>3, <1>5, ReleaseEffect DEF TypeOK
  <1>8. LockedWhileEnsuring'
    BY <1>1, <1>2, <1>5, <1>6, LocksReleased DEF Ensuring
  <1> QED
    BY <1>2, <1>5, <1>6, <1>7, <1>8, OnePass

(* attach_derived: a preparation has what it asked for; an install clears  *)
(* the package's entry before it copies.                                   *)
LEMMA AttachDerivedInv ==
    ASSUME IInv, NEW i \in Passes, AttachDerived(i)
    PROVE  PassesInv'
  <1>1. /\ pc[i] = "hit" /\ job' = job /\ image' = image /\ derived' = derived /\ lock' = lock
        /\ faults' = faults /\ crashes' = crashes /\ excused' = excused /\ raced' = raced
    BY DEF AttachDerived
  <1>2. /\ TypeOK /\ LockedWhileEnsuring /\ PassInv(i) /\ ImagesPristine' /\ DerivedComplete'
        /\ at[i] \in DOMAIN Packages /\ job[i].mode \in {"run", "prepare"} /\ UsesDerived(i) /\ step[i] = 1
        /\ Packages[at[i]].fetched /\ Scripts(i, at[i]) # <<>>
    BY <1>1, StoreKept DEF IInv, PassesInv, PassInv, AtPackage, Places, Ensuring, Copying
  <1>3. CASE job[i].mode = "prepare"
    <2>1. Next1(i) /\ Record(i) /\ entry' = entry /\ work' = work
      BY <1>3 DEF AttachDerived
    <2>2. /\ paths' \in [Passes -> SUBSET DOMAIN Packages] /\ paths'[i] = paths[i] \cup {at[i]}
          /\ \A j \in Passes \ {i} : paths'[j] = paths[j]
      BY <1>2, <2>1, PathRecorded
    <2>3. /\ PassInv(i)' /\ pc'[i] = "visit" /\ pc' \in [Passes -> Places]
          /\ at' \in [Passes -> Nat \ {0}] /\ step' \in [Passes -> Nat \ {0}]
          /\ \A j \in Passes \ {i} : pc'[j] = pc[j] /\ at'[j] = at[j] /\ step'[j] = step[j]
      BY <1>1, <1>2, <1>3, <2>1, Passed
    <2>4. OnlyOf(i)
      BY <1>1, <2>1, <2>2, <2>3 DEF OnlyOf, SamePass
    <2>5. TypeOK'
      BY <1>1, <1>2, <2>1, <2>2, <2>3 DEF TypeOK
    <2>6. LockedWhileEnsuring'
      BY <1>1, <1>2, <2>3, <2>4, LocksKept DEF Ensuring
    <2> QED
      BY <1>2, <2>3, <2>4, <2>5, <2>6, OnePass
  <1>4. CASE job[i].mode = "run"
    <2> DEFINE tree == [shared |-> FALSE, ran |-> {}]
    <2>1. Goto(i, "copy") /\ SetTree(i, tree) /\ at' = at /\ step' = step /\ paths' = paths
      BY <1>4 DEF AttachDerived
    <2>2. tree \in Trees /\ tree.ran = {}
      BY DEF Trees
    <2> HIDE DEF tree
    <2>3. /\ entry' \in [Passes -> [DOMAIN Packages -> Trees]] /\ work' \in [Passes -> Trees]
          /\ \A j \in Passes \ {i} : entry'[j] = entry[j] /\ work'[j] = work[j]
          /\ \A p \in DOMAIN Packages \ {at[i]} : entry'[i][p] = entry[i][p]
          /\ InEntry(i) => entry'[i][at[i]] = tree
          /\ Tree(i)' = tree
      BY <1>1, <1>2, <2>1, <2>2, TreeSet
    <2>4. pc' \in [Passes -> Places] /\ pc'[i] = "copy" /\ \A j \in Passes \ {i} : pc'[j] = pc[j]
      BY <1>2, <2>1, Moved DEF Places, Copying
    <2>5. OnlyOf(i)
      BY <1>1, <2>1, <2>3, <2>4 DEF OnlyOf, SamePass
    <2>6. TypeOK'
      BY <1>1, <1>2, <2>1, <2>3, <2>4 DEF TypeOK
    <2>7. LockedWhileEnsuring'
      BY <1>1, <1>2, <2>1, <2>4, <2>5, LocksKept DEF Ensuring
    <2>8. Scripts(i, at[i])' = Scripts(i, at[i]) /\ UsesDerived(i)' = UsesDerived(i)
      BY <1>1, <2>1 DEF Scripts, UsesDerived
    <2>9. AtPackage(i)'
      BY <1>1, <1>2, <1>4, <2>1, <2>4, <2>8 DEF AtPackage, Ensuring, Places, Copying
    <2>10. Isolated(i)'
      <3>1. \A k \in DOMAIN Scripts(i, at[i]) : ~(k < 1)
        BY <1>2, ScriptFacts
      <3> QED
        BY <1>2, <2>1, <2>2, <2>3, <2>4, <2>8, <3>1 DEF Isolated
    <2>11. EntriesInOrder(i)'
      <3>1. job[i].mode = "run" /\ job[i].volume => entry'[i][at[i]] = tree
        BY <1>1, <1>2, <2>3, TreeWanted DEF Copying
      <3> QED
        BY <1>1, <1>2, <2>1, <2>2, <2>3, <3>1, EntryReplaced
    <2>12. PathsInOrder(i)'
      BY <1>1, <1>2, <2>1, <2>4 DEF PassInv, PathsInOrder
    <2> QED
      BY <1>2, <2>5, <2>6, <2>7, <2>9, <2>10, <2>11, <2>12, OnePass DEF PassInv
  <1> QED
    BY <1>2, <1>3, <1>4

(* A file that is there is copied with its mark; one that is not is        *)
(* missing only where a collector began to remove the image.               *)
LEMMA CopyFileInv ==
    ASSUME IInv, NEW i \in Passes, CopyFile(i)
    PROVE  PassesInv'
  <1> DEFINE met == {Mark(i, step[i])} \cap derived[Key(i)].ran
             tree == [Tree(i) EXCEPT !.ran = Tree(i).ran \cup met]
  <1>1. /\ pc[i] = "copy" /\ step[i] <= Len(Scripts(i, at[i]))
        /\ SetTree(i, tree) /\ step' = [step EXCEPT ![i] = step[i] + 1]
        /\ job' = job /\ pc' = pc /\ at' = at /\ paths' = paths /\ image' = image /\ derived' = derived
        /\ lock' = lock /\ faults' = faults /\ crashes' = crashes /\ excused' = excused /\ raced' = raced
    BY DEF CopyFile, Mark
  <1>2. /\ TypeOK /\ LockedWhileEnsuring /\ PassInv(i) /\ ImagesPristine' /\ DerivedComplete'
        /\ at[i] \in DOMAIN Packages /\ job[i].mode = "run"
        /\ Tree(i).ran \subseteq Due(i)
        /\ <<i, at[i]>> \in raced \/ \A k \in DOMAIN Scripts(i, at[i]) : k < step[i] => Mark(i, k) \in Tree(i).ran
    BY <1>1, StoreKept DEF IInv, PassesInv, PassInv, AtPackage, Isolated, Places, Ensuring, Copying
  <1>3. /\ step[i] \in Nat \ {0} /\ step[i] \in DOMAIN Scripts(i, at[i])
        /\ DOMAIN Scripts(i, at[i]) \subseteq Nat
        /\ step' \in [Passes -> Nat \ {0}] /\ step'[i] = step[i] + 1 /\ \A j \in Passes \ {i} : step'[j] = step[j]
    <2>1. step[i] \in Nat \ {0} /\ step \in [Passes -> Nat \ {0}]
      BY <1>2 DEF TypeOK
    <2>2. step[i] \in DOMAIN Scripts(i, at[i]) /\ DOMAIN Scripts(i, at[i]) \subseteq Nat
      BY <1>1, <1>2, StepInRange
    <2>3. step[i] + 1 \in Nat \ {0}
      BY <2>1
    <2> QED
      BY <1>1, <2>1, <2>2, <2>3
  <1>4. Mark(i, step[i]) \in Due(i) /\ Due(i) \subseteq AllMarks /\ Due(i) = Marks(Key(i)) /\ Key(i) \in Keys
    BY <1>2, <1>3, KeyFacts DEF Due
  <1>5. met \subseteq Due(i) /\ (<<i, at[i]>> \in raced \/ met = {Mark(i, step[i])})
    BY <1>1, <1>4 DEF IInv, ImagesInv, HitWhole, Copying
  <1> HIDE DEF met
  <1>6. tree \in Trees /\ tree.ran = Tree(i).ran \cup met /\ tree.ran \subseteq Due(i)
    <2>1. Tree(i) \in Trees
      BY <1>2, TreeFacts
    <2> QED
      BY <1>2, <1>4, <1>5, <2>1 DEF Trees
  <1> HIDE DEF tree
  <1>7. /\ entry' \in [Passes -> [DOMAIN Packages -> Trees]] /\ work' \in [Passes -> Trees]
        /\ \A j \in Passes \ {i} : entry'[j] = entry[j] /\ work'[j] = work[j]
        /\ \A p \in DOMAIN Packages \ {at[i]} : entry'[i][p] = entry[i][p]
        /\ InEntry(i) => entry'[i][at[i]] = tree
        /\ Tree(i)' = tree
    BY <1>1, <1>2, <1>6, TreeSet
  <1>8. OnlyOf(i)
    BY <1>1, <1>3, <1>7 DEF OnlyOf, SamePass
  <1>9. TypeOK'
    BY <1>1, <1>2, <1>3, <1>7 DEF TypeOK
  <1>10. LockedWhileEnsuring'
    BY <1>1, <1>2, <1>8, LocksKept
  <1>11. /\ Scripts(i, at[i])' = Scripts(i, at[i]) /\ UsesDerived(i)' = UsesDerived(i) /\ Due(i)' = Due(i)
         /\ \A k : Mark(i, k)' = Mark(i, k)
    BY <1>1 DEF Scripts, UsesDerived, Due, Mark
  <1>12. AtPackage(i)'
    BY <1>1, <1>2, <1>11 DEF PassInv, AtPackage
  <1>13. Isolated(i)'
    <2>1. ASSUME <<i, at[i]>> \notin raced, NEW k \in DOMAIN Scripts(i, at[i]), k < step[i] + 1
          PROVE  Mark(i, k) \in tree.ran
      <3>1. k < step[i] \/ k = step[i]
        BY <1>3, <2>1
      <3> QED
        BY <1>2, <1>5, <1>6, <2>1, <3>1
    <2>2. /\ pc'[i] = "copy" /\ at'[i] = at[i] /\ step'[i] = step[i] + 1 /\ Tree(i)' = tree
      BY <1>1, <1>3, <1>7
    <2>3. /\ Tree(i)'.ran \subseteq Due(i)'
          /\ <<i, at[i]>> \in raced \/ \A k \in DOMAIN Scripts(i, at[i])' : k < step'[i] => Mark(i, k)' \in Tree(i)'.ran
      BY <1>6, <1>11, <2>1, <2>2
    <2> QED
      BY <1>1, <2>2, <2>3 DEF Isolated
  <1>14. EntriesInOrder(i)'
    <2>1. job[i].mode = "run" /\ job[i].volume =>
              entry'[i][at[i]] = tree /\ tree.ran \subseteq AsIfRun(at[i], job[i].env)
      BY <1>1, <1>2, <1>6, <1>7, TreeWanted DEF Copying
    <2> QED
      BY <1>1, <1>2, <1>7, <2>1, EntryReplaced
  <1>15. PathsInOrder(i)'
    BY <1>1, <1>2 DEF PassInv, PathsInOrder
  <1> QED
    BY <1>2, <1>8, <1>9, <1>10, <1>12, <1>13, <1>14, <1>15, OnePass DEF PassInv

(* A copy that fails ends the pass. *)
LEMMA CopyFailsInv ==
    ASSUME IInv, NEW i \in Passes, CopyFails(i)
    PROVE  PassesInv'
  <1>1. /\ pc[i] = "copy" /\ Goto(i, "failed") /\ excused' = excused /\ raced' = raced
        /\ job' = job /\ at' = at /\ step' = step /\ entry' = entry /\ work' = work /\ paths' = paths
        /\ image' = image /\ derived' = derived /\ lock' = lock /\ crashes' = crashes
        /\ Fault \/ faults' = faults
    BY DEF CopyFails
  <1>2. TypeOK /\ LockedWhileEnsuring /\ PassInv(i) /\ ImagesPristine' /\ DerivedComplete'
    BY <1>1, StoreKept DEF IInv, PassesInv
  <1>3. pc' \in [Passes -> Places] /\ pc'[i] = "failed" /\ \A j \in Passes \ {i} : pc'[j] = pc[j]
    BY <1>1, <1>2, Moved DEF Places
  <1>4. OnlyOf(i)
    BY <1>1, <1>3 DEF OnlyOf, SamePass
  <1>5. TypeOK'
    <2>1. faults' \in 0 .. MaxFaults
      BY <1>1, <1>2, FaultTypes DEF TypeOK
    <2> QED
      BY <1>1, <1>2, <1>3, <2>1 DEF TypeOK
  <1>6. LockedWhileEnsuring'
    BY <1>1, <1>2, <1>3, <1>4, LocksKept DEF Ensuring
  <1>7. PassInv(i)'
    BY <1>1, <1>2, <1>3, Failed
  <1> QED
    BY <1>2, <1>4, <1>5, <1>6, <1>7, OnePass

(* When the copy is over the package has the files that were met, and all  *)
(* of them unless a collector came between.                                *)
LEMMA AttachedInv ==
    ASSUME IInv, NEW i \in Passes, Attached(i)
    PROVE  PassesInv'
  <1>1. /\ pc[i] = "copy" /\ step[i] > Len(Scripts(i, at[i])) /\ Next1(i) /\ Record(i)
        /\ job' = job /\ entry' = entry /\ work' = work /\ image' = image /\ derived' = derived /\ lock' = lock
        /\ faults' = faults /\ crashes' = crashes /\ excused' = excused /\ raced' = raced
    BY DEF Attached
  <1>2. /\ TypeOK /\ LockedWhileEnsuring /\ PassInv(i) /\ ImagesPristine' /\ DerivedComplete'
        /\ at[i] \in DOMAIN Packages /\ job[i].mode = "run"
        /\ Tree(i).ran \subseteq Due(i)
        /\ <<i, at[i]>> \in raced \/ \A k \in DOMAIN Scripts(i, at[i]) : k < step[i] => Mark(i, k) \in Tree(i).ran
    BY <1>1, StoreKept DEF IInv, PassesInv, PassInv, AtPackage, Isolated, Places, Ensuring, Copying
  <1>3. <<i, at[i]>> \in raced \/ Tree(i).ran = Due(i)
    <2>1. <<i, at[i]>> \in raced \/ \A k \in DOMAIN Scripts(i, at[i]) : Mark(i, k) \in Tree(i).ran
      BY <1>1, <1>2, StepInRange
    <2> QED
      BY <1>2, <2>1 DEF Due
  <1>4. /\ paths' \in [Passes -> SUBSET DOMAIN Packages] /\ paths'[i] = paths[i] \cup {at[i]}
        /\ \A j \in Passes \ {i} : paths'[j] = paths[j]
    BY <1>1, <1>2, PathRecorded
  <1>5. job[i].volume =>
            /\ entry[i][at[i]].ran \subseteq AsIfRun(at[i], job[i].env) /\ at[i] \in Recorded
            /\ <<i, at[i]>> \in raced \/ entry[i][at[i]].ran = AsIfRun(at[i], job[i].env)
    <2> SUFFICES ASSUME job[i].volume
                 PROVE  /\ entry[i][at[i]].ran \subseteq AsIfRun(at[i], job[i].env) /\ at[i] \in Recorded
                        /\ <<i, at[i]>> \in raced \/ entry[i][at[i]].ran = AsIfRun(at[i], job[i].env)
      OBVIOUS
    <2>1. InEntry(i) /\ at[i] \in Recorded /\ Due(i) = AsIfRun(at[i], job[i].env)
      BY <1>1, <1>2, TreeWanted DEF Copying
    <2>2. Tree(i) = entry[i][at[i]]
      BY <1>2, <2>1, TreeFacts
    <2> QED
      BY <1>2, <1>3, <2>1, <2>2
  <1>6. /\ PassInv(i)' /\ pc'[i] = "visit" /\ pc' \in [Passes -> Places]
        /\ at' \in [Passes -> Nat \ {0}] /\ step' \in [Passes -> Nat \ {0}]
        /\ \A j \in Passes \ {i} : pc'[j] = pc[j] /\ at'[j] = at[j] /\ step'[j] = step[j]
    <2>1. job[i].volume =>
              /\ at[i] \in paths'[i] <=> at[i] \in Recorded
              /\ \A p \in DOMAIN Packages \ {at[i]} : p \in paths'[i] <=> p \in paths[i]
              /\ paths'[i] \subseteq DOMAIN Packages
      BY <1>2, <1>4, <1>5
    <2> QED
      BY <1>1, <1>2, <1>5, <2>1, Passed
  <1>7. OnlyOf(i)
    BY <1>1, <1>4, <1>6 DEF OnlyOf, SamePass
  <1>8. TypeOK'
    BY <1>1, <1>2, <1>4, <1>6 DEF TypeOK
  <1>9. LockedWhileEnsuring'
    BY <1>1, <1>2, <1>6, <1>7, LocksKept DEF Ensuring
  <1> QED
    BY <1>2, <1>6, <1>7, <1>8, <1>9, OnePass
-----------------------------------------------------------------------------
(* A killed pass loses its locks and begins again over a new staging tree  *)
(* of the store's images, which are pristine.                              *)
LEMMA CrashInv ==
    ASSUME IInv, NEW i \in Passes, Crash(i)
    PROVE  PassesInv'
  <1> DEFINE anew == [p \in DOMAIN Packages |-> [shared |-> TRUE, ran |-> image[p].ran]]
  <1>1. /\ Release(i) /\ Goto(i, "visit") /\ at' = [at EXCEPT ![i] = 1] /\ step' = [step EXCEPT ![i] = 1]
        /\ paths' = [paths EXCEPT ![i] = {}] /\ entry' = [entry EXCEPT ![i] = anew]
        /\ work' = [work EXCEPT ![i] = Pristine]
        /\ job' = job /\ image' = image /\ derived' = derived /\ faults' = faults /\ excused' = excused
        /\ crashes < MaxCrashes /\ crashes' = crashes + 1 /\ raced' = {r \in raced : r[1] # i}
    BY DEF Crash
  <1>2. TypeOK /\ LockedWhileEnsuring /\ ImagesPristine /\ ImagesPristine' /\ DerivedComplete'
    BY <1>1, StoreKept DEF IInv, PassesInv
  <1>3. anew \in [DOMAIN Packages -> Trees] /\ \A p \in DOMAIN Packages : anew[p].ran = {}
    <2>1. \A p \in DOMAIN Packages : image[p].ran = {}
      BY <1>2 DEF ImagesPristine
    <2> QED
      BY <2>1 DEF Trees
  <1> HIDE DEF anew
  <1>4. pc' \in [Passes -> Places] /\ pc'[i] = "visit" /\ \A j \in Passes \ {i} : pc'[j] = pc[j]
    BY <1>1, <1>2, Moved DEF Places, Copying
  <1>5. /\ at' \in [Passes -> Nat \ {0}] /\ at'[i] = 1 /\ step' \in [Passes -> Nat \ {0}] /\ step'[i] = 1
        /\ \A j \in Passes \ {i} : at'[j] = at[j] /\ step'[j] = step[j]
    BY <1>1, <1>2 DEF TypeOK
  <1>6. /\ entry' \in [Passes -> [DOMAIN Packages -> Trees]] /\ entry'[i] = anew
        /\ paths' \in [Passes -> SUBSET DOMAIN Packages] /\ paths'[i] = {}
        /\ \A j \in Passes \ {i} : entry'[j] = entry[j] /\ paths'[j] = paths[j]
    BY <1>1, <1>2, <1>3 DEF TypeOK
  <1>7. work' \in [Passes -> Trees] /\ \A j \in Passes \ {i} : work'[j] = work[j]
    <2>1. Pristine \in Trees
      BY DEF Pristine, Trees
    <2> QED
      BY <1>1, <1>2, <2>1 DEF TypeOK
  <1>8. OnlyOf(i)
    BY <1>1, <1>4, <1>5, <1>6, <1>7 DEF OnlyOf, SamePass
  <1>9. TypeOK'
    <2>1. crashes' \in 0 .. MaxCrashes
      BY <1>1, <1>2, BoundsAssumption DEF TypeOK
    <2> QED
      BY <1>1, <1>2, <1>4, <1>5, <1>6, <1>7, <2>1, ReleaseEffect DEF TypeOK
  <1>10. LockedWhileEnsuring'
    BY <1>1, <1>2, <1>4, <1>8, LocksReleased DEF Ensuring
  <1>11. PassInv(i)'
    <2>1. Len(Packages) \in Nat /\ DOMAIN Packages = 1 .. Len(Packages)
      BY PackageFacts
    <2>2. AtPackage(i)'
      <3>1. 1 <= Len(Packages) + 1
        BY <2>1
      <3>2. pc'[i] = "visit" /\ at'[i] <= Len(Packages) + 1 /\ step'[i] = 1
        BY <1>4, <1>5, <3>1
      <3> QED
        BY <3>2 DEF AtPackage, Ensuring, Copying
    <2>3. Isolated(i)'
      BY <1>4 DEF Isolated
    <2>4. EntriesInOrder(i)'
      BY <1>3, <1>5, <1>6, <2>1 DEF EntriesInOrder
    <2>5. PathsInOrder(i)'
      BY <1>4, <1>5, <1>6, <2>1 DEF PathsInOrder, Recorded
    <2> QED
      BY <2>2, <2>3, <2>4, <2>5 DEF PassInv
  <1> QED
    BY <1>2, <1>8, <1>9, <1>10, <1>11, OnePass

(* A collector and whoever alters an image move no pass: it is enough that *)
(* locks change hands between nobody and the collector, and that images    *)
(* keep to the marks of their keys.                                        *)
LEMMA OnlyImages ==
    ASSUME IInv, UNCHANGED <<job, pc, at, step, entry, work, paths, image, crashes, excused>>,
           faults' \in 0 .. MaxFaults,
           lock' \in [Keys -> Passes \cup {Free, Collector}],
           \A k \in Keys : lock'[k] = lock[k] \/ ({lock[k], lock'[k]} = {Free, Collector}),
           raced \subseteq raced', raced' \in SUBSET (Passes \X Nat),
           derived' \in [Keys -> [state : States, ran : SUBSET AllMarks]],
           \A k \in Keys : /\ derived'[k].ran \subseteq Marks(k)
                           /\ derived'[k].state \in {"sound", "altered"} => derived'[k].ran = Marks(k)
    PROVE  PassesInv'
  <1>1. TypeOK'
    BY DEF IInv, PassesInv, TypeOK
  <1>2. LockedWhileEnsuring'
    <2> SUFFICES ASSUME NEW j \in Passes, NEW k \in Keys
                 PROVE  lock'[k] = j <=> pc[j] \in Ensuring /\ k = Key(j)
      BY DEF LockedWhileEnsuring, Key
    <2>1. lock[k] = j <=> pc[j] \in Ensuring /\ k = Key(j)
      BY DEF IInv, PassesInv, LockedWhileEnsuring
    <2>2. j # Free /\ j # Collector
      BY JobsAssumption
    <2>3. lock'[k] = lock[k] \/ ({lock[k], lock'[k]} = {Free, Collector})
      OBVIOUS
    <2>4. lock'[k] = j <=> lock[k] = j
      BY <2>2, <2>3
    <2> QED
      BY <2>1, <2>4
  <1>3. ImagesPristine' /\ DerivedComplete'
    <2>1. ImagesPristine'
      BY DEF IInv, PassesInv, ImagesPristine
    <2>2. DerivedComplete'
      BY DEF DerivedComplete, Marks, Sources, Prepares
    <2> QED
      BY <2>1, <2>2
  <1>4. \A j \in Passes : PassInv(j)'
    BY OthersKeep DEF IInv, PassesInv, SamePass
  <1> QED
    BY <1>1, <1>2, <1>3, <1>4 DEF PassesInv

(* What the types say of images and locks. *)
LEMMA ImageFacts ==
    ASSUME IInv
    PROVE  /\ derived \in [Keys -> [state : States, ran : SUBSET AllMarks]]
           /\ lock \in [Keys -> Passes \cup {Free, Collector}]
           /\ faults \in 0 .. MaxFaults /\ raced \in SUBSET (Passes \X Nat)
           /\ \A k \in Keys : /\ derived[k].ran \subseteq Marks(k)
                              /\ derived[k].state \in {"sound", "altered"} => derived[k].ran = Marks(k)
  BY DEF IInv, PassesInv, TypeOK, DerivedComplete

(* One image is replaced, the others are as they were. *)
LEMMA ImageSet ==
    ASSUME IInv, NEW key \in Keys, NEW new \in [state : States, ran : SUBSET AllMarks],
           derived' = [derived EXCEPT ![key] = new],
           new.ran \subseteq Marks(key), new.state \in {"sound", "altered"} => new.ran = Marks(key)
    PROVE  /\ derived' \in [Keys -> [state : States, ran : SUBSET AllMarks]]
           /\ \A k \in Keys : derived'[k] = IF k = key THEN new ELSE derived[k]
           /\ \A k \in Keys : /\ derived'[k].ran \subseteq Marks(k)
                              /\ derived'[k].state \in {"sound", "altered"} => derived'[k].ran = Marks(k)
  <1>1. /\ derived' \in [Keys -> [state : States, ran : SUBSET AllMarks]]
        /\ \A k \in Keys : derived'[k] = IF k = key THEN new ELSE derived[k]
    BY ImageFacts
  <1>2. ASSUME NEW k \in Keys
        PROVE  /\ derived'[k].ran \subseteq Marks(k)
               /\ derived'[k].state \in {"sound", "altered"} => derived'[k].ran = Marks(k)
    BY <1>1, ImageFacts
  <1> QED
    BY <1>1, <1>2

(* The passes that are attaching the image of a key. *)
Attaching(key) == {j \in Passes : pc[j] \in Copying /\ Key(j) = key}

(* The collector takes the lock of an image that nobody is looking at, and *)
(* the passes that are attaching it are noted.                             *)
LEMMA CollectInv ==
    ASSUME IInv, NEW key \in Keys, Collect(key)
    PROVE  IInv'
  <1> DEFINE new == [derived[key] EXCEPT !.state = "torn"]
             noted == {<<j, at[j]>> : j \in Attaching(key)}
  <1>1. /\ lock[key] = Free /\ lock' = [lock EXCEPT ![key] = Collector]
        /\ derived' = [derived EXCEPT ![key] = new] /\ raced' = raced \cup noted /\ faults' = faults
        /\ UNCHANGED <<job, pc, at, step, entry, work, paths, image, crashes, excused>>
    BY DEF Collect, Attaching
  <1>2. new \in [state : States, ran : SUBSET AllMarks] /\ new.ran = derived[key].ran /\ new.state = "torn"
    BY ImageFacts DEF States
  <1> HIDE DEF new
  <1>3. /\ derived' \in [Keys -> [state : States, ran : SUBSET AllMarks]]
        /\ \A k \in Keys : derived'[k] = IF k = key THEN new ELSE derived[k]
        /\ \A k \in Keys : /\ derived'[k].ran \subseteq Marks(k)
                           /\ derived'[k].state \in {"sound", "altered"} => derived'[k].ran = Marks(k)
    BY <1>1, <1>2, ImageFacts, ImageSet
  <1>4. /\ lock' \in [Keys -> Passes \cup {Free, Collector}]
        /\ \A k \in Keys : lock'[k] = IF k = key THEN Collector ELSE lock[k]
    BY <1>1, ImageFacts
  <1>5. raced \subseteq raced' /\ raced' \in SUBSET (Passes \X Nat)
    <2>1. noted \subseteq Passes \X Nat
      BY DEF IInv, PassesInv, TypeOK, Attaching
    <2> QED
      BY <1>1, <2>1, ImageFacts
  <1>6. PassesInv'
    BY <1>1, <1>3, <1>4, <1>5, ImageFacts, OnlyImages
  <1>7. RemovedTorn'
    BY <1>2, <1>3, <1>4 DEF IInv, ImagesInv, RemovedTorn, Keys
  <1>8. ASSUME NEW j \in Passes PROVE HitWhole(j)'
    <2> SUFFICES ASSUME pc[j] \in Copying, <<j, at[j]>> \notin raced'
                 PROVE  lock'[Key(j)] # Collector /\ derived'[Key(j)].ran = Marks(Key(j))
      BY <1>1 DEF HitWhole, Key, Marks, Sources, Prepares
    <2>1. j \notin Attaching(key)
      BY <1>1
    <2>2. Key(j) # key
      BY <2>1 DEF Attaching
    <2>3. Key(j) \in Keys
      BY CopyingKey DEF IInv
    <2>4. lock[Key(j)] # Collector /\ derived[Key(j)].ran = Marks(Key(j))
      BY <1>5 DEF IInv, ImagesInv, HitWhole
    <2> QED
      BY <1>3, <1>4, <2>2, <2>3, <2>4
  <1> QED
    BY <1>6, <1>7, <1>8 DEF IInv, ImagesInv

(* While the collector has an image's lock, whoever attaches it is noted:  *)
(* the others' images stay whole as files go.                              *)
LEMMA RemovalInv ==
    ASSUME IInv, NEW key \in Keys, lock[key] = Collector,
           NEW new \in [state : States, ran : SUBSET AllMarks],
           new.ran \subseteq derived[key].ran, new.state \in {"torn", "absent"},
           derived' = [derived EXCEPT ![key] = new], faults' \in 0 .. MaxFaults, raced' = raced,
           (lock' = lock /\ new.state = "torn") \/ lock' = [lock EXCEPT ![key] = Free],
           UNCHANGED <<job, pc, at, step, entry, work, paths, image, crashes, excused>>
    PROVE  IInv'
  <1>1. /\ derived' \in [Keys -> [state : States, ran : SUBSET AllMarks]]
        /\ \A k \in Keys : derived'[k] = IF k = key THEN new ELSE derived[k]
        /\ \A k \in Keys : /\ derived'[k].ran \subseteq Marks(k)
                           /\ derived'[k].state \in {"sound", "altered"} => derived'[k].ran = Marks(k)
    BY ImageFacts, ImageSet
  <1>2. /\ lock' \in [Keys -> Passes \cup {Free, Collector}]
        /\ \A k \in Keys : lock'[k] = lock[k] \/ (k = key /\ lock'[k] = Free)
        /\ lock'[key] = Free \/ new.state = "torn"
    BY ImageFacts
  <1>3. PassesInv'
    BY <1>1, <1>2, ImageFacts, OnlyImages
  <1>4. RemovedTorn'
    <2>1. Free # Collector
      BY DEF Free, Collector
    <2>2. ASSUME NEW k \in Keys, lock'[k] = Collector PROVE derived'[k].state = "torn"
      BY <1>1, <1>2, <2>1, <2>2 DEF IInv, ImagesInv, RemovedTorn
    <2> QED
      BY <2>2 DEF RemovedTorn, Keys
  <1>5. ASSUME NEW j \in Passes PROVE HitWhole(j)'
    <2> SUFFICES ASSUME pc[j] \in Copying, <<j, at[j]>> \notin raced
                 PROVE  lock'[Key(j)] # Collector /\ derived'[Key(j)].ran = Marks(Key(j))
      BY DEF HitWhole, Key, Marks, Sources, Prepares
    <2>1. lock[Key(j)] # Collector /\ derived[Key(j)].ran = Marks(Key(j))
      BY DEF IInv, ImagesInv, HitWhole
    <2>2. Key(j) # key /\ Key(j) \in Keys
      BY <2>1, CopyingKey DEF IInv
    <2> QED
      BY <1>1, <1>2, <2>1, <2>2
  <1> QED
    BY <1>3, <1>4, <1>5 DEF IInv, ImagesInv

(* remove_dir_all, file by file to the end, or stopped on the way. *)
LEMMA RemovalSteps ==
    ASSUME IInv, NEW key \in Keys, Removal(key) \/ RemovalStops(key)
    PROVE  IInv'
  <1>1. derived[key] \in [state : States, ran : SUBSET AllMarks] /\ faults \in 0 .. MaxFaults
    BY ImageFacts
  <1>2. CASE RemoveFile(key)
    <2>1. PICK file \in derived[key].ran : derived' = [derived EXCEPT ![key].ran = @ \ {file}]
      BY <1>2 DEF RemoveFile
    <2> DEFINE new == [derived[key] EXCEPT !.ran = @ \ {file}]
    <2>2. derived' = [derived EXCEPT ![key] = new]
      BY <2>1
    <2>3. /\ lock[key] = Collector /\ lock' = lock /\ faults' = faults /\ raced' = raced
          /\ UNCHANGED <<job, pc, at, step, entry, work, paths, image, crashes, excused>>
      BY <1>2 DEF RemoveFile
    <2>4. derived[key].state = "torn"
      BY <2>3 DEF IInv, ImagesInv, RemovedTorn
    <2>5. new \in [state : States, ran : SUBSET AllMarks] /\ new.ran \subseteq derived[key].ran /\ new.state = "torn"
      BY <1>1, <2>4
    <2> HIDE DEF new
    <2> QED
      BY <1>1, <2>2, <2>3, <2>5, RemovalInv
  <1>3. CASE Removed(key)
    <2>1. /\ lock[key] = Collector /\ lock' = [lock EXCEPT ![key] = Free] /\ faults' = faults /\ raced' = raced
          /\ derived' = [derived EXCEPT ![key] = Absent]
          /\ UNCHANGED <<job, pc, at, step, entry, work, paths, image, crashes, excused>>
      BY <1>3 DEF Removed
    <2>2. /\ Absent \in [state : States, ran : SUBSET AllMarks] /\ Absent.ran \subseteq derived[key].ran
          /\ Absent.state = "absent"
      BY DEF Absent, States
    <2> QED
      BY <1>1, <2>1, <2>2, RemovalInv
  <1>4. CASE RemovalStops(key)
    <2>1. /\ lock[key] = Collector /\ lock' = [lock EXCEPT ![key] = Free] /\ Fault /\ raced' = raced
          /\ derived' = derived
          /\ UNCHANGED <<job, pc, at, step, entry, work, paths, image, crashes, excused>>
      BY <1>4 DEF RemovalStops
    <2>2. derived' = [derived EXCEPT ![key] = derived[key]]
      BY <2>1, ImageFacts
    <2>3. faults' \in 0 .. MaxFaults
      BY <2>1, FaultTypes DEF IInv, PassesInv
    <2>4. derived[key].state = "torn"
      BY <2>1 DEF IInv, ImagesInv, RemovedTorn
    <2>5. PICK new : new = derived[key]
      OBVIOUS
    <2>6. /\ new \in [state : States, ran : SUBSET AllMarks] /\ new.ran \subseteq derived[key].ran
          /\ new.state = "torn" /\ derived' = [derived EXCEPT ![key] = new]
      BY <1>1, <2>2, <2>4, <2>5
    <2> QED
      BY <2>1, <2>3, <2>6, RemovalInv
  <1> QED
    BY <1>2, <1>3, <1>4 DEF Removal

(* A derived image that was altered keeps the record of its scripts. *)
LEMMA AlterInv ==
    ASSUME IInv, NEW key \in Keys, Alter(key)
    PROVE  IInv'
  <1> DEFINE new == [derived[key] EXCEPT !.state = "altered"]
  <1>1. /\ derived[key].state = "sound" /\ Fault /\ derived' = [derived EXCEPT ![key] = new]
        /\ lock' = lock /\ raced' = raced
        /\ UNCHANGED <<job, pc, at, step, entry, work, paths, image, crashes, excused>>
    BY DEF Alter
  <1>2. /\ new \in [state : States, ran : SUBSET AllMarks] /\ new.ran = derived[key].ran
        /\ new.state = "altered" /\ new.ran = Marks(key)
    BY <1>1, ImageFacts DEF States
  <1> HIDE DEF new
  <1>3. /\ derived' \in [Keys -> [state : States, ran : SUBSET AllMarks]]
        /\ \A k \in Keys : derived'[k] = IF k = key THEN new ELSE derived[k]
        /\ \A k \in Keys : /\ derived'[k].ran \subseteq Marks(k)
                           /\ derived'[k].state \in {"sound", "altered"} => derived'[k].ran = Marks(k)
    BY <1>1, <1>2, ImageSet
  <1>4. faults' \in 0 .. MaxFaults
    BY <1>1, FaultTypes DEF IInv, PassesInv
  <1>5. PassesInv'
    BY <1>1, <1>3, <1>4, ImageFacts, OnlyImages
  <1>6. RemovedTorn'
    <2>1. ASSUME NEW k \in Keys, lock'[k] = Collector PROVE derived'[k].state = "torn"
      BY <1>1, <1>3, <2>1 DEF IInv, ImagesInv, RemovedTorn
    <2> QED
      BY <2>1 DEF RemovedTorn, Keys
  <1>7. ASSUME NEW j \in Passes PROVE HitWhole(j)'
    <2> SUFFICES ASSUME pc[j] \in Copying, <<j, at[j]>> \notin raced
                 PROVE  lock[Key(j)] # Collector /\ derived'[Key(j)].ran = Marks(Key(j))
      BY <1>1 DEF HitWhole, Key, Marks, Sources, Prepares
    <2>1. Key(j) \in Keys /\ lock[Key(j)] # Collector /\ derived[Key(j)].ran = Marks(Key(j))
      BY CopyingKey DEF IInv, ImagesInv, HitWhole
    <2> QED
      BY <1>2, <1>3, <2>1
  <1> QED
    BY <1>5, <1>6, <1>7 DEF IInv, ImagesInv
-----------------------------------------------------------------------------
(* What a step of a pass leaves of the images that passes are attaching:   *)
(* no pass gives a lock to the collector, and no pass takes up attaching.  *)
LEMMA HitsKept ==
    ASSUME IInv, job' = job, derived' = derived,
           \A k \in Keys : lock'[k] = Collector => lock[k] = Collector,
           \A j \in Passes : pc'[j] \in Copying =>
               /\ pc[j] \in Copying /\ at'[j] = at[j]
               /\ <<j, at[j]>> \in raced => <<j, at[j]>> \in raced'
    PROVE  ImagesInv'
  <1>1. RemovedTorn'
    BY DEF IInv, ImagesInv, RemovedTorn, Keys
  <1>2. ASSUME NEW j \in Passes PROVE HitWhole(j)'
    <2> SUFFICES ASSUME pc'[j] \in Copying, <<j, at'[j]>> \notin raced'
                 PROVE  lock'[Key(j)'] # Collector /\ derived'[Key(j)'].ran = Marks(Key(j)')
      BY DEF HitWhole, Key, Marks, Sources, Prepares
    <2>1. pc[j] \in Copying /\ <<j, at[j]>> \notin raced /\ Key(j)' = Key(j)
      BY DEF Key
    <2>2. Key(j) \in Keys /\ lock[Key(j)] # Collector /\ derived[Key(j)].ran = Marks(Key(j))
      BY <2>1, CopyingKey DEF IInv, ImagesInv, HitWhole
    <2> QED
      BY <2>1, <2>2
  <1> QED
    BY <1>1, <1>2 DEF ImagesInv

(* No pass gives a lock to the collector. *)
LEMMA PassLocks ==
    ASSUME IInv, NEW i \in Passes, NEW k \in Keys,
           lock' = lock \/ Release(i) \/ (\E key \in Keys : lock' = [lock EXCEPT ![key] = i])
    PROVE  lock'[k] = Collector => lock[k] = Collector
  <1>1. Free # Collector /\ i # Collector /\ lock \in [Keys -> Passes \cup {Free, Collector}]
    BY JobsAssumption, ImageFacts DEF Free, Collector
  <1> QED
    BY <1>1 DEF Release

(* A pass that is told to attach an image has seen under the lock that it  *)
(* is whole.                                                               *)
LEMMA LookHits ==
    ASSUME IInv, NEW i \in Passes, Look(i)
    PROVE  ImagesInv'
  <1>1. /\ pc[i] = "look" /\ job' = job /\ at' = at /\ derived' = derived /\ raced' = raced
        /\ lock' = lock \/ Release(i)
    BY DEF Look, Degrade
  <1>2. \A k \in Keys : lock'[k] = Collector => lock[k] = Collector
    BY <1>1, PassLocks
  <1>3. Key(i) \in Keys /\ lock[Key(i)] = i
    BY <1>1, KeyFacts DEF IInv, PassesInv, LockedWhileEnsuring, PassInv, AtPackage, Places, Ensuring
  <1>4. ASSUME NEW j \in Passes \ {i}, pc'[j] \in Copying PROVE pc[j] \in Copying
    BY <1>4 DEF Look, Goto, Degrade, IInv, PassesInv, TypeOK
  <1>5. CASE ~(derived[Key(i)].state # "absent" /\ ValidatePublished(Key(i)))
    <2>1. pc'[i] \notin Copying
      BY <1>5 DEF Look, Goto, Degrade, Copying, IInv, PassesInv, TypeOK, ValidatePublished
    <2> QED
      BY <1>1, <1>2, <1>4, <2>1, HitsKept
  <1>6. CASE derived[Key(i)].state # "absent" /\ ValidatePublished(Key(i))
    <2>1. Release(i)
      BY <1>6 DEF Look
    <2>2. lock'[Key(i)] # Collector
      BY <1>3, <2>1 DEF Release, Free, Collector
    <2>3. derived[Key(i)].ran = Marks(Key(i))
      BY <1>3, <1>6, ImageFacts DEF ValidatePublished
    <2>4. RemovedTorn'
      BY <1>1, <1>2 DEF IInv, ImagesInv, RemovedTorn, Keys
    <2>5. ASSUME NEW j \in Passes PROVE HitWhole(j)'
      <3> SUFFICES ASSUME pc'[j] \in Copying, <<j, at[j]>> \notin raced
                   PROVE  lock'[Key(j)] # Collector /\ derived[Key(j)].ran = Marks(Key(j))
        BY <1>1 DEF HitWhole, Key, Marks, Sources, Prepares
      <3>1. CASE j = i
        BY <2>2, <2>3, <3>1
      <3>2. CASE j # i
        <4>1. pc[j] \in Copying
          BY <1>4, <3>2
        <4>2. Key(j) \in Keys /\ lock[Key(j)] # Collector /\ derived[Key(j)].ran = Marks(Key(j))
          BY <4>1, CopyingKey DEF IInv, ImagesInv, HitWhole
        <4> QED
          BY <1>2, <4>2
      <3> QED
        BY <3>1, <3>2
    <2> QED
      BY <2>4, <2>5 DEF ImagesInv
  <1> QED
    BY <1>5, <1>6

(* What is published is whole, and its lock was not the collector's. *)
LEMMA PublishHits ==
    ASSUME IInv, NEW i \in Passes, Publish(i)
    PROVE  ImagesInv'
  <1> DEFINE new == [state |-> "sound", ran |-> Tree(i).ran]
  <1>1. /\ pc[i] = "publish" /\ job' = job /\ at' = at /\ raced' = raced /\ lock' = lock
        /\ derived' = [derived EXCEPT ![Key(i)] = new]
    BY DEF Publish, SnapshotPkgTree
  <1>2. Key(i) \in Keys /\ lock[Key(i)] = i /\ Tree(i).ran = Marks(Key(i)) /\ i # Collector
    BY <1>1, KeyFacts, JobsAssumption
    DEF IInv, PassesInv, LockedWhileEnsuring, PassInv, AtPackage, Isolated, Places, Ensuring
  <1>3. new.ran = Marks(Key(i))
    BY <1>2
  <1> HIDE DEF new
  <1>4. \A k \in Keys : derived'[k] = IF k = Key(i) THEN new ELSE derived[k]
    BY <1>1, <1>2, ImageFacts
  <1>5. RemovedTorn'
    <2>1. ASSUME NEW k \in Keys, lock'[k] = Collector PROVE derived'[k].state = "torn"
      BY <1>1, <1>2, <1>4, <2>1 DEF IInv, ImagesInv, RemovedTorn
    <2> QED
      BY <2>1 DEF RemovedTorn, Keys
  <1>6. ASSUME NEW j \in Passes PROVE HitWhole(j)'
    <2> SUFFICES ASSUME pc'[j] \in Copying, <<j, at[j]>> \notin raced
                 PROVE  lock[Key(j)] # Collector /\ derived'[Key(j)].ran = Marks(Key(j))
      BY <1>1 DEF HitWhole, Key, Marks, Sources, Prepares
    <2>1. pc[j] \in Copying
      BY DEF Publish, Goto, Copying, IInv, PassesInv, TypeOK
    <2>2. Key(j) \in Keys /\ lock[Key(j)] # Collector /\ derived[Key(j)].ran = Marks(Key(j))
      BY <2>1, CopyingKey DEF IInv, ImagesInv, HitWhole
    <2> QED
      BY <1>3, <1>4, <2>2
  <1> QED
    BY <1>5, <1>6 DEF ImagesInv

(* The other steps of a pass do not touch the images and do not begin to   *)
(* attach one.                                                             *)
LEMMA OtherHits ==
    ASSUME IInv, NEW i \in Passes, (Step(i) /\ ~Look(i) /\ ~Publish(i)) \/ Crash(i)
    PROVE  ImagesInv'
  <1>1. pc \in [Passes -> Places] /\ at \in [Passes -> Nat \ {0}]
    BY DEF IInv, PassesInv, TypeOK
  <1>2. job' = job /\ derived' = derived
    BY DEF Step, Visit, ReadFails, ReadScripts, Lock, EnsureFails, Isolate, RunScript, ScriptFails, Finish,
           PublishMetadata, AttachDerived, CopyFile, CopyFails, Attached, Crash
  <1>3. lock' = lock \/ Release(i) \/ (\E key \in Keys : lock' = [lock EXCEPT ![key] = i])
    <2>1. CASE Lock(i)
      <3>1. Key(i) \in Keys
        BY <2>1, KeyFacts DEF Lock, IInv, PassesInv, PassInv, AtPackage, Places
      <3> QED
        BY <2>1, <3>1 DEF Lock
    <2>2. CASE ~Lock(i)
      BY <2>2 DEF Step, Visit, ReadFails, ReadScripts, EnsureFails, Degrade, Isolate, RunScript, ScriptFails, Finish,
                  PublishMetadata, AttachDerived, CopyFile, CopyFails, Attached, Crash
    <2> QED
      BY <2>1, <2>2
  <1>4. \A k \in Keys : lock'[k] = Collector => lock[k] = Collector
    BY <1>3, PassLocks
  <1>5. /\ \A j \in Passes \ {i} : pc'[j] = pc[j] /\ at'[j] = at[j]
        /\ pc'[i] \in Copying => pc[i] \in Copying /\ at'[i] = at[i]
    BY <1>1 DEF Step, Visit, ReadFails, ReadScripts, Lock, EnsureFails, Degrade, Isolate, RunScript, ScriptFails,
                Finish, PublishMetadata, AttachDerived, CopyFile, CopyFails, Attached, Crash, Goto, Next1, Copying
  <1>6. ASSUME NEW j \in Passes, pc'[j] \in Copying, <<j, at[j]>> \in raced PROVE <<j, at[j]>> \in raced'
    <2>1. CASE Crash(i)
      <3>1. pc'[i] = "visit" /\ raced' = {r \in raced : r[1] # i}
        BY <1>1, <2>1 DEF Crash, Goto
      <3>2. j # i
        BY <1>6, <3>1 DEF Copying
      <3> QED
        BY <1>6, <3>1, <3>2
    <2>2. CASE ~Crash(i)
      <3>1. raced' = raced
        BY <2>2 DEF Step, Visit, ReadFails, ReadScripts, Lock, EnsureFails, Isolate, RunScript, ScriptFails, Finish,
                    PublishMetadata, AttachDerived, CopyFile, CopyFails, Attached
      <3> QED
        BY <1>6, <3>1
    <2> QED
      BY <2>1, <2>2
  <1> QED
    BY <1>2, <1>4, <1>5, <1>6, HitsKept

(* Every step keeps the invariant. *)
LEMMA NextInv == IInv /\ [Next]_vars => IInv'
  <1> SUFFICES ASSUME IInv, [Next]_vars PROVE IInv'
    OBVIOUS
  <1>1. ASSUME NEW i \in Passes, Step(i) PROVE IInv'
    <2>1. PassesInv'
      BY <1>1, VisitInv, ReadFailsInv, ReadScriptsInv, LockInv, EnsureFailsInv, LookInv, IsolateInv, RunScriptInv,
         ScriptFailsInv, FinishInv, PublishInv, PublishMetadataInv, AttachDerivedInv, CopyFileInv, CopyFailsInv,
         AttachedInv DEF Step
    <2>2. ImagesInv'
      BY <1>1, LookHits, PublishHits, OtherHits
    <2> QED
      BY <2>1, <2>2 DEF IInv
  <1>2. ASSUME NEW i \in Passes, Crash(i) PROVE IInv'
    BY <1>2, CrashInv, OtherHits DEF IInv
  <1>3. ASSUME NEW key \in Keys, Collect(key) \/ Removal(key) \/ RemovalStops(key) \/ Alter(key) PROVE IInv'
    BY <1>3, CollectInv, RemovalSteps, AlterInv
  <1>4. CASE UNCHANGED vars
    <2>1. /\ UNCHANGED <<job, pc, at, step, entry, work, paths, image, lock, crashes, excused>>
          /\ derived' = derived /\ faults' = faults /\ raced' = raced
      BY <1>4 DEF vars
    <2>2. PassesInv'
      BY <2>1, ImageFacts, OnlyImages
    <2>3. ImagesInv'
      BY <2>1, HitsKept
    <2> QED
      BY <2>2, <2>3 DEF IInv
  <1> QED
    BY <1>1, <1>2, <1>3, <1>4 DEF Next

(* The inductive invariant holds in every behaviour. *)
LEMMA Invariant == Spec => []IInv
  BY InitInv, NextInv, PTL DEF Spec
-----------------------------------------------------------------------------
(* The types of trees, images, locks and passes, for any lock file and any *)
(* number of passes, faults and kills.                                     *)
THEOREM TypeCorrect == Spec => []TypeOK
  <1>1. IInv => TypeOK
    BY DEF IInv, PassesInv
  <1> QED
    BY <1>1, Invariant, PTL

(* DerivedStore::ensure: at most one pass at a time looks for, builds or   *)
(* publishes the derived image of a key, and a pass that is not doing so,  *)
(* having succeeded, failed or been killed, holds no lock.                 *)
THEOREM OneBuilder == Spec => []LockedWhileEnsuring
  <1>1. IInv => LockedWhileEnsuring
    BY DEF IInv, PassesInv
  <1> QED
    BY <1>1, Invariant, PTL

(* No script ever writes to a store image, although the trees scripts run  *)
(* in begin as hard links to it: for any lock file, any passes, and        *)
(* whatever fails or is killed.                                            *)
THEOREM ImagesUntouched == Spec => []ImagesPristine
  <1>1. IInv => ImagesPristine
    BY DEF IInv, PassesInv
  <1> QED
    BY <1>1, Invariant, PTL

(* When a pass is done every package is behind it, so the invariant says   *)
(* of all of them what it says of the packages behind.                     *)
LEMMA DoneAsIfRun == IInv => DerivedAsIfRun
  <1> SUFFICES ASSUME IInv PROVE DerivedAsIfRun
    OBVIOUS
  <1>1. Len(Packages) \in Nat /\ DOMAIN Packages = 1 .. Len(Packages)
    BY PackageFacts
  <1>2. EntriesAsIfRun
    <2> SUFFICES ASSUME NEW i \in Passes, pc[i] = "done", job[i].mode = "run", job[i].volume,
                        NEW p \in DOMAIN Packages
                 PROVE  Settled(i, p)
      BY DEF EntriesAsIfRun, Settled, AsIfRun, Wanted
    <2>1. at[i] = Len(Packages) + 1
      BY DEF IInv, PassesInv, PassInv, AtPackage
    <2>2. p < at[i]
      BY <1>1, <2>1
    <2> QED
      BY <2>2 DEF IInv, PassesInv, PassInv, EntriesInOrder
  <1>3. ASSUME NEW i \in Passes, pc[i] = "done", job[i].mode \in {"run", "skip"}, job[i].volume
        PROVE  paths[i] = Recorded
    <2>1. at[i] = Len(Packages) + 1
      BY <1>3 DEF IInv, PassesInv, PassInv, AtPackage
    <2>2. \A p \in Recorded : p < at[i]
      BY <1>1, <2>1 DEF Recorded
    <2>3. paths[i] \subseteq Recorded /\ \A p \in Recorded : p < at[i] => p \in paths[i]
      BY <1>3 DEF IInv, PassesInv, PassInv, PathsInOrder
    <2> QED
      BY <2>2, <2>3
  <1>4. DerivedPathsAgree
    BY <1>3 DEF DerivedPathsAgree
  <1> QED
    BY <1>2, <1>4 DEF IInv, PassesInv, DerivedAsIfRun

(* A derived image that ensure would attach bears exactly the marks of its *)
(* key, an install that succeeds leaves every package as if its scripts    *)
(* had run in its own environment, where no collector began to remove the  *)
(* image during the copy, and with no other marks where one did, and a     *)
(* pass over a cached volume records the paths the building pass recorded: *)
(* for any lock file, any passes and environments, failures, kills and     *)
(* collections.                                                            *)
THEOREM ScriptsAsIfRun == Spec => []DerivedAsIfRun
  BY DoneAsIfRun, Invariant, PTL
=============================================================================
