----------------------------- MODULE GlobalInstall -----------------------------
(***************************************************************************)
(* run_global_install and link_bin of src/cli/install.rs: `bpm install -g` *)
(* fetches one package into the store and links its executables from the   *)
(* user's bin directory straight into the image.  Nothing locks the        *)
(* directory, and nothing in the index refers to the image.                *)
(*                                                                         *)
(* Declared[g] is the bin field of the package that g installs: names,     *)
(* whether the name and its target are valid, whether the file exists.     *)
(***************************************************************************)
EXTENDS Naturals, Sequences

CONSTANTS Globals, Declared, BinNames, MaxGlobalDeaths, MaxImageLosses

VARIABLES binDir, images, gat, gnext, glinked, gdeaths, glosses
globalVars == <<binDir, images, gat, gnext, glinked, gdeaths, glosses>>

Nothing == <<"nothing">>
UserFile == <<"user file">>
UserDirectory == <<"user directory">>
BinLink(g) == <<"link", g>>

GlobalInit ==
    /\ binDir \in [BinNames -> {Nothing, UserFile, UserDirectory}]
    /\ images = {}
    /\ gat = [g \in Globals |-> "fetch"]
    /\ gnext = [g \in Globals |-> 1]
    /\ glinked = [g \in Globals |-> {}]
    /\ gdeaths = 0 /\ glosses = 0

Goto(g, place) == gat' = [gat EXCEPT ![g] = place]
Bin(g) == Declared[g][gnext[g]]

(* resolve, ensure_artifact and ensure_image, or one of them fails.        *)
FetchGlobal(g) ==
    /\ gat[g] = "fetch"
    /\ \/ images' = images \cup {g} /\ Goto(g, "validate")
       \/ Goto(g, "failed") /\ UNCHANGED images
    /\ UNCHANGED <<binDir, gnext, glinked, gdeaths, glosses>>

(* All names and targets are validated before anything is linked; the      *)
(* manifest is read from the image, which must still be there.             *)
ValidateBins(g) ==
    /\ gat[g] = "validate"
    /\ Goto(g, IF g \in images /\ Declared[g] # <<>> /\ \A k \in DOMAIN Declared[g] : Declared[g][k].valid THEN "next" ELSE "failed")
    /\ UNCHANGED <<binDir, images, gnext, glinked, gdeaths, glosses>>

(* The loop: a bin whose file is missing is skipped, one that is linked    *)
(* already is left alone; without any link the command fails.              *)
NextBin(g) ==
    /\ gat[g] = "next"
    /\ IF gnext[g] > Len(Declared[g])
       THEN Goto(g, IF glinked[g] = {} THEN "failed" ELSE "ok") /\ UNCHANGED <<gnext, glinked>>
       ELSE IF ~(Bin(g).exists /\ g \in images)
       THEN gnext' = [gnext EXCEPT ![g] = @ + 1] /\ UNCHANGED <<gat, glinked>>
       ELSE IF binDir[Bin(g).name] = BinLink(g)
       THEN /\ gnext' = [gnext EXCEPT ![g] = @ + 1]
            /\ glinked' = [glinked EXCEPT ![g] = @ \cup {Bin(g).name}]
            /\ UNCHANGED gat
       ELSE Goto(g, "remove") /\ UNCHANGED <<gnext, glinked>>
    /\ UNCHANGED <<binDir, images, gdeaths, glosses>>

(* remove_file, its result ignored: a directory stays.                     *)
RemoveOldBin(g) ==
    /\ gat[g] = "remove"
    /\ binDir' = [binDir EXCEPT ![Bin(g).name] = IF @ = UserDirectory THEN @ ELSE Nothing]
    /\ Goto(g, "symlink")
    /\ UNCHANGED <<images, gnext, glinked, gdeaths, glosses>>

(* Mutant: a failed symlink makes way for the next attempt. *)
SymlinkBinClearing(g) ==
    /\ gat[g] = "symlink"
    /\ IF binDir[Bin(g).name] = Nothing
       THEN /\ binDir' = [binDir EXCEPT ![Bin(g).name] = BinLink(g)]
            /\ glinked' = [glinked EXCEPT ![g] = @ \cup {Bin(g).name}]
            /\ gnext' = [gnext EXCEPT ![g] = @ + 1]
            /\ Goto(g, "next")
       ELSE /\ binDir' = [binDir EXCEPT ![Bin(g).name] = Nothing]
            /\ Goto(g, "failed")
            /\ UNCHANGED <<glinked, gnext>>
    /\ UNCHANGED <<images, gdeaths, glosses>>

(* symlink fails when another command was there first, and it may fail for *)
(* any other reason ("io"), when the old bin is gone.                      *)
SymlinkBin(g) ==
    /\ gat[g] = "symlink"
    /\ \/ /\ binDir[Bin(g).name] = Nothing
          /\ binDir' = [binDir EXCEPT ![Bin(g).name] = BinLink(g)]
          /\ glinked' = [glinked EXCEPT ![g] = @ \cup {Bin(g).name}]
          /\ gnext' = [gnext EXCEPT ![g] = @ + 1]
          /\ Goto(g, "next")
       \/ /\ Goto(g, IF binDir[Bin(g).name] = Nothing THEN "io" ELSE "failed")
          /\ UNCHANGED <<binDir, glinked, gnext>>
    /\ UNCHANGED <<images, gdeaths, glosses>>

GlobalDies(g) ==
    /\ gat[g] \notin {"ok", "failed", "io", "dead"} /\ gdeaths < MaxGlobalDeaths
    /\ gdeaths' = gdeaths + 1
    /\ Goto(g, "dead")
    /\ UNCHANGED <<binDir, images, gnext, glinked, glosses>>

(* collect: no project refers to the image of a global package, once it is *)
(* in the index through a project's install or a repair.                   *)
CollectImage(g) ==
    /\ g \in images /\ glosses < MaxImageLosses
    /\ glosses' = glosses + 1
    /\ images' = images \ {g}
    /\ UNCHANGED <<binDir, gat, gnext, glinked, gdeaths>>

GlobalNext ==
    \E g \in Globals : \/ FetchGlobal(g) \/ ValidateBins(g) \/ NextBin(g) \/ RemoveOldBin(g) \/ SymlinkBin(g)
                       \/ GlobalDies(g) \/ CollectImage(g)
-----------------------------------------------------------------------------
(* A bin that a command reported as linked stays in the directory, linked  *)
(* to a package that declares it, whatever commands for the same name do   *)
(* or fail at; it is away only while one of them replaces it, or after one *)
(* died or its symlink met an error of the file system doing so.           *)
LinkedBinsStay ==
    \A g \in Globals, n \in BinNames :
        n \in glinked[g] =>
            \/ \E h \in Globals : /\ binDir[n] = BinLink(h)
                                  /\ \E k \in DOMAIN Declared[h] : Declared[h][k].name = n /\ Declared[h][k].exists
            \/ \E h \in Globals : gat[h] \in {"symlink", "io", "dead"} /\ gnext[h] <= Len(Declared[h]) /\ Bin(h).name = n
=============================================================================
