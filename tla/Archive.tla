------------------------------- MODULE Archive -------------------------------
(***************************************************************************)
(* src/archive.rs: extracting a package archive.  A path is a sequence of  *)
(* components; an entry has a type, a path, a declared size and, if it is  *)
(* a symlink, a target path.  File contents are the entry's position.      *)
(* Paths are opened as the system opens them: links on the way are         *)
(* followed (the Unix side of the code; Windows defers its links).         *)
(***************************************************************************)
EXTENDS Naturals, Sequences, SequencesExt, FiniteSetsExt

NoPrefix == "none"
Manifest == "package.json"

(* Metadata-only headers are no archive entries. *)
IsHeader(entry) == entry.type = "header"
IsRegular(entry) == entry.type = "file"

(* Mutant: headers take part in the search for the root. *)
DetectCountingHeaders(entries) ==
    LET firsts == [i \in 1 .. Len(entries) |-> entries[i].path[1]]
        stops == {i \in DOMAIN firsts : firsts[i] = "package" \/ firsts[i] # firsts[1]}
        manifest == \E i \in DOMAIN entries : Tail(entries[i].path) = <<Manifest>>
    IN  IF stops # {} THEN IF firsts[Min(stops)] = "package" THEN "package" ELSE NoPrefix
        ELSE IF firsts # <<>> /\ manifest THEN firsts[1] ELSE NoPrefix

(* The root directory to strip: the conventional one as soon as an entry   *)
(* has it, otherwise the one all entries share if the manifest is right    *)
(* below it.  The scan ends at the first entry that settles it.            *)
DetectArchiveRootPrefix(entries) ==
    LET named == SelectSeq(entries, LAMBDA e : ~IsHeader(e) /\ e.path[1] \notin {".", "..", "/"})
        firsts == [i \in 1 .. Len(named) |-> named[i].path[1]]
        stops == {i \in DOMAIN firsts : firsts[i] = "package" \/ firsts[i] # firsts[1]}
        manifest == \E i \in DOMAIN named : Tail(named[i].path) = <<Manifest>>
    IN  IF stops # {} THEN IF firsts[Min(stops)] = "package" THEN "package" ELSE NoPrefix
        ELSE IF firsts # <<>> /\ manifest THEN firsts[1] ELSE NoPrefix

(* The conventional root is stripped whatever was detected. *)
StripPackagePrefix(path, prefix) ==
    IF path # <<>> /\ Head(path) \in {prefix, "package"} THEN Tail(path) ELSE path

(* A relative path without "..", the "." components dropped. *)
Unsafe(path) == \E i \in DOMAIN path : path[i] \in {"..", "/"}
Normalised(path) == SelectSeq(path, LAMBDA c : c # ".")

(* Where a symlink leads, counted in directories below the image root:     *)
(* the depth never falls below it on the way.                              *)
SymlinkWithinRoot(rel, target) ==
    LET Climb(depth, c) ==
            IF depth = 0 \/ c = "/" THEN 0        \* outside once is outside for good
            ELSE CASE c = ".." -> depth - 1 [] c = "." -> depth [] OTHER -> depth + 1
    IN  FoldLeft(Climb, Len(rel), target) > 0

(* Budgets.  A value at the limit is allowed. *)
ObserveEntry(image, limits) ==
    IF image.entries + 1 > limits.entries
    THEN [image EXCEPT !.error = "entries"]
    ELSE [image EXCEPT !.entries = @ + 1]

ReserveFile(image, size, limits) ==
    IF size > limits.file THEN [image EXCEPT !.error = "file"]
    ELSE IF image.total + size > limits.total THEN [image EXCEPT !.error = "total"]
    ELSE [image EXCEPT !.total = @ + size]

(* What an image holds at a place below its root.                          *)
Outside == <<"..">>
Dangling == <<"?">>
InRoot(at) == at = <<>> \/ at[1] # ".."
Node(tree, at) ==
    LET hits == {node \in tree : node.rel = at}
    IN  IF hits = {} THEN [type |-> IF at = <<>> THEN "dir" ELSE "absent"] ELSE CHOOSE node \in hits : TRUE

(* The place a path leads to from a directory: every link on the way is    *)
(* followed, up to SymlinkLimit of them; what is not there leads nowhere.  *)
SymlinkLimit == 40
RECURSIVE Follow(_, _, _, _)
Follow(tree, at, path, links) ==
    IF path = <<>> \/ ~InRoot(at) THEN at
    ELSE LET node == Node(tree, Append(at, Head(path)))
         IN  IF links = 0 \/ Node(tree, at).type # "dir" THEN Dangling
             ELSE IF Head(path) = ".."
             THEN Follow(tree, IF at = <<>> THEN Outside ELSE Front(at), Tail(path), links)
             ELSE IF node.type = "symlink" THEN Follow(tree, at, Normalised(node.target) \o Tail(path), links - 1)
             ELSE Follow(tree, Append(at, Head(path)), Tail(path), links)
Lead(image, rel) == Follow(image.tree, <<>>, rel, SymlinkLimit)
(* The same, but for the last component: what a link or directory is made at. *)
Spot(image, rel) == Append(Lead(image, Front(rel)), Last(rel))

Put(image, at, type, target, from) ==
    [image EXCEPT !.tree = {node \in @ : node.rel # at} \cup {[rel |-> at, type |-> type, target |-> target, from |-> from]}]
CannotWrite(image) == [image EXCEPT !.error = "write"]

(* create_dir_all: what is there already must lead to a directory.  What   *)
(* is outside the root is not modelled, so that nothing is missing there.  *)
CreateDirAll(image, rel) ==
    LET Create(i, k) ==
            LET path == SubSeq(rel, 1, k)
                spot == Spot(i, path)
            IN  IF i.error # "none" \/ ~InRoot(spot) \/ ~InRoot(Lead(i, path)) THEN i
                ELSE IF Node(i.tree, spot).type = "absent" THEN Put(i, spot, "dir", <<>>, 0)
                ELSE IF Node(i.tree, Lead(i, path)).type = "dir" THEN i
                ELSE CannotWrite(i)
    IN  FoldLeftDomain(Create, image, rel)

(* An entry is written where its path leads: File::create follows the last *)
(* component too, symlink finds it taken.                                  *)
Write(image, rel, type, target, from) ==
    LET made == CreateDirAll(image, Front(rel))
        at == IF type = "file" THEN Lead(made, rel) ELSE Spot(made, rel)
    IN  IF type = "dir" THEN CreateDirAll(image, rel)
        ELSE IF made.error # "none" THEN made
        ELSE IF ~InRoot(at) THEN [made EXCEPT !.escaped = TRUE]
        ELSE IF Node(made.tree, at).type \notin {"absent", type} \ {"symlink"} \/ at = Dangling THEN CannotWrite(made)
        ELSE Put(made, at, type, target, from)

(* Mutant: the file is written and nobody counts its bytes. *)
PlaceUncharged(image, entry, rel, from, limits) ==
    IF entry.type = "symlink" /\ ~SymlinkWithinRoot(rel, entry.target)
    THEN [image EXCEPT !.error = "unsupported"] ELSE Write(image, rel, entry.type, entry.target, from)

(* One entry after the checks: a file is charged before it is written.     *)
Place(image, entry, rel, from, limits) ==
    CASE entry.type = "file" ->
           LET reserved == ReserveFile(image, entry.size, limits)
           IN  IF reserved.error # "none" THEN reserved ELSE Write(reserved, rel, "file", <<>>, from)
      [] entry.type = "dir" -> Write(image, rel, "dir", <<>>, from)
      [] entry.type = "symlink" /\ SymlinkWithinRoot(rel, entry.target) ->
           Write(image, rel, "symlink", entry.target, from)
      [] OTHER -> [image EXCEPT !.error = "unsupported"]

(* One turn of extract_with_limits' loop. *)
ExtractEntry(image, entry, from, prefix, limits) ==
    LET stripped == StripPackagePrefix(entry.path, prefix)
        rel == Normalised(stripped)
        counted == ObserveEntry(image, limits)
        duplicate == \E s \in image.seen :
                        s.rel = rel /\ ~(s.type = "file" /\ IsRegular(entry))
    IN  IF image.error # "none" THEN image
        ELSE IF Unsafe(stripped) THEN [image EXCEPT !.error = "unsafe"]
        ELSE IF rel = <<>> THEN image
        ELSE IF counted.error # "none" \/ IsHeader(entry) THEN counted
        ELSE IF duplicate THEN [counted EXCEPT !.error = "duplicate"]
        ELSE Place([counted EXCEPT !.seen = @ \cup {[rel |-> rel, type |-> entry.type]}],
                   entry, rel, from, limits)

EmptyImage == [tree |-> {}, seen |-> {}, entries |-> 0, total |-> 0, error |-> "none", escaped |-> FALSE]

(* extract_with_limits. *)
Extracted(entries, limits) ==
    LET prefix == DetectArchiveRootPrefix(entries)
    IN  FoldLeftDomain(LAMBDA image, i : ExtractEntry(image, entries[i], i, prefix, limits),
                       EmptyImage, entries)
-----------------------------------------------------------------------------
(* What an extraction must come to.  The root is a property of the set of  *)
(* entries: the conventional one if any entry has it, else the common one. *)
RootOf(entries) ==
    LET firsts == {e.path[1] : e \in {x \in Range(entries) :
                      ~IsHeader(x) /\ x.path[1] \notin {".", "..", "/"}}}
    IN  IF "package" \in firsts THEN "package"
        ELSE IF Cardinality(firsts) = 1
                /\ \E e \in Range(entries) : ~IsHeader(e) /\ Tail(e.path) = <<Manifest>>
             THEN CHOOSE f \in firsts : TRUE
        ELSE NoPrefix

Rel(entries, i) == Normalised(StripPackagePrefix(entries[i].path, RootOf(entries)))
ListedEntries(entries) == {i \in DOMAIN entries : ~IsHeader(entries[i]) /\ Rel(entries, i) # <<>>}
PackedBelow(entries, above, i) == IsStrictPrefix(Rel(entries, above), Rel(entries, i))

(* The image holds each file as its last entry has it (npm's               *)
(* last-write-wins), each link, and nothing else but directories above.    *)
HoldsItsEntries(entries, image) ==
    LET listed == ListedEntries(entries)
        lastOf == {i \in listed : \A j \in listed : Rel(entries, j) = Rel(entries, i) => j <= i}
        nodes == {[rel |-> Rel(entries, i), type |-> entries[i].type, target |-> entries[i].target,
                   from |-> IF entries[i].type = "dir" THEN 0 ELSE i] : i \in lastOf}
    IN  /\ nodes \subseteq image.tree
        /\ \A node \in image.tree \ nodes :
             node.type = "dir" /\ \E n \in nodes : IsStrictPrefix(node.rel, n.rel)

(* An extraction that succeeds has stripped the root from every entry, in  *)
(* whatever order the archive lists them (detect_archive_root_prefix stops *)
(* early), holds its entries and wrote nothing elsewhere, provided nothing *)
(* is packed below a link; what is packed below a plain file fails it.     *)
ImageIsArchive(entries, image) ==
    image.error = "none" =>
        /\ \A i, j \in ListedEntries(entries) : PackedBelow(entries, i, j) => entries[i].type # "file"
        /\ (\A i, j \in ListedEntries(entries) : PackedBelow(entries, i, j) => entries[i].type # "symlink")
              => HoldsItsEntries(entries, image) /\ ~image.escaped

(* Claim: a link never has a file written in another place than the        *)
(* archive names ("prevents following an attacker-controlled link to write *)
(* outside the store"), although symlink_within_root looks at its target   *)
(* only and nothing looks at the paths below it.                           *)
LinksNotWrittenThrough(entries, image) ==
    image.error = "none" => HoldsItsEntries(entries, image) /\ ~image.escaped

(* The budgets bound what is written: files and generated entries together *)
(* never exceed what was reserved before the first byte of each.           *)
ImageWithinBudget(entries, limits, image) ==
    LET files == {node \in image.tree : node.type = "file"}
    IN  /\ MapThenSumSet(LAMBDA node : entries[node.from].size, files) <= limits.total
        /\ \A node \in files : entries[node.from].size <= limits.file
        /\ image.error = "none" => image.entries <= limits.entries
-----------------------------------------------------------------------------
(***************************************************************************)
(* src/package_image.rs: the index beside an extracted image, which lists  *)
(* its files and symlinks, and the older format that also carries the file *)
(* payloads.  A stream is a sequence of units: the magic, the count, and   *)
(* for each entry its kind, its path and what the kind has after it.       *)
(* Here a path is a number, so that entries can be sorted.                 *)
(***************************************************************************)
Magic == "BPMIMG01"
IndexMagic == "BPMIDX01"
Corrupt == <<"corrupt">>

Sorted(entries) == SetToSortSeq(entries, LAMBDA x, y : x.path < y.path)

(* from_directory_index: every file and symlink below the root, sorted.    *)
FromDirectoryIndex(entries) ==
    LET sorted == Sorted(entries)
        Unit(e) == IF e.kind = 0 THEN <<0, e.path>> ELSE <<1, e.path, e.target>>
    IN  FoldLeft(LAMBDA out, e : out \o Unit(e), <<IndexMagic, Len(sorted)>>, sorted)

(* encode and from_directory: the same with the payloads.                  *)
Encode(entries) ==
    LET sorted == Sorted(entries)
        Unit(e) == IF e.kind = 0 THEN <<0, e.path, e.payload>> ELSE <<1, e.path, e.target>>
    IN  FoldLeft(LAMBDA out, e : out \o Unit(e), <<Magic, Len(sorted)>>, sorted)

(* A link's or a payload's unit. *)
IsUnit(u) == u \in 0 .. 9

(* Mutant: the count is believed and what follows the last entry ignored.  *)
DecodeEntriesLax(stream, perEntry) ==
    LET Read(st, i) ==
            LET k == st.at IN
            IF ~st.ok \/ k + 1 > Len(stream) \/ stream[k] \notin {0, 1} THEN [st EXCEPT !.ok = FALSE]
            ELSE LET width == IF stream[k] = 1 THEN 3 ELSE perEntry
                 IN  [ok |-> k + width - 1 <= Len(stream), at |-> k + width,
                      out |-> Append(st.out, SubSeq(stream, k, k + 1))]
        end == FoldLeft(Read, [ok |-> TRUE, at |-> 3, out |-> <<>>], [i \in 1 .. stream[2] |-> i])
    IN  IF end.ok THEN end.out ELSE Corrupt

(* The loop of both decoders: a kind, a path and the rest, count times,    *)
(* each within the stream, and nothing after the last.  perEntry is the    *)
(* width of a file's entry: its payload is skipped by seeking.             *)
DecodeEntries(stream, perEntry) ==
    LET Read(st, i) ==
            LET k == st.at IN
            IF ~st.ok \/ k + 1 > Len(stream) \/ stream[k] \notin {0, 1} THEN [st EXCEPT !.ok = FALSE]
            ELSE LET width == IF stream[k] = 1 THEN 3 ELSE perEntry
                 IN  [ok |-> k + width - 1 <= Len(stream), at |-> k + width,
                      out |-> Append(st.out, SubSeq(stream, k, k + 1))]
        end == FoldLeft(Read, [ok |-> TRUE, at |-> 3, out |-> <<>>], [i \in 1 .. stream[2] |-> i])
    IN  IF end.ok /\ end.at = Len(stream) + 1 THEN end.out ELSE Corrupt

(* decode_index with decode_metadata_index: which entries the stream       *)
(* lists, kind and path.  The count is checked against what remains before *)
(* anything is read.                                                       *)
DecodeIndex(stream) ==
    IF Len(stream) < 2 \/ stream[1] \notin {Magic, IndexMagic} THEN Corrupt
    ELSE LET perEntry == IF stream[1] = Magic THEN 3 ELSE 2
         IN  IF stream[2] * perEntry > Len(stream) - 2 THEN Corrupt
             ELSE DecodeEntries(stream, perEntry)

(* decode: the full format only, with the same loop.                       *)
Decode(stream) ==
    IF Len(stream) < 2 \/ stream[1] # Magic THEN Corrupt ELSE DecodeEntries(stream, 3)
-----------------------------------------------------------------------------
Listed(entries) == [i \in 1 .. Len(Sorted(entries)) |->
                       <<Sorted(entries)[i].kind, Sorted(entries)[i].path>>]

(* A stream the writer finished decodes to exactly the tree's entries, and *)
(* one it did not finish (fs::write cut short by a crash) or that has      *)
(* anything appended is refused, never half believed: link_tree builds a   *)
(* view from what the decoder returns.                                     *)
TornIndexRefused(entries, stream) ==
    LET whole == FromDirectoryIndex(entries)
        full == Encode(entries)
    IN  DecodeIndex(stream) = IF stream \in {whole, full} THEN Listed(entries) ELSE Corrupt
=============================================================================
