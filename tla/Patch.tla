-------------------------------- MODULE Patch --------------------------------
(***************************************************************************)
(* src/patch.rs: a unified diff that is applied to the files of a package. *)
(*                                                                         *)
(* A line of the diff is [kind, value]: "old" and "new" are the headers    *)
(* `--- ` and `+++ ` of a file, "hunk" is `@@ -value`, " ", "-" and "+"    *)
(* are lines of a hunk, "no newline" is the remark git adds, and "other"   *)
(* is anything else.  A line of a file is [text, ended]: the last one may  *)
(* lack its newline.  A path is the sequence of its parts, a text of its   *)
(* words; a text that starts with `-- ` or `++ ` has "--" or "++" for its  *)
(* first.  What may fail gives <<result>> or <<>>.                         *)
(***************************************************************************)
EXTENDS Naturals, Sequences, SequencesExt

EndedLine(text) == [text |-> text, ended |-> TRUE]

(* normalize_patch_path: a/ or b/ goes, what it says is "/dev/null" or     *)
(* leaves the package is refused.                                          *)
NormalizePatchPath(path) ==
    LET bare == IF path # <<>> /\ path[1] \in {"a", "b"} THEN Tail(path) ELSE path
    IN  IF path = <<"", "dev", "null">> \/ bare = <<>> \/ \E k \in DOMAIN bare : bare[k] = ".." THEN <<>> ELSE <<bare>>

LastHunkGets(s, mark, text) ==
    LET p == Len(s.patches)
        n == Len(s.patches[p].hunks)
    IN  [s EXCEPT !.patches[p].hunks[n].lines = Append(@, [mark |-> mark, line |-> EndedLine(text)])]

(* parse_patch, one line: `at` is the loop the line is met in.             *)
ParseLine(s, l) ==
    CASE s.at = "wrong" -> s
      [] s.at = "expect new" ->
           LET target == NormalizePatchPath(l.value)
           IN  IF l.kind # "new" \/ target = <<>> THEN [s EXCEPT !.at = "wrong"]
               ELSE [s EXCEPT !.at = "file", !.patches = Append(@, [target |-> target[1], hunks |-> <<>>])]
      [] s.at \in {"between", "file", "hunk"} /\ l.kind = "old" -> [s EXCEPT !.at = "expect new"]
      [] s.at \in {"file", "hunk"} /\ l.kind = "hunk" ->
           [s EXCEPT !.at = "hunk", !.patches[Len(s.patches)].hunks = Append(@, [start |-> l.value, lines |-> <<>>])]
      [] s.at = "hunk" /\ l.kind = "no newline" -> s
      [] s.at = "hunk" /\ l.kind \in {" ", "-", "+"} -> LastHunkGets(s, l.kind, l.value)
      [] s.at = "hunk" /\ l.kind = "new" -> LastHunkGets(s, "+", <<"++">> \o l.value)
      [] s.at = "hunk" /\ l.kind = "other" -> [s EXCEPT !.at = "wrong"]
      [] OTHER -> s
ParsePatch(lines) ==
    LET s == FoldLeft(ParseLine, [at |-> "between", patches |-> <<>>], lines)
    IN  IF s.at \in {"wrong", "expect new"} \/ s.patches = <<>> THEN <<>> ELSE <<s.patches>>

(* find_target: the path itself, below package/, or below any other root.  *)
(* A map keeps the last of two entries with one path.                      *)
FindTarget(entries, target) ==
    LET At(path) == {k \in DOMAIN entries : entries[k].path = path}
        below == {k \in DOMAIN entries : entries[k].path # <<>> /\ Tail(entries[k].path) = target}
    IN  IF At(target) # {} THEN Max(At(target))
        ELSE IF At(<<"package">> \o target) # {} THEN Max(At(<<"package">> \o target))
        ELSE IF below # {} THEN Min(below) ELSE 0

(* Mutant: the line number of a hunk is taken for an index. *)
HunkIndexPlain(hunk) == hunk.start

HunkIndex(hunk) == IF hunk.start = 0 THEN 0 ELSE hunk.start - 1

(* apply_file_patch, one line and one hunk.                                *)
ApplyLine(original, s, l) ==
    IF s.ok /\ l.mark # "+" /\ (s.cursor >= Len(original) \/ original[s.cursor + 1] # l.line) THEN [s EXCEPT !.ok = FALSE]
    ELSE [s EXCEPT !.cursor = IF l.mark = "+" THEN @ ELSE @ + 1,
                   !.out = IF l.mark = "-" THEN @ ELSE Append(@, l.line)]
ApplyHunk(original, s, hunk) ==
    LET start == HunkIndex(hunk)
    IN  IF ~s.ok \/ start < s.cursor \/ start > Len(original) THEN [s EXCEPT !.ok = FALSE]
        ELSE FoldLeft(LAMBDA t, l : IF t.ok THEN ApplyLine(original, t, l) ELSE t,
                      [s EXCEPT !.out = @ \o SubSeq(original, s.cursor + 1, start), !.cursor = start], hunk.lines)
ApplyFilePatch(original, hunks) ==
    LET s == FoldLeft(LAMBDA t, hunk : ApplyHunk(original, t, hunk), [ok |-> TRUE, cursor |-> 0, out |-> <<>>], hunks)
    IN  IF s.ok THEN <<s.out \o SubSeq(original, s.cursor + 1, Len(original))>> ELSE <<>>

(* apply_unified_patch_to_tgz: read_entries keeps the files only.          *)
ReadEntries(tarball) == SelectSeq(tarball, LAMBDA e : e.file)
ApplyOne(got, patch) ==
    IF got = <<>> THEN <<>>
    ELSE LET entries == got[1]
             k == FindTarget(entries, patch.target)
             data == IF k = 0 THEN <<>> ELSE ApplyFilePatch(entries[k].data, patch.hunks)
         IN  IF data = <<>> THEN <<>> ELSE <<[entries EXCEPT ![k].data = data[1]]>>
Apply(tarball, lines) ==
    LET patches == ParsePatch(lines)
    IN  IF patches = <<>> THEN <<>> ELSE FoldLeft(ApplyOne, <<ReadEntries(tarball)>>, patches[1])
-----------------------------------------------------------------------------
(* The reference: an edit is a sequence of lines that are kept, removed or *)
(* added; diff writes it down with some lines of context.                  *)
Texts(edit) == [k \in DOMAIN edit |-> EndedLine(edit[k].value)]
Before(edit) == Texts(SelectSeq(edit, LAMBDA l : l.kind # "+"))
After(edit) == Texts(SelectSeq(edit, LAMBDA l : l.kind # "-"))
Undo(edit) == [k \in DOMAIN edit |-> [edit[k] EXCEPT !.kind = CASE @ = "+" -> "-" [] @ = "-" -> "+" [] OTHER -> @]]

Shown(edit, context) ==
    {k \in DOMAIN edit : \E c \in DOMAIN edit : edit[c].kind # " " /\ c <= k + context /\ k <= c + context}
(* A hunk's header counts the old lines before it; a hunk without any old  *)
(* line names the line it comes after.                                     *)
HunkAt(edit, shown, k) ==
    LET run == {j \in DOMAIN edit : j >= k /\ \A i \in k .. j : i \in shown}
        before == Len(Before(SubSeq(edit, 1, k - 1)))
    IN  [kind |-> "hunk", value |-> IF \A j \in run : edit[j].kind = "+" THEN before ELSE before + 1]
(* How a line of a diff reads: a removed text that starts with `-- ` like  *)
(* the header of a file, an added one with `++ ` like its second line.     *)
LooksLikeHeader(l) == l.kind = "-" /\ l.value[1] = "--"
Printed(l) ==
    IF LooksLikeHeader(l) THEN [kind |-> "old", value |-> Tail(l.value)]
    ELSE IF l.kind = "+" /\ l.value[1] = "++" THEN [kind |-> "new", value |-> Tail(l.value)]
    ELSE l
Diff(edit, context, path) ==
    LET shown == Shown(edit, context)
        LinesAt(k) == IF k \notin shown THEN <<>>
                      ELSE (IF k - 1 \in shown THEN <<>> ELSE <<HunkAt(edit, shown, k)>>) \o <<Printed(edit[k])>>
    IN  <<[kind |-> "old", value |-> <<"a">> \o path], [kind |-> "new", value |-> <<"b">> \o path]>>
        \o FlattenSeq([k \in DOMAIN edit |-> LinesAt(k)])

(* A diff turns the file it was made of into the file it was made for and  *)
(* touches no other file.                                                  *)
AppliesExactly(edit, context, path, tarball) ==
    LET k == FindTarget(ReadEntries(tarball), path)
    IN  k # 0 /\ ReadEntries(tarball)[k].data = Before(edit) =>
            Apply(tarball, Diff(edit, context, path)) = <<[ReadEntries(tarball) EXCEPT ![k].data = After(edit)]>>

(* A diff with context that removes no line which reads like a header does *)
(* that; whatever package it applies to, the reverse diff gives that       *)
(* package back; and a removed line that does read like one has the diff   *)
(* refused, unless a line with `++ ` and a path is added right after it.   *)
PatchExact(edit, context, path, tarball) ==
    LET after == Apply(tarball, Diff(edit, context, path))
        misread == {k \in DOMAIN edit : LooksLikeHeader(edit[k])}
    IN  /\ misread = {} =>
             /\ AppliesExactly(edit, context, path, tarball)
             /\ after # <<>> /\ (\A k \in DOMAIN edit : ~LooksLikeHeader(Undo(edit)[k])) =>
                  Apply(after[1], Diff(Undo(edit), context, path)) = <<ReadEntries(tarball)>>
        /\ after # <<>> =>
             \A k \in misread : k + 1 \in DOMAIN edit /\ edit[k + 1].kind = "+" /\ edit[k + 1].value[1] = "++"

(* Claim: the same of every diff, whatever text it removes.                *)
AnyTextRemoved(edit, context, path, tarball) == AppliesExactly(edit, context, path, tarball)

(* Claim: the same of diffs made without context.                          *)
BarePatchExact(edit, path, tarball) == PatchExact(edit, 0, path, tarball)
=============================================================================
