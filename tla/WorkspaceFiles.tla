--------------------------- MODULE WorkspaceFiles ---------------------------
(***************************************************************************)
(* The file tools of several agents over one workspace (forge-tools'         *)
(* read.rs, edit.rs, diff.rs and the bounds of lib.rs).  A file is a         *)
(* sequence of characters; an edit reads it, looks for its text, opens the   *)
(* file, which truncates it, and writes all of it.  Diffs and pages are of   *)
(* its lines.  An output is known by where its characters end.              *)
(***************************************************************************)
EXTENDS Naturals, Sequences, FiniteSets, SequencesExt

CONSTANTS Editor, Char, Newline, Return,
          MaxChars, MaxEdit,      \* of a file; of what an edit replaces and by what
          ContextLines,           \* around a change in a diff
          PageSize,               \* limit of a paged read
          InlineLimit, MaxWidth   \* bytes given inline; of a character

ASSUME WorkspaceAssumption ==
  /\ Newline \in Char /\ Return \in Char /\ MaxChars \in Nat /\ MaxEdit \in Nat
  /\ ContextLines \in Nat /\ PageSize \in Nat \ {0} /\ InlineLimit \in Nat /\ MaxWidth \in Nat \ {0}

VARIABLES step, old, new, all, \* an edit: its step, what it replaces, by what, replace_all
          before, after,       \* what it has read and what it writes
          ended, diff,
          text, history,       \* the file; what it was at first and after each write
          wrote, raced,        \* an edit's write in it; another was in the file between its read and its write
          page, offset,        \* a reader that pages through the file: its lines, its next one
          ends, given          \* an output: where its characters end, and what was given inline
fileVars == <<step, old, new, all, before, after, ended, diff, text, history, wrote, raced,
              page, offset, ends, given>>

Line == Seq(Char)
Hunk == [skip : Nat, lead : Seq(Line), removed : Seq(Line), added : Seq(Line),
         trail : Seq(Line), rest : Nat]
Ended == {"none", "edited", "same", "absent", "ambiguous", "failed"}

FilesTypeOK ==
  /\ step \in [Editor -> {"read", "open", "write", "done"}]
  /\ old \in [Editor -> Seq(Char)] /\ new \in [Editor -> Seq(Char)] /\ all \in [Editor -> BOOLEAN]
  /\ before \in [Editor -> Seq(Char)] /\ after \in [Editor -> Seq(Char)]
  /\ ended \in [Editor -> Ended] /\ diff \in [Editor -> Seq(Hunk)]
  /\ text \in Seq(Char) /\ history \in Seq(Seq(Char)) /\ history # <<>>
  /\ wrote \in [Editor -> Nat] /\ raced \in [Editor -> BOOLEAN]
  /\ page \in Seq(Line) /\ offset \in Nat \ {0}
  /\ ends \in Seq(Nat) /\ given \in Nat

\* Characters have 1 to MaxWidth bytes.
IsText(s) == \A i \in DOMAIN s : \E w \in 1..MaxWidth : s[i] = w + (IF i = 1 THEN 0 ELSE s[i - 1])

FilesInit ==
  /\ step = [e \in Editor |-> "read"] /\ all \in [Editor -> BOOLEAN] /\ ended = [e \in Editor |-> "none"]
  /\ old \in [Editor -> BoundedSeq(Char, MaxEdit)] /\ new \in [Editor -> BoundedSeq(Char, MaxEdit)]
  /\ before = [e \in Editor |-> <<>>] /\ after = [e \in Editor |-> <<>>]
  /\ diff = [e \in Editor |-> <<>>] /\ text \in BoundedSeq(Char, MaxChars) /\ history = <<text>>
  /\ wrote = [e \in Editor |-> 0] /\ raced = [e \in Editor |-> FALSE]
  /\ page = <<>> /\ offset = 1 /\ given = 0
  /\ ends \in {s \in BoundedSeq(1..(MaxWidth * (InlineLimit + 1)), InlineLimit + 1) : IsText(s)}

-----------------------------------------------------------------------------
\* The line of the ith character; how many characters the first k lines have.
LineOf(s, i) == 1 + Cardinality({j \in 1..(i - 1) : s[j] = Newline})
UpTo(s, k)   == Cardinality({i \in DOMAIN s : LineOf(s, i) <= k})

\* A line without what ends it: \n or \r\n.
Stripped(l) ==
  LET n == Len(l) IN
  IF n = 0 \/ l[n] # Newline THEN l
  ELSE SubSeq(l, 1, IF n > 1 /\ l[n - 1] = Return THEN n - 2 ELSE n - 1)

\* str::lines: the last line need not be ended.
Lines(s) ==
  [k \in 1..(IF s = <<>> THEN 0 ELSE LineOf(s, Len(s))) |->
     Stripped(SubSeq(s, UpTo(s, k - 1) + 1, UpTo(s, k)))]

Least(a, b) == IF a < b THEN a ELSE b
Minus(a, b) == IF a > b THEN a - b ELSE 0

\* The loop that counts equal lines from the front has stopped after k of at most n.
StopsAt(a, b, n, k) ==
  (\A i \in 1..k : a[i] = b[i]) /\ (k < n => a[k + 1] # b[k + 1])

\* ... and from the back.
StopsBack(a, b, n, k) ==
  /\ \A i \in 0..(k - 1) : a[Len(a) - i] = b[Len(b) - i]
  /\ k < n => a[Len(a) - k] # b[Len(b) - k]

Common(a, b) == Least(Len(a), Len(b))

Prefix(a, b) == CHOOSE k \in 0..Common(a, b) : StopsAt(a, b, Common(a, b), k)

\* Faulty: the common end may reach into the common beginning.
Suffix_Overlaps(a, b) == CHOOSE k \in 0..Common(a, b) : StopsBack(a, b, Common(a, b), k)

\* What agrees at the end, of what the prefix has left.
Suffix(a, b) ==
  CHOOSE k \in 0..(Common(a, b) - Prefix(a, b)) : StopsBack(a, b, Common(a, b) - Prefix(a, b), k)

\* line_diff: one changed region with its context, and how many lines are left out.
LineDiff(a, b) ==
  LET p == Prefix(a, b)   end == Len(a) - Suffix(a, b)
      removed == SubSeq(a, p + 1, end)
      added   == SubSeq(b, p + 1, Len(b) - Suffix(a, b))
      from == Minus(p, ContextLines)   to == Least(end + ContextLines, Len(a))
  IN IF removed = <<>> /\ added = <<>> THEN <<>>
     ELSE <<[skip |-> from, lead |-> SubSeq(a, from + 1, p), removed |-> removed, added |-> added,
             trail |-> SubSeq(a, end + 1, to), rest |-> Len(a) - to]>>

\* Where p is in s, between any two characters if it is empty, and where str::matches finds
\* it: not where it overlaps what was found before.
Starts(s, p) == {i \in 1..(Len(s) + 1 - Len(p)) : SubSeq(s, i, i + Len(p) - 1) = p}
Matched(s, p) ==
  LET found[i \in Starts(s, p)] == \A j \in Starts(s, p) : j < i /\ found[j] => j + Len(p) <= i
  IN {i \in Starts(s, p) : found[i]}

\* str::replace, and replacen(.., 1) where there is one match.
Replaced(s, p, by) ==
  LET m == Matched(s, p)
      replaced(i) == \E j \in m : j <= i /\ i < j + Len(p)
  IN FlattenSeq([i \in 1..(Len(s) + 1) |->
       (IF i \in m THEN by ELSE <<>>) \o (IF i > Len(s) \/ replaced(i) THEN <<>> ELSE <<s[i]>>)])

-----------------------------------------------------------------------------
reader == <<page, offset, ends, given>>
edit   == <<old, new, all>>
EndEdit(e, o) == step' = [step EXCEPT ![e] = "done"] /\ ended' = [ended EXCEPT ![e] = o]
Open == {e \in Editor : step[e] = "write"}

\* No match, or several and no replace_all.
Refuses(e, n) == n = 0 \/ (n > 1 /\ ~all[e])

\* The checks of run: the arguments, then what is read, which may fail.
ReadForEdit(e) ==
  LET n == Cardinality(Matched(text, old[e])) IN
  /\ step[e] = "read"
  /\ \/ new[e] = old[e] /\ EndEdit(e, "same") /\ UNCHANGED <<before, after, raced>>
     \/ new[e] # old[e] /\ EndEdit(e, "failed") /\ UNCHANGED <<before, after, raced>>
     \/ /\ new[e] # old[e] /\ before' = [before EXCEPT ![e] = text]
        /\ raced' = [raced EXCEPT ![e] = Open # {}]
        /\ \/ Refuses(e, n) /\ EndEdit(e, IF n = 0 THEN "absent" ELSE "ambiguous") /\ UNCHANGED after
           \/ /\ ~Refuses(e, n) /\ step' = [step EXCEPT ![e] = "open"] /\ UNCHANGED ended
              /\ after' = [after EXCEPT ![e] = Replaced(text, old[e], new[e])]
  /\ UNCHANGED <<edit, diff, text, history, wrote, reader>>

\* fs::write opens with truncation, whoever else is between a read and a write ...
OpenFile(e) ==
  /\ step[e] = "open"
  /\ \/ /\ text' = <<>> /\ step' = [step EXCEPT ![e] = "write"] /\ UNCHANGED ended
        /\ raced' = [d \in Editor |-> raced[d] \/ (d # e /\ step[d] \in {"open", "write"})]
     \/ EndEdit(e, "failed") /\ UNCHANGED <<text, raced>>
  /\ UNCHANGED <<edit, before, after, diff, history, wrote, reader>>

\* ... and then writes, over what others may have written, as much of it as there is room for.
WriteFile(e) ==
  \E k \in 0..Len(after[e]) :
    /\ step[e] = "write" /\ text' = SubSeq(after[e], 1, k) \o SubSeq(text, k + 1, Len(text))
    /\ history' = Append(history, text') /\ wrote' = [wrote EXCEPT ![e] = Len(history) + 1]
    /\ \/ /\ k = Len(after[e]) /\ EndEdit(e, "edited")
          /\ diff' = [diff EXCEPT ![e] = LineDiff(Lines(before[e]), Lines(after[e]))]
       \/ k # Len(after[e]) /\ EndEdit(e, "failed") /\ UNCHANGED diff
    /\ UNCHANGED <<edit, before, after, raced, reader>>

\* skip(offset - 1).take(limit)
Page(s, o, n) == SubSeq(s, o, Least(o + n - 1, Len(s)))

\* A page is cut at the limit of what is given inline, behind k whole lines of it, and the
\* caller reads on behind those.
ReadPage ==
  /\ offset <= Len(Lines(text))
  /\ LET p == Page(Lines(text), offset, PageSize) IN
     \E k \in 0..Len(p) : page' = page \o SubSeq(p, 1, k) /\ offset' = offset + k
  /\ UNCHANGED <<step, edit, before, after, ended, diff, text, history, wrote, raced, ends, given>>

IsBoundary(s, k) == k = 0 \/ \E i \in DOMAIN s : s[i] = k

\* The cut goes back from the limit while it would split a character.
Cut(s) ==
  LET back[k \in 0..InlineLimit] == IF IsBoundary(s, k) THEN k ELSE back[k - 1]
  IN back[InlineLimit]

\* bound_output, bound_output_managed
BoundOutput ==
  /\ ends # <<>> /\ given = 0
  /\ given' = IF ends[Len(ends)] <= InlineLimit THEN ends[Len(ends)] ELSE Cut(ends)
  /\ UNCHANGED <<step, edit, before, after, ended, diff, text, history, wrote, raced, page, offset, ends>>

FilesNext ==
  \/ \E e \in Editor : ReadForEdit(e) \/ OpenFile(e) \/ WriteFile(e)
  \/ ReadPage \/ BoundOutput

FilesSpec == FilesInit /\ [][FilesNext]_fileVars

-----------------------------------------------------------------------------
\* What a hunk makes of the lines s: those it leaves out stay, and so do its context's.
Patched(s, h) ==
  SubSeq(s, 1, h.skip) \o h.lead \o h.added \o h.trail \o SubSeq(s, Len(s) - h.rest + 1, Len(s))

\* The diff an edit returns is one of exactly its own change, however often lines repeat and
\* whoever writes the file meanwhile: what it removes, with its context and the lines it
\* leaves out, is the lines it has read, and with what it adds in its place, those it has
\* written; on either side it shows at most ContextLines lines.  It is empty if the edit has
\* changed only how lines end.
DiffIsOf(a, b, d) ==
  IF a = b THEN d = <<>>
  ELSE /\ Len(d) = 1
       /\ LET h == d[1] IN
            /\ a = Patched(a, [h EXCEPT !.added = h.removed]) /\ b = Patched(a, h)
            /\ Len(h.lead) <= ContextLines /\ Len(h.trail) <= ContextLines
DiffIsOfEdit ==
  \A e \in Editor : ended[e] = "edited" => DiffIsOf(Lines(before[e]), Lines(after[e]), diff[e])

\* An edit without replace_all puts its text in the one place where it has found what it
\* replaces, and the rest of what it has read stays as it was, the ends of lines too.
SingleEditChangesOne ==
  \A e \in Editor : ended[e] = "edited" /\ ~all[e] =>
    \E i \in Starts(before[e], old[e]) :
      after[e] = SubSeq(before[e], 1, i - 1) \o new[e] \o SubSeq(before[e], i + Len(old[e]), Len(before[e]))

\* No edit is lost, and none loses another or has looked at half a file, unless a second one
\* was in the file between its read and its write: it has read what some write has left, it
\* was written over that and not over anything else, and its text is what it has left.  What
\* nobody has open is as the last write has left it.
EditsAreKept ==
  /\ \A e \in Editor : ~raced[e] /\ ended[e] \in {"edited", "absent", "ambiguous"} =>
       \E i \in DOMAIN history :
         /\ before[e] = history[i]
         /\ ended[e] = "edited" => wrote[e] = i + 1 /\ i + 1 \in DOMAIN history /\ after[e] = history[i + 1]
  /\ Open = {} => text = history[Len(history)]

\* Pages that are read while nobody writes are the lines of the file as far as it was read,
\* with no line twice and none left out, wherever they were cut.
Unwritten == Len(history) = 1 /\ Open = {}
PagesAreTheFile == Unwritten => page = SubSeq(Lines(text), 1, offset - 1)

\* What is given inline ends with a whole character, within the limit, and no
\* further character would fit.
InlineIsMaximal ==
  given # 0 =>
    /\ given <= InlineLimit /\ \E i \in DOMAIN ends : ends[i] = given
    /\ \A i \in DOMAIN ends : ends[i] <= InlineLimit => ends[i] <= given

\* EditTool, line_diff, ReadTool and bound_output: the diff is of the edit that was made, an
\* edit is lost only to one that races it, pages put together are the file, and a cut keeps
\* as much as fits.
EditsAndPagesAreTrue ==
  FilesTypeOK /\ DiffIsOfEdit /\ SingleEditChangesOne /\ EditsAreKept /\ PagesAreTheFile /\ InlineIsMaximal

\* The inductive strengthening: an edit that is on its way, or was made, has found its text in
\* what it has read, at one place or by replace_all, and writes what replaces it there; and
\* while nobody races it, the file is what it has read until it opens it, and empty from then on.
IsEdit(e) ==
  LET n == Cardinality(Matched(before[e], old[e])) IN
  n # 0 /\ (~all[e] => n <= 1) /\ after[e] = Replaced(before[e], old[e], new[e])

IsAlone(e) ==
  /\ step[e] \in {"open", "write"} => before[e] = history[Len(history)] /\ Open \subseteq {e}
  /\ step[e] = "write" => text = <<>>

FilesInv ==
  /\ FilesTypeOK /\ EditsAreKept /\ PagesAreTheFile /\ InlineIsMaximal /\ IsText(ends)
  /\ Unwritten => offset - 1 <= Len(Lines(text))
  /\ \A e \in Editor :
       /\ step[e] \in {"open", "write"} \/ ended[e] = "edited" => IsEdit(e)
       /\ ~raced[e] => IsAlone(e)
       /\ ended[e] # "none" => step[e] = "done"
       /\ ended[e] = "edited" => diff[e] = LineDiff(Lines(before[e]), Lines(after[e]))
=============================================================================
