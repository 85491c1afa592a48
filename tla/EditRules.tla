------------------------------- MODULE EditRules -------------------------------
(***************************************************************************)
(* What an agent's file and shell tools do to a text: patches, edits, pages    *)
(* and bounded output.  A text is a sequence, of lines where a tool works on     *)
(* lines and of characters where it works on them; positions of lines count       *)
(* from 0, as in the source.                                                       *)
(***************************************************************************)
EXTENDS Integers, Sequences, FiniteSets, SequencesExt, FiniteSetsExt

Wrong == [ok |-> FALSE]
LOCAL Done(text) == [ok |-> TRUE, text |-> text]
Slice(s, from, to) == SubSeq(s, from + 1, IF to > Len(s) THEN Len(s) ELSE to)

---------------------------------------------------------------------------
(* Patches.  A line is [body, indent, trail]; a section [anchor, lines, eof]    *)
(* with its anchor "none", "mark" (a bare @@) or "at" a line; each of its lines *)
(* is [mode, line], the mode "keep", "delete" or "add".                          *)

Exact(a, b) == a = b
RStripped(a, b) == a.body = b.body /\ a.indent = b.indent
Stripped(a, b) == a.body = b.body

\* _find_context: the first place that fits exactly, or but for the white space
\* at the ends, or at either side; from the end first if the section says so.
\* A place is a set of at most one.
FirstFit(lines, context, start, Same(_, _)) ==
  LET fits == {i \in (IF start < 0 THEN 0 ELSE start)..Len(lines) - Len(context) :
                 \A k \in 1..Len(context) : Same(lines[i + k], context[k])}
  IN IF fits = {} THEN {} ELSE {Min(fits)}
Else(fit, next) == IF fit # {} THEN fit ELSE next
Fit(lines, context, start) ==
  Else(FirstFit(lines, context, start, Exact),
       Else(FirstFit(lines, context, start, RStripped), FirstFit(lines, context, start, Stripped)))
FindContext(lines, context, start, eof) ==
  IF context = <<>> THEN {start}
  ELSE Else(IF eof THEN Fit(lines, context, Len(lines) - Len(context)) ELSE {}, Fit(lines, context, start))

\* _peek_next_section: the lines it expects, and what to replace in them.
NoChunk == [del |-> <<>>, ins |-> <<>>, mode |-> "keep", old |-> <<>>, chunks |-> <<>>]
Flush(acc) ==
  IF acc.del = <<>> /\ acc.ins = <<>> THEN acc
  ELSE [acc EXCEPT !.chunks = Append(@, [at |-> Len(acc.old) - Len(acc.del), del |-> acc.del, ins |-> acc.ins]),
                   !.del = <<>>, !.ins = <<>>]
Peeked(acc, line) ==
  LET a == [(IF line.mode = "keep" /\ acc.mode # "keep" THEN Flush(acc) ELSE acc) EXCEPT !.mode = line.mode] IN
  CASE line.mode = "delete" -> [a EXCEPT !.del = Append(@, line.line), !.old = Append(@, line.line)]
    [] line.mode = "add" -> [a EXCEPT !.ins = Append(@, line.line)]
    [] line.mode = "keep" -> [a EXCEPT !.old = Append(@, line.line)]
PeekNextSection(lines) == Flush(FoldLeft(Peeked, NoChunk, lines))

\* The line an anchor names: below the place reached, unless it is above.
Anchored(lines, anchor, index) ==
  LET above(Same(_, _)) == \E i \in 1..index : Same(lines[i], anchor)
      below(Same(_, _)) == {i \in index + 1..Len(lines) : Same(lines[i], anchor)}
  IN IF ~above(Exact) /\ below(Exact) # {} THEN Min(below(Exact))
     ELSE IF ~above(Stripped) /\ below(Stripped) # {} THEN Min(below(Stripped)) ELSE index

\* Parser.parse_update_file: where each section belongs, one after the other.
ParseSection(lines, acc, section) ==
  LET from == IF section.anchor.is = "at" THEN Anchored(lines, section.anchor.line, acc.index) ELSE acc.index
      peek == PeekNextSection(section.lines)
      place == FindContext(lines, peek.old, from, section.eof)
  IN IF \/ ~acc.ok
        \/ section.anchor.is = "none" /\ acc.index # 0
        \/ section.lines = <<>> /\ ~section.eof
        \/ place = {}
     THEN [acc EXCEPT !.ok = FALSE]
     ELSE LET at == CHOOSE p \in place : TRUE IN
          [ok |-> TRUE, index |-> at + Len(peek.old), places |-> Append(acc.places, at),
           chunks |-> acc.chunks \o [i \in 1..Len(peek.chunks) |-> [peek.chunks[i] EXCEPT !.at = @ + at]]]
ParseUpdateFile(lines, sections) ==
  FoldLeft(LAMBDA acc, s : ParseSection(lines, acc, s), [ok |-> TRUE, index |-> 0, places |-> <<>>, chunks |-> <<>>], sections)

\* _apply_patch, of one file: each chunk in its place, none before the last.
ApplyChunk(lines, acc, chunk) ==
  IF ~acc.ok \/ chunk.at > Len(lines) \/ acc.index > chunk.at THEN [acc EXCEPT !.ok = FALSE]
  ELSE [ok |-> TRUE, index |-> chunk.at + Len(chunk.del),
        text |-> acc.text \o Slice(lines, acc.index, chunk.at) \o chunk.ins]
ApplyUpdate(lines, chunks) ==
  LET acc == FoldLeft(LAMBDA a, c : ApplyChunk(lines, a, c), [ok |-> TRUE, index |-> 0, text |-> <<>>], chunks) IN
  IF acc.ok THEN Done(acc.text \o Slice(lines, acc.index, Len(lines))) ELSE Wrong
Updated(lines, sections) ==
  LET parsed == ParseUpdateFile(lines, sections) IN IF parsed.ok THEN ApplyUpdate(lines, parsed.chunks) ELSE Wrong

\* Parser.parse and _apply_patch, of several files: all of the patch is read
\* before the first is written.  action: [kind, path, to, sections, lines].
Parses(actions, files) ==
  \A i \in 1..Len(actions) :
    /\ \A j \in 1..i - 1 : actions[j].path # actions[i].path
    /\ actions[i].kind # "add" => actions[i].path \in DOMAIN files
    /\ actions[i].kind = "update" => ParseUpdateFile(files[actions[i].path], actions[i].sections).ok
Without(files, path) == [p \in DOMAIN files \ {path} |-> files[p]]
Written(files, path, text) == [p \in DOMAIN files \cup {path} |-> IF p = path THEN text ELSE files[p]]
Update(acc, action, new) ==
  IF ~new.ok THEN [acc EXCEPT !.ok = FALSE]
  ELSE IF action.to = {} THEN [acc EXCEPT !.files = Written(@, action.path, new.text)]
  ELSE [acc EXCEPT !.files = Without(Written(@, CHOOSE p \in action.to : TRUE, new.text), action.path)]
ApplyAction(orig, acc, action) ==
  IF ~acc.ok THEN acc
  ELSE CASE action.kind = "delete" -> [acc EXCEPT !.files = Without(@, action.path)]
         [] action.kind = "add" -> [acc EXCEPT !.files = Written(@, action.path, action.lines)]
         [] action.kind = "update" -> Update(acc, action, Updated(orig[action.path], action.sections))
ApplyPatch(actions, files) ==
  IF ~Parses(actions, files) THEN [ok |-> FALSE, files |-> files]
  ELSE FoldLeft(LAMBDA acc, a : ApplyAction(files, acc, a), [ok |-> TRUE, files |-> files], actions)

---------------------------------------------------------------------------
(* Edits.  A file is [there, text], its text a sequence of characters.            *)

\* str.count and str.replace: the places from the left, none overlapping.
Occurs(text, old, i) == i + Len(old) - 1 <= Len(text) /\ SubSeq(text, i, i + Len(old) - 1) = old
Places(text, old) ==
  FoldLeft(LAMBDA acc, i : IF i >= acc.next /\ Occurs(text, old, i)
                           THEN [next |-> i + Len(old), at |-> acc.at \cup {i}] ELSE acc,
           [next |-> 1, at |-> {}], [i \in 1..Len(text) |-> i]).at
Count(text, old) == IF old = <<>> THEN Len(text) + 1 ELSE Cardinality(Places(text, old))
Replaced(text, places, old, new) ==
  IF old = <<>> THEN new \o text
  ELSE FlattenSeq([i \in 1..Len(text) |->
         IF i \in places THEN new ELSE IF \E p \in places : p < i /\ i < p + Len(old) THEN <<>> ELSE <<text[i]>>])
First(text, old) == IF Places(text, old) = {} THEN {} ELSE {Min(Places(text, old))}

\* EditTool.execute.
Edit(file, old, new, all) ==
  CASE old = new -> Wrong
    [] old # new /\ old = <<>> -> IF file.there THEN Wrong ELSE Done(new)
    [] OTHER ->
         IF ~file.there \/ Count(file.text, old) = 0 \/ (Count(file.text, old) > 1 /\ ~all) THEN Wrong
         ELSE Done(Replaced(file.text, IF all THEN Places(file.text, old) ELSE First(file.text, old), old, new))
\* ClaudeTextEditorTool._str_replace.
StrReplace(file, old, new) ==
  IF ~file.there \/ Count(file.text, old) # 1 THEN Wrong ELSE Done(Replaced(file.text, First(file.text, old), old, new))
\* GeminiEditTool.execute: an empty text stands for the whole file.
GeminiEdit(file, old, new) ==
  IF old = <<>> THEN Done(new)
  ELSE IF ~file.there \/ Count(file.text, old) = 0 THEN Wrong
  ELSE Done(Replaced(file.text, First(file.text, old), old, new))

\* ClaudeTextEditorTool._insert, on lines [body, ended]: a line that ends the
\* file without a line break is glued to what is inserted after it.
Insert(lines, at, text) ==
  IF at < 0 \/ at > Len(lines) THEN Wrong
  ELSE Done(Slice(lines, 0, at) \o <<[body |-> text, ended |-> text # ""]>> \o Slice(lines, at, Len(lines)))

---------------------------------------------------------------------------
(* Pages.                                                                        *)

\* ReadTool.execute, of a file and of a directory: entries offset..last of n.
ReadOffset(offset) == IF offset = 0 THEN 1 ELSE offset
Page(n, offset, limit) ==
  LET last == IF offset + limit - 1 < n THEN offset + limit - 1 ELSE IF offset > n THEN offset - 1 ELSE n IN
  [shown |-> offset..last, more |-> last < n, next |-> last + 1]
ReadFile(n, offset, limit) ==
  IF offset - 1 > n /\ ~(n = 0 /\ offset = 1) THEN Wrong ELSE [ok |-> TRUE, page |-> Page(n, offset, limit)]
ReadDirectory(n, offset, limit) == [ok |-> TRUE, page |-> Page(n, offset, limit)]
\* GeminiReadTool.execute: from start to end, to the end when that is before it.
GeminiRead(n, start, end) ==
  IF start <= 0 THEN 1..n ELSE {i \in 1..n : i >= start /\ (end >= start => i <= end)}

---------------------------------------------------------------------------
(* Output.                                                                       *)

\* bound_shell_output: the beginning and the end of what was printed, with a
\* marker where something is left out.
Ending(s, n) == SubSeq(s, Len(s) - (IF n > Len(s) THEN Len(s) ELSE n) + 1, Len(s))
Bound(stdout, stderr, limit, whole) ==
  LET marker == Slice(whole, 0, limit)
      available == limit - Len(marker)
      prefix == (available + 1) \div 2
      suffix == available \div 2
      outHead == Slice(stdout, 0, prefix)
      errHead == Slice(stderr, 0, IF prefix > Len(stdout) THEN prefix - Len(stdout) ELSE 0)
      errTail == Ending(stderr, suffix)
      outTail == Ending(stdout, IF suffix > Len(stderr) THEN suffix - Len(stderr) ELSE 0)
  IN CASE Len(stdout) + Len(stderr) <= limit -> <<stdout, stderr>>
       [] Len(stdout) + Len(stderr) > limit /\ Len(outHead) + Len(outTail) < Len(stdout) ->
            <<outHead \o marker \o outTail, errHead \o errTail>>
       [] OTHER -> <<outHead \o outTail, errHead \o marker \o errTail>>

\* OpenAIShellTool.execute: each command of a list, in order, whatever became
\* of those before it; the request's own limit may only lower the bound.
ShellLimit(requested, bound) ==
  CASE requested.is = "none" -> {bound}
    [] requested.is = "number" /\ requested.of > 0 -> {IF requested.of < bound THEN requested.of ELSE bound}
    [] OTHER -> {}
Shell(commands, requested, bound) ==
  IF ShellLimit(requested, bound) = {} \/ ~commands.strings THEN [error |-> TRUE, ran |-> 0]
  ELSE [error |-> \E i \in 1..Len(commands.exits) : commands.exits[i] # 0, ran |-> Len(commands.exits)]
\* BashTool.execute: milliseconds become whole seconds, never none.
Seconds(milliseconds) == LET s == (milliseconds + 999) \div 1000 IN IF s < 1 THEN 1 ELSE s

---------------------------------------------------------------------------
(* Properties.                                                                   *)

\* A patch does what it says: where a section was found the file has its lines,
\* but for white space; they keep the file's own spelling, and only what is
\* marked is taken out or put in.  A section without more than its context,
\* found once, is never refused.
Rewritten(lines, section, at) ==
  FoldLeft(LAMBDA acc, l : CASE l.mode = "keep" -> [next |-> acc.next + 1, text |-> Append(acc.text, lines[acc.next + 1])]
                             [] l.mode = "delete" -> [acc EXCEPT !.next = @ + 1]
                             [] l.mode = "add" -> [acc EXCEPT !.text = Append(@, l.line)],
           [next |-> at, text |-> <<>>], section.lines)
Expected(lines, sections, places) ==
  LET acc == FoldLeft(LAMBDA a, k : LET r == Rewritten(lines, sections[k], places[k]) IN
                                    [next |-> r.next, text |-> a.text \o Slice(lines, a.next, places[k]) \o r.text],
                      [next |-> 0, text |-> <<>>], [k \in 1..Len(places) |-> k])
  IN acc.text \o Slice(lines, acc.next, Len(lines))
PatchFaithful(lines, sections) ==
  LET parsed == ParseUpdateFile(lines, sections)
      old(k) == PeekNextSection(sections[k].lines).old
  IN /\ Updated(lines, sections).ok =>
          /\ \A k \in 1..Len(sections) : \A i \in 1..Len(old(k)) : Stripped(lines[parsed.places[k] + i], old(k)[i])
          /\ (\A k \in 1..Len(sections) - 1 : parsed.places[k] + Len(old(k)) <= parsed.places[k + 1]) =>
               Updated(lines, sections).text = Expected(lines, sections, parsed.places)
     /\ (Len(sections) = 1 /\ sections[1].anchor.is # "at" /\ old(1) # <<>>) =>
          (Updated(lines, sections).ok <=> FirstFit(lines, old(1), 0, Stripped) # {})

\* A patch that does not parse writes nothing; one that does touches only the
\* files it names, and a file that is moved is still there, once.
PatchWhole(actions, files) ==
  \A p \in {ApplyPatch(actions, files)} :
  LET named == UNION {{actions[i].path} \cup actions[i].to : i \in 1..Len(actions)}
  IN /\ ~Parses(actions, files) => p.files = files
     /\ \A f \in DOMAIN files \ named : f \in DOMAIN p.files /\ p.files[f] = files[f]
     /\ p.ok => \A i \in 1..Len(actions) : (actions[i].kind = "update" /\ actions[i].to # {} /\ actions[i].to # {actions[i].path}) =>
                  (\E t \in actions[i].to : t \in DOMAIN p.files \/ \E j \in 1..Len(actions) : actions[j].path = t)

\* An edit changes one place, the one meant, or every place if asked, and
\* refuses rather than guess.  (Gemini's takes the first of several.)
OnePlace(text, old, new, result) ==
  \E i \in 1..Len(text) : Occurs(text, old, i) /\ result = SubSeq(text, 1, i - 1) \o new \o SubSeq(text, i + Len(old), Len(text))
EditsExact(file, old, new, all) ==
  /\ LET e == Edit(file, old, new, all) IN (e.ok /\ file.there) =>
       IF all THEN Len(old) = 1 => e.text = FlattenSeq([i \in 1..Len(file.text) |-> IF file.text[i] = old[1] THEN new ELSE <<file.text[i]>>])
       ELSE Count(file.text, old) = 1 /\ OnePlace(file.text, old, new, e.text)
  /\ LET e == StrReplace(file, old, new) IN (e.ok /\ old # <<>>) => OnePlace(file.text, old, new, e.text)
  /\ LET e == GeminiEdit(file, old, new) IN (e.ok /\ old # <<>>) => OnePlace(file.text, old, new, e.text)

\* An insertion leaves every line a line of its own, where it was, unless it
\* comes after a last line that has no end.
InsertKeeps(lines, at, text) ==
  LET r == Insert(lines, at, text) IN
  (r.ok /\ text # "" /\ (at > 0 => lines[at].ended)) =>
    /\ \A i \in 1..Len(r.text) - 1 : r.text[i].ended
    /\ SelectSeq(r.text, LAMBDA l : l.body # text) = SelectSeq(lines, LAMBDA l : l.body # text)

\* Whoever follows the offsets a page names sees every entry once, to the last.
PagesCover(n, limit) ==
  LET page(k) == Page(n, 1 + k * limit, limit)
      pages == {k \in 0..n : k = 0 \/ page(k - 1).more}
  IN /\ UNION {page(k).shown : k \in pages} = 1..n
     /\ \A j, k \in pages : j # k => page(j).shown \cap page(k).shown = {}
     /\ \A k \in pages : ReadFile(n, 1 + k * limit, limit).ok /\ (page(k).more => page(k).next = 1 + (k + 1) * limit)

\* What is kept fits, and is the beginning and the end of what was printed.
BoundKeepsEnds(stdout, stderr, limit, marker) ==
  LET kept == Bound(stdout, stderr, limit, marker)
      whole == stdout \o stderr
      rest == SelectSeq(kept[1] \o kept[2], LAMBDA c : c \notin Range(marker))
  IN /\ Len(kept[1]) + Len(kept[2]) <= (IF Len(whole) <= limit THEN Len(whole) ELSE limit)
     /\ Len(whole) > limit => /\ \E k \in 0..Len(rest) : rest = SubSeq(whole, 1, k) \o SubSeq(whole, Len(whole) - (Len(rest) - k) + 1, Len(whole))
                              /\ Len(SelectSeq(kept[1] \o kept[2], LAMBDA c : c \in Range(marker))) = (IF limit < Len(marker) THEN limit ELSE Len(marker))
     /\ Len(whole) <= limit => kept = <<stdout, stderr>>
=============================================================================
