------------------------------- MODULE FileRules -------------------------------
(* What the file tracker reads of a file, shows of a change, and captures.    *)
(* A file is [path, size, mtime, text, readable, link]; a path is a sequence  *)
(* of names; sizes are in units of which the limits below are small numbers.  *)
EXTENDS Integers, Sequences, FiniteSets, SequencesExt

DiffLimit == 2        \* _MAX_DIFF_FILE_BYTES
ScanLimit == 3        \* _MAX_SCAN_CONTENT_BYTES
CaptureFiles == 2     \* _MAX_CAPTURE_FILES
CaptureSize == 2      \* _MAX_CAPTURE_FILE_BYTES
CaptureTotal == 3     \* _MAX_CAPTURE_TOTAL_BYTES

\* A pattern names a directory anywhere on the path, or the last name.  A
\* directory's own pattern covers what is below it, not a file of that name.
Matches(path, isDir, patterns) ==
  \E p \in patterns :
    IF p.dir THEN \/ isDir /\ Last(path) = p.name
                  \/ \E i \in 1 .. Len(path) - 1 : path[i] = p.name
    ELSE Last(path) = p.name

\* The root's .gitignore: comments, blanks and negations are passed over.
Ignored(lines) == {[dir |-> l.dir, name |-> l.name] : l \in {k \in lines : k.kind = "rule"}}

\* _walk_directory: a directory that matches is not entered.
Visited(path, exclude) ==
  \A i \in 1 .. Len(path) : ~Matches(SubSeq(path, 1, i), i < Len(path), exclude)

\* _build_entry: what of a file the snapshot holds.
NoEntry == [size |-> 0, mtime |-> 0, hash |-> <<"none">>, lines |-> "none", redacted |-> FALSE, loaded |-> 0]
Unchanged(f, prev) == prev.mtime = f.mtime /\ prev.size = f.size
Content(f) == IF f.readable /\ f.text THEN f.version ELSE "none"
Hash(f) == IF f.readable THEN <<"sha", f.version>> ELSE <<"unreadable", f.size>>
\* Mutant: the content is read before the name is looked at.
BuildEntry_Late(f, prev, loaded, secret) ==
  [size |-> f.size, mtime |-> f.mtime, hash |-> Hash(f), lines |-> Content(f),
   redacted |-> Matches(f.path, FALSE, secret), loaded |-> loaded + f.size]

BuildEntry(f, prev, loaded, secret) ==
  LET stat(kind) == <<kind, f.size, f.mtime>>
      entry(hash, lines, redacted, bytes) ==
        [size |-> f.size, mtime |-> f.mtime, hash |-> hash, lines |-> lines,
         redacted |-> redacted, loaded |-> loaded + bytes]
  IN CASE Unchanged(f, prev) -> entry(prev.hash, prev.lines, prev.redacted, 0)
       [] ~Unchanged(f, prev) /\ Matches(f.path, FALSE, secret) -> entry(stat("redacted"), "none", TRUE, 0)
       [] ~Unchanged(f, prev) /\ ~Matches(f.path, FALSE, secret) /\ f.size > DiffLimit -> entry(stat("overlimit"), "none", FALSE, 0)
       [] OTHER -> IF loaded + f.size > ScanLimit THEN entry(stat("budget"), "none", FALSE, 0)
                   ELSE entry(Hash(f), Content(f), FALSE, f.size)

\* _patch_text: a diff of two contents, or a placeholder.
PatchText(old, new) ==
  CASE old.redacted \/ new.redacted -> "secret"
    [] ~(old.redacted \/ new.redacted) /\ (old.size > DiffLimit \/ new.size > DiffLimit) -> "large"
    [] OTHER -> IF "none" \in {old.lines, new.lines} THEN "binary" ELSE <<old.lines, new.lines>>

\* _capture_artifacts: the changed files in order, within the three limits.
CaptureOne(acc, e) ==
  IF e.redacted \/ ~e.kept THEN acc
  ELSE IF \/ Len(acc.files) >= CaptureFiles \/ e.size > CaptureSize
          \/ acc.bytes + e.size > CaptureTotal
       THEN [acc EXCEPT !.eligible = @ + 1, !.skipped = @ + 1, !.truncated = TRUE]
  ELSE IF ~e.same THEN [acc EXCEPT !.eligible = @ + 1, !.skipped = @ + 1]     \* _capture_file
  ELSE [acc EXCEPT !.eligible = @ + 1, !.files = Append(@, e), !.bytes = @ + e.size]
NoArtifacts == [files |-> <<>>, bytes |-> 0, eligible |-> 0, skipped |-> 0, truncated |-> FALSE]
Capture(entries) == FoldLeft(CaptureOne, NoArtifacts, entries)

---------------------------------------------------------------------------
\* Over two scans of a file that changes in between: a secret's content is in
\* no entry, and so in no diff; the bytes read stay under the limit; and a
\* change that the stat shows always shows in the hash, whatever tier it is in.
ScansApart(f, g, loaded, secret) ==
  LET one == BuildEntry(f, NoEntry, loaded, secret)
      two == BuildEntry(g, one, loaded, secret)
  IN /\ Matches(f.path, FALSE, secret) =>
          one.lines = "none" /\ two.lines = "none" /\ PatchText(one, two) = "secret"
     /\ loaded <= ScanLimit => one.loaded <= ScanLimit /\ two.loaded <= ScanLimit
     /\ f.mtime # g.mtime /\ f.version # g.version /\ f.readable /\ g.readable => one.hash # two.hash

\* What is captured fits, and what is eligible is captured or counted.
CaptureFits(entries) ==
  LET c == Capture(entries) IN
    /\ Len(c.files) <= CaptureFiles /\ c.bytes <= CaptureTotal
    /\ Len(c.files) + c.skipped = c.eligible
    /\ \A e \in ToSet(c.files) : ~e.redacted /\ e.same
    /\ c.truncated => c.skipped > 0

\* A file is seen unless it, or a directory above it, is excluded.
NothingHidden(path, exclude) ==
  Visited(path, exclude) <=> ~Matches(path, FALSE, exclude) /\
    \A i \in 1 .. Len(path) - 1 : ~Matches(SubSeq(path, 1, i), TRUE, exclude)
=============================================================================
