----------------------------- MODULE FileEdits ------------------------------
(***************************************************************************)
(* How many lines a tool call adds to a file and takes from it:            *)
(* otlpdecode/patch.go reads the patch that Codex applied (parsePatch),    *)
(* and otlpdecode/lines.go compares the texts of an edit of Claude Code    *)
(* (toolInputLines).                                                       *)
(***************************************************************************)
EXTENDS Integers, Sequences, FiniteSetsExt, SequencesExt

CONSTANTS
    PatchInputs, \* inputs of the patch tool: sequences of lines [kind, path]
    Edits,       \* inputs of the editing tools: [old, new, all], <<>> being none
    LineBudget   \* lineBudget

ASSUME EditAssumption ==
    /\ PatchInputs \subseteq Seq([kind : STRING, path : STRING])
    /\ Edits \subseteq [old : Seq(Seq(STRING)), new : Seq(Seq(STRING)), all : BOOLEAN]
    /\ \A e \in Edits : Len(e.old) <= 1 /\ Len(e.new) = 1
    /\ LineBudget \in Nat

VARIABLES
    patchText,    \* the lines of the patch
    lineNo,       \* the next line to read
    opened,       \* the file whose body is read, or NoneOpen
    block,        \* the block of its body
    readFiles,    \* the files read
    patchVerdict, \* what parsePatch returns: "reading", "ok", "truncated", "invalid"
    counted       \* an edit, and what toolInputLines says of it

editVars == <<patchText, lineNo, opened, block, readFiles, patchVerdict, counted>>

None == <<>>

-----------------------------------------------------------------------------
(* parsePatch *)

IsHeader(line) == line.kind \in {"add", "update", "delete"}
IsContent(line) == line.kind \in {"+", "-", " "}

\* The lines before the end; whether it is there is looked at first.
End == Len(patchText) - 1
Here == patchText[lineNo]
NoLineLeft == lineNo > End

NoneOpen == [op |-> "none", path |-> "", from |-> "", added |-> 0, removed |-> 0]
NoBlock == [lines |-> 0, pending |-> FALSE, eof |-> FALSE]
NoEdit == [edit |-> None, added |-> None, removed |-> None]

EditInit ==
    /\ patchText \in PatchInputs
    /\ lineNo = 1
    /\ opened = NoneOpen
    /\ block = NoBlock
    /\ readFiles = <<>>
    /\ patchVerdict = "reading"
    /\ counted = NoEdit

Conclude(v) ==
    /\ patchVerdict' = v
    /\ readFiles' = IF v = "ok" THEN readFiles ELSE <<>>
    /\ UNCHANGED <<patchText, lineNo, opened, block, counted>>

\* The first line and the last; a patch without its end is told from a bad one.
Frame ==
    /\ patchVerdict = "reading" /\ lineNo = 1
    /\ CASE Len(patchText) < 2 \/ patchText[1].kind # "begin" -> Conclude("invalid")
         [] Len(patchText) >= 2 /\ patchText[1].kind = "begin" /\ Last(patchText).kind # "end" -> Conclude("truncated")
         [] Len(patchText) >= 2 /\ patchText[1].kind = "begin" /\ Last(patchText).kind = "end" ->
              lineNo' = 2 /\ UNCHANGED <<patchText, opened, block, readFiles, patchVerdict, counted>>

Parsing == patchVerdict = "reading" /\ lineNo > 1

\* An environment may be named before the first file.
NamedEnvironment ==
    /\ Parsing /\ lineNo = 2 /\ opened = NoneOpen /\ ~NoLineLeft
    /\ Here.kind = "environment"
    /\ \/ Here.path = "" /\ Conclude("invalid")
       \/ /\ Here.path # ""
          /\ lineNo' = lineNo + 1
          /\ UNCHANGED <<patchText, opened, block, readFiles, patchVerdict, counted>>

\* seen: the paths of the files so far, those moved away included.
SeenPaths == (UNION {{readFiles[n].path, readFiles[n].from} : n \in DOMAIN readFiles}) \ {""}

ValidPath(path, seen) == path # "" /\ path \notin seen

OpenFile(op, path, from) == [NoneOpen EXCEPT !.op = op, !.path = path, !.from = from]

\* A header, with the move that may follow that of an update.
Header ==
    LET moved == Here.kind = "update" /\ lineNo < End /\ patchText[lineNo + 1].kind = "move"
        to == patchText[lineNo + 1].path
    IN  /\ Parsing /\ ~NoLineLeft /\ opened = NoneOpen
        /\ Here.kind = "environment" => lineNo > 2
        /\ \/ ~IsHeader(Here) /\ Conclude("invalid")
           \/ IsHeader(Here) /\ ~ValidPath(Here.path, SeenPaths) /\ Conclude("invalid")
           \/ /\ IsHeader(Here) /\ ValidPath(Here.path, SeenPaths) /\ moved
              /\ ~ValidPath(to, SeenPaths \cup {Here.path})
              /\ Conclude("invalid")
           \/ /\ IsHeader(Here) /\ ValidPath(Here.path, SeenPaths)
              /\ moved => ValidPath(to, SeenPaths \cup {Here.path})
              /\ opened' = IF moved THEN OpenFile("rename", to, Here.path) ELSE OpenFile(Here.kind, Here.path, "")
              /\ lineNo' = IF moved THEN lineNo + 2 ELSE lineNo + 1
              /\ block' = NoBlock
              /\ UNCHANGED <<patchText, readFiles, patchVerdict, counted>>

EmptyBody == opened.added + opened.removed + block.lines = 0 /\ ~block.pending

\* A file that is created has added lines and nothing else.
CreatedLine ==
    /\ Parsing /\ ~NoLineLeft /\ opened.op = "add" /\ Here.kind = "+"
    /\ opened' = [opened EXCEPT !.added = @ + 1]
    /\ lineNo' = lineNo + 1
    /\ UNCHANGED <<patchText, block, readFiles, patchVerdict, counted>>

\* Mutant: an @@ may follow an @@.
StrayLineLoose ==
    \/ block.eof
    \/ Here.kind = "eof" /\ (block.lines = 0 \/ block.pending)
    \/ ~IsContent(Here) /\ Here.kind \notin {"@@", "eof"}

\* Nothing follows the end of the file; an @@ and that end need lines before
\* them, the first @@ excepted.
StrayLine ==
    \/ block.eof
    \/ Here.kind = "@@" /\ (block.pending \/ (~EmptyBody /\ block.lines = 0))
    \/ Here.kind = "eof" /\ (block.lines = 0 \/ block.pending)
    \/ ~IsContent(Here) /\ Here.kind \notin {"@@", "eof"}

ChangedLine ==
    /\ Parsing /\ ~NoLineLeft /\ opened.op \in {"update", "rename"} /\ ~IsHeader(Here)
    /\ \/ StrayLine /\ Conclude("invalid")
       \/ /\ ~StrayLine
          /\ opened' = [opened EXCEPT !.added = IF Here.kind = "+" THEN @ + 1 ELSE @,
                                  !.removed = IF Here.kind = "-" THEN @ + 1 ELSE @]
          /\ block' = CASE Here.kind = "@@" -> [block EXCEPT !.pending = TRUE, !.lines = 0]
                        [] Here.kind = "eof" -> [block EXCEPT !.eof = TRUE]
                        [] IsContent(Here) -> [block EXCEPT !.pending = FALSE, !.lines = @ + 1]
          /\ lineNo' = lineNo + 1
          /\ UNCHANGED <<patchText, readFiles, patchVerdict, counted>>

\* The body ends at the next header, or where a line does not belong to it; how
\* many lines a deleted file had is not known.
BodyEnds ==
    CASE opened.op = "add" -> NoLineLeft \/ Here.kind # "+"
      [] opened.op = "delete" -> TRUE
      [] opened.op \in {"update", "rename"} -> NoLineLeft \/ IsHeader(Here)
      [] opened.op = "none" -> FALSE

FileEnds ==
    /\ Parsing /\ BodyEnds
    /\ \/ (block.pending \/ (EmptyBody /\ opened.op \in {"add", "update"})) /\ Conclude("invalid")
       \/ /\ ~block.pending /\ ~(EmptyBody /\ opened.op \in {"add", "update"})
          /\ readFiles' = Append(readFiles, [opened EXCEPT !.removed = IF opened.op = "delete" THEN None ELSE <<@>>])
          /\ opened' = NoneOpen
          /\ UNCHANGED <<patchText, lineNo, block, patchVerdict, counted>>

PatchRead == Parsing /\ NoLineLeft /\ opened = NoneOpen /\ Conclude("ok")

-----------------------------------------------------------------------------
(* toolInputLines *)

\* commonLines: the lengths for one more line of the old text, from those for
\* the lines before it.
NextRow(row, line, new) ==
    LET next[j \in 0..Len(new)] ==
          IF j = 0 THEN 0
          ELSE IF line = new[j] THEN row[j - 1] + 1
          ELSE IF row[j] > next[j - 1] THEN row[j] ELSE next[j - 1]
    IN  next

CommonLines(old, new) ==
    LET row[i \in 0..Len(old)] ==
          IF i = 0 THEN [j \in 0..Len(new) |-> 0] ELSE NextRow(row[i - 1], old[i], new)
    IN  row[Len(old)][Len(new)]

\* Without an old text the whole file is written, and what was there before is
\* not known; nor is anything of an edit that replaces every occurrence.
LinesOf(edit) ==
    CASE edit.old = None -> [added |-> <<Len(edit.new[1])>>, removed |-> None]
      [] edit.old # None /\ (edit.all \/ Len(edit.old[1]) * Len(edit.new[1]) > LineBudget) ->
           [added |-> None, removed |-> None]
      [] edit.old # None /\ ~(edit.all \/ Len(edit.old[1]) * Len(edit.new[1]) > LineBudget) ->
           LET common == CommonLines(edit.old[1], edit.new[1])
           IN  [added |-> <<Len(edit.new[1]) - common>>, removed |-> <<Len(edit.old[1]) - common>>]

CountLines(edit) ==
    /\ counted = NoEdit /\ lineNo = 1 /\ patchVerdict = "reading"
    /\ counted' = [edit |-> edit, added |-> LinesOf(edit).added, removed |-> LinesOf(edit).removed]
    /\ UNCHANGED <<patchText, lineNo, opened, block, readFiles, patchVerdict>>

EditNext ==
    \/ Frame
    \/ NamedEnvironment
    \/ Header
    \/ CreatedLine
    \/ ChangedLine
    \/ FileEnds
    \/ PatchRead
    \/ patchText = <<>> /\ \E edit \in Edits : CountLines(edit)

EditSpec == EditInit /\ [][EditNext]_editVars

-----------------------------------------------------------------------------
(* Properties *)

\* The grammar of a patch, told of its text.  What is said of the lines before
\* line "to" is said of the whole patch where that is its last one.
FirstFile(text) == IF Len(text) > 2 /\ text[2].kind = "environment" THEN 3 ELSE 2
HeadersIn(text, to) == {n \in FirstFile(text)..(to - 1) : IsHeader(text[n])}
Rank(text, h) == Cardinality(HeadersIn(text, h + 1))

\* The body of a file is what no other header separates from its own.
Renamed(text, h) == text[h].kind = "update" /\ text[h + 1].kind = "move"
BodyStart(text, h) == IF Renamed(text, h) THEN h + 2 ELSE h + 1
BodyOf(text, h, to) ==
    {n \in BodyStart(text, h)..(to - 1) : \A m \in (h + 1)..n : ~IsHeader(text[m])}

\* Every @@ introduces lines, and the end of the file comes last, after lines.
WellFormed(text, h, to) ==
    LET body == BodyOf(text, h, to) IN
    CASE text[h].kind = "add" -> body # {} /\ \A n \in body : text[n].kind = "+"
      [] text[h].kind = "delete" -> body = {}
      [] text[h].kind = "update" ->
           /\ body # {} \/ Renamed(text, h)
           /\ \A n \in body :
                \/ IsContent(text[n])
                \/ text[n].kind = "@@" /\ n + 1 \in body /\ IsContent(text[n + 1])
                \/ text[n].kind = "eof" /\ n + 1 \notin body /\ n - 1 \in body /\ IsContent(text[n - 1])

\* No two paths are the same, those that a file is moved away from included.
PathLines(text, to) ==
    LET heads == HeadersIn(text, to)
    IN  {n \in 1..to : n \in heads \/ (n - 1 \in heads /\ Renamed(text, n - 1))}
PathsDiffer(text, to) ==
    \A m, n \in PathLines(text, to) : text[m].path # "" /\ (text[m].path = text[n].path => m = n)

IsPatchText(text) ==
    LET to == Len(text) IN
    /\ FirstFile(text) = 3 => text[2].path # ""
    /\ FirstFile(text) < to => IsHeader(text[FirstFile(text)])
    /\ \A h \in HeadersIn(text, to) : WellFormed(text, h, to)
    /\ PathsDiffer(text, to)

Number(text, h, to, kind) == Cardinality({n \in BodyOf(text, h, to) : text[n].kind = kind})
FileAt(text, h, to) ==
    [op |-> IF Renamed(text, h) THEN "rename" ELSE text[h].kind,
     path |-> text[BodyStart(text, h) - 1].path,
     from |-> IF Renamed(text, h) THEN text[h].path ELSE "",
     added |-> Number(text, h, to, "+"),
     removed |-> IF text[h].kind = "delete" THEN None ELSE <<Number(text, h, to, "-")>>]

\* A patch is read whole or not at all: exactly the texts of the grammar are, and
\* each file with the lines of its own stretch, though the reader never looks
\* back; a patch that only lacks its end is told from one that is no patch.
PatchesReadTruly ==
    LET heads == HeadersIn(patchText, Len(patchText)) IN
    /\ patchVerdict = "ok" =>
         /\ IsPatchText(patchText) /\ Len(readFiles) = Cardinality(heads)
         /\ \A h \in heads : readFiles[Rank(patchText, h)] = FileAt(patchText, h, Len(patchText))
    /\ patchVerdict = "invalid" => readFiles = <<>> /\ (lineNo > 1 => ~IsPatchText(patchText))
    /\ patchVerdict = "truncated" => readFiles = <<>> /\ patchText[1].kind = "begin"

\* What two texts can keep in common: lines of the one with equal lines of the
\* other, in the same order.
CommonParts(old, new) ==
    {M \in SUBSET ((DOMAIN old) \X (DOMAIN new)) :
        /\ \A p \in M : old[p[1]] = new[p[2]]
        /\ \A p, q \in M :
             p # q => (p[1] < q[1] /\ p[2] < q[2]) \/ (q[1] < p[1] /\ q[2] < p[2])}

\* What an edit adds and removes is what no order-preserving match can keep.
LinesCountedTruly ==
    LET edit == counted.edit IN
    edit # None /\ edit.old # None /\ counted.added # None =>
        LET best == Max({Cardinality(M) : M \in CommonParts(edit.old[1], edit.new[1])})
        IN  /\ counted.added = <<Len(edit.new[1]) - best>>
            /\ counted.removed = <<Len(edit.old[1]) - best>>

EditsReadTruly == PatchesReadTruly /\ LinesCountedTruly

-----------------------------------------------------------------------------
(* The inductive invariant *)

\* What a path is, and what stands where there is none.
Paths == STRING \cup {""}

EditTypeOK ==
    /\ patchText \in PatchInputs
    /\ lineNo \in Nat \ {0}
    /\ opened \in [op : {"none", "add", "update", "delete", "rename"}, path : Paths, from : Paths,
                   added : Nat, removed : Nat]
    /\ block \in [lines : Nat, pending : BOOLEAN, eof : BOOLEAN]
    /\ readFiles \in Seq([op : {"add", "update", "delete", "rename"}, path : Paths, from : Paths,
                          added : Nat, removed : Seq(Nat)])
    /\ patchVerdict \in {"reading", "ok", "truncated", "invalid"}

\* The file whose header is last.
IsLastHeader(text, h, to) == h \in HeadersIn(text, to) /\ \A m \in (h + 1)..(to - 1) : ~IsHeader(text[m])

\* Of an open file what comes before line "to" is read, and its block says what
\* may follow.
OpenIsRead(text, to, h, file, within) ==
    LET body == BodyOf(text, h, to)
        line == text[to - 1]
    IN
    /\ BodyStart(text, h) <= to
    /\ file.op = (IF Renamed(text, h) THEN "rename" ELSE text[h].kind)
    /\ file.path = text[BodyStart(text, h) - 1].path
    /\ file.from = (IF Renamed(text, h) THEN text[h].path ELSE "")
    /\ file.added = Number(text, h, to, "+")
    /\ file.removed = Number(text, h, to, "-")
    /\ file.op = "delete" => body = {}
    /\ file.op \in {"add", "delete"} => within = NoBlock /\ \A n \in body : text[n].kind = "+"
    /\ file.op \in {"update", "rename"} =>
         /\ within.pending <=> body # {} /\ line.kind = "@@"
         /\ within.eof <=> body # {} /\ line.kind = "eof"
         /\ within.lines = 0 <=> body = {} \/ line.kind = "@@"
         /\ \A n \in body :
              \/ IsContent(text[n])
              \/ text[n].kind = "@@" /\ (n + 1 \in body => IsContent(text[n + 1]))
              \/ text[n].kind = "eof" /\ n + 1 \notin body /\ n - 1 \in body /\ IsContent(text[n - 1])

\* A file that was closed is not continued by the next line.
NotContinued(text, to, h) ==
    to < Len(text) /\ ~IsHeader(text[to]) =>
        \/ text[h].kind = "delete"
        \/ text[h].kind = "add" /\ text[to].kind # "+"

\* Of the lines before "to", all files but an open one are read.
ReadSoFar(text, to, file, within, files) ==
    LET heads == HeadersIn(text, to)
        closed == {h \in heads : file = NoneOpen \/ ~IsLastHeader(text, h, to)}
    IN
    /\ Len(text) > 1 /\ text[Len(text)].kind = "end" /\ to \in 2..Len(text)
    /\ to > 2 /\ FirstFile(text) = 3 => text[2].path # ""
    /\ IF heads = {} THEN to <= FirstFile(text) /\ file = NoneOpen ELSE IsHeader(text[FirstFile(text)])
    /\ PathsDiffer(text, to)
    /\ Len(files) = Cardinality(heads) - (IF file = NoneOpen THEN 0 ELSE 1)
    /\ \A h \in closed : WellFormed(text, h, to) /\ files[Rank(text, h)] = FileAt(text, h, to)
    /\ \A n \in DOMAIN files : \E h \in closed : files[n] = FileAt(text, h, to)
    /\ \A h \in heads :
         IsLastHeader(text, h, to) =>
            IF file = NoneOpen THEN NotContinued(text, to, h) ELSE OpenIsRead(text, to, h, file, within)

\* What is read agrees with the text.
ReadingOK ==
    patchVerdict = "reading" =>
       IF lineNo = 1 THEN opened = NoneOpen /\ readFiles = <<>>
       ELSE ReadSoFar(patchText, lineNo, opened, block, readFiles)

CountedOK ==
    \/ counted = NoEdit
    \/ \E e \in Edits : counted = [edit |-> e, added |-> LinesOf(e).added, removed |-> LinesOf(e).removed]

EditInv == EditTypeOK /\ PatchesReadTruly /\ ReadingOK /\ CountedOK
=============================================================================
