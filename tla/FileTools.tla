------------------------------- MODULE FileTools -------------------------------
(***************************************************************************)
(* The read, edit and write tools on one file (tools/read.ts,              *)
(* tools/edit.ts, tools/write.ts) over the backend's file operations       *)
(* (tools/io.ts, vm/fs-ssh.ts).  A reader pages through the file by the    *)
(* offsets the answers name.  An edit reads the file, computes and writes  *)
(* it back, while a write of another request may come in between: writing  *)
(* truncates the file first, on the host (open with flag w) and in the     *)
(* guest (base64 -d > file).                                               *)
(***************************************************************************)
EXTENDS Truncation

CONSTANTS ReadBytes, ReadLines,  \* the limits of one page
          PageFile,              \* bound: bytes of the file that is paged through
          EditFile               \* bound: characters of the file that is edited

ASSUME FileAssumption ==
  ReadBytes \in Nat /\ ReadLines \in Nat \ {0} /\ PageFile \in Nat /\ EditFile \in Nat

VARIABLES
  job,      \* what is going on: idle, paging, editing
  file,     \* the content of the file
  reader,   \* its next offset, the user's limit, the pages it has got, joined
  editor,   \* the edit request: pc, arguments, what it read, what it wrote
  writer,   \* the write request beside it: pc
  torn      \* the file is truncated and not filled yet

fileVars == <<job, file, reader, editor, writer, torn>>

\* The limit argument is absent, or a number: a sequence of at most one.  0 is a limit.
NoLimit == <<>>
AsksForLines(limit) == limit = NoLimit \/ limit[1] >= 1

-----------------------------------------------------------------------------
\* read

\* Broken variant: the next page starts at the last line of this one.
NextOffsetOverlapping(start, lines) == start + lines - 1

\* 1-based line after the lines shown, the one the notice names.
NextOffset(start, lines) == start + lines

\* One call of read from 1-based line "offset": the text, the next offset named by the
\* notice (0: none) and whether the page only points to a line too long to be shown.
ReadPage(content, offset, limit) ==
  LET all      == LineCount(content)
      last     == IF limit = NoLimit THEN all ELSE Min({offset + limit[1] - 1, all})
      selected == Lines(content, offset, last)
      cut      == truncateHead(selected, ReadLines, ReadBytes)
  IN  [from |-> offset,
       text |-> cut.content,
       long |-> cut.firstLineExceedsLimit,
       next |-> IF cut.firstLineExceedsLimit THEN 0
                ELSE IF cut.truncated THEN NextOffset(offset, cut.outputLines)
                ELSE IF limit # NoLimit /\ last < all THEN NextOffset(offset, last - offset + 1)
                ELSE 0]

PageFiles == UNION {[1 .. n -> {"a", "nl"}] : n \in 0 .. PageFile}

StartPaging ==
  /\ job = "idle"
  /\ job' = "paging"
  /\ \E content \in PageFiles, limit \in {NoLimit, <<0>>, <<1>>, <<2>>} :
       /\ file' = content
       /\ reader' = [next |-> 1, limit |-> limit, pages |-> <<>>, got |-> <<>>]
  /\ UNCHANGED <<editor, writer, torn>>

\* The reader follows the notice; past a line that is too long it goes on by itself, and it
\* gives up when the notice does not lead beyond the offset it asked for.
ReadNext ==
  /\ job = "paging" /\ reader.next > 0
  /\ LET page == ReadPage(file, reader.next, reader.limit)
         skip == IF page.long /\ reader.next < LineCount(file) THEN reader.next + 1 ELSE 0
     IN  reader' = [reader EXCEPT !.pages = Append(@, page),
                                  !.got = IF reader.pages = <<>> THEN page.text
                                          ELSE @ \o <<"nl">> \o page.text,
                                  !.next = IF page.long THEN skip
                                           ELSE IF page.next > reader.next THEN page.next ELSE 0]
  /\ UNCHANGED <<job, file, editor, writer, torn>>

-----------------------------------------------------------------------------
\* edit and write

EditFiles ==
  (UNION {[1 .. n -> {"a", "q", "sp", "nl", "cr"}] : n \in 0 .. EditFile})
    \cup {<<"bom">> \o s : s \in [1 .. EditFile - 1 -> {"a", "q", "nl"}]}

Short == {<<"a">>, <<"q">>, <<"sp">>, <<"nl">>, <<"a", "a">>, <<"a", "nl">>, <<"q", "cr", "nl">>}
Old == Short \cup {<<"sp", "nl">>, <<"a", "sp">>, <<"sp", "a">>}

\* One edit with a new text of its own or with its old text again, or two edits.
Requests ==
  {<<[old |-> o, new |-> n]>> : o \in Old, n \in {<<"X">>, <<>>}}
    \cup {<<[old |-> o, new |-> o]>> : o \in Short}
    \cup {<<[old |-> o, new |-> <<"X">>], [old |-> p, new |-> <<"Y">>]>> : o \in Short, p \in Short}

StartEdit ==
  /\ job = "idle"
  /\ job' = "editing"
  /\ \E content \in EditFiles, edits \in Requests :
       /\ file' = content
       /\ editor' = [pc |-> "access", edits |-> edits, base |-> <<>>, wrote |-> <<>>]
  /\ UNCHANGED <<reader, writer, torn>>

\* The guest's file operations are remote commands: their exit codes become results.
\* "test -r" exits 1 for a missing and for an unreadable file; "test -e" tells them apart.
sshAccess(rc, existsRc) ==
  IF rc = 0 THEN "ok"
  ELSE IF rc # 1 THEN "error"
  ELSE CASE existsRc = 1 -> "ENOENT" [] existsRc = 0 -> "EACCES" [] OTHER -> "error"

\* The payload of a file counts only if the command succeeded and it is strict base64.
sshReadFile(rc, strict) == IF rc = 0 /\ strict THEN "ok" ELSE "error"

sshWriteFile(rc) == IF rc = 0 THEN "ok" ELSE "error"

RemoteExits == {0, 1, 255}

EditAccess ==
  /\ job = "editing" /\ editor.pc = "access"
  /\ \E rc \in RemoteExits, existsRc \in RemoteExits :
       editor' = [editor EXCEPT !.pc = IF sshAccess(rc, existsRc) = "ok" THEN "read" ELSE "refused"]
  /\ UNCHANGED <<job, file, reader, writer, torn>>

\* edit: the file is read, and the request computed or refused.  BOM and line ends are taken
\* off for the matching and put back.
EditResult(content, edits) ==
  LET text == stripBom(content)
      res  == applyEditsToNormalizedContent(normalizeToLF(text), edits)
      bom  == IF text = content THEN <<>> ELSE <<"bom">>
  IN  IF ~res.ok THEN res
      ELSE [ok |-> TRUE, res |-> res,
            final |-> bom \o restoreLineEndings(res.new, detectLineEnding(text))]

EditRead ==
  /\ job = "editing" /\ editor.pc = "read"
  /\ \E rc \in RemoteExits, strict \in BOOLEAN :
     LET r == EditResult(file, editor.edits)
     IN  editor' = IF sshReadFile(rc, strict) = "ok" /\ r.ok
                   THEN [editor EXCEPT !.pc = "truncate", !.base = file, !.wrote = r.final]
                   ELSE [editor EXCEPT !.pc = "refused", !.base = file]
  /\ UNCHANGED <<job, file, reader, writer, torn>>

EditTruncates ==
  /\ job = "editing" /\ editor.pc = "truncate"
  /\ editor' = [editor EXCEPT !.pc = "fill"]
  /\ file' = <<>>
  /\ torn' = TRUE
  /\ UNCHANGED <<job, reader, writer>>

\* The data follows, or the write fails between the two and the file stays empty.
EditFills ==
  /\ job = "editing" /\ editor.pc = "fill"
  /\ \E rc \in RemoteExits :
       IF sshWriteFile(rc) = "ok"
       THEN /\ editor' = [editor EXCEPT !.pc = "done"]
            /\ file' = editor.wrote
            /\ torn' = FALSE
       ELSE /\ editor' = [editor EXCEPT !.pc = "refused"]
            /\ UNCHANGED <<file, torn>>
  /\ UNCHANGED <<job, reader, writer>>

\* The file cannot be opened for writing: the edit is refused and the file is as it was.
OpenFails ==
  /\ job = "editing" /\ editor.pc = "truncate"
  /\ editor' = [editor EXCEPT !.pc = "refused"]
  /\ UNCHANGED <<job, file, reader, writer, torn>>

\* write, of another request: mkdir -p and the open may fail, else the same two steps.
WriteRefused ==
  /\ job = "editing" /\ writer = "idle"
  /\ writer' = "refused"
  /\ UNCHANGED <<job, file, reader, editor, torn>>

WriteTruncates ==
  /\ job = "editing" /\ writer = "idle"
  /\ writer' = "fill"
  /\ file' = <<>>
  /\ torn' = TRUE
  /\ UNCHANGED <<job, reader, editor>>

WriteFills ==
  /\ job = "editing" /\ writer = "fill"
  /\ \E rc \in RemoteExits :
       IF sshWriteFile(rc) = "ok"
       THEN writer' = "done" /\ file' = <<"a", "W">> /\ torn' = FALSE
       ELSE writer' = "refused" /\ UNCHANGED <<file, torn>>
  /\ UNCHANGED <<job, reader, editor>>

-----------------------------------------------------------------------------

FileInit ==
  /\ job = "idle"
  /\ file = <<>>
  /\ reader = [next |-> 0, limit |-> NoLimit, pages |-> <<>>, got |-> <<>>]
  /\ editor = [pc |-> "idle", edits |-> <<>>, base |-> <<>>, wrote |-> <<>>]
  /\ writer = "idle"
  /\ torn = FALSE

FileNext ==
  \/ StartPaging
  \/ ReadNext
  \/ StartEdit
  \/ EditAccess
  \/ EditRead
  \/ EditTruncates
  \/ EditFills
  \/ OpenFails
  \/ WriteRefused
  \/ WriteTruncates
  \/ WriteFills

FileSpec == FileInit /\ [][FileNext]_fileVars

-----------------------------------------------------------------------------

\* A line that one page may not show because it alone exceeds the byte limit.
LongLine(content, i) == Len(Lines(content, i, i)) > ReadBytes

\* A reader that gives no limit, or one of at least a line, and follows the offsets the
\* answers name (read.ts) gets every line of the file exactly once and in order: each page
\* goes on where the last ended, and the pages joined are the file; of a line too long to be
\* shown it gets the page that says so.  (A limit of 0 is NoticesLeadOn's.)
ReadPagesCoverTheFile ==
  (job = "paging" /\ reader.next = 0 /\ AsksForLines(reader.limit)) =>
    /\ \A k \in 2 .. Len(reader.pages) : reader.pages[k].from > reader.pages[k - 1].from
    /\ (\A i \in 1 .. LineCount(file) : ~LongLine(file, i)) => reader.got = file
    /\ \A i \in 1 .. LineCount(file) :
         LongLine(file, i) => \E k \in DOMAIN reader.pages :
                                reader.pages[k].from = i /\ reader.pages[k].long

\* "When you need the full file, continue with offset until complete." (read.ts): the offset
\* a notice names lies beyond the one that was asked for, so that going on gets further.
\* (Violated: with limit=0 a page shows no line and names its own offset again.)
NoticesLeadOn ==
  job = "paging" =>
    \A k \in DOMAIN reader.pages : reader.pages[k].next # 0 => reader.pages[k].next > reader.pages[k].from

\* The text that results when all matches are replaced at once: a character outside every
\* match is kept, a match becomes its new text.
Simultaneous(base, edits, match) ==
  FlattenSeq([p \in 1 .. Len(base) + 1 |->
    LET starts == {i \in DOMAIN match : match[i].index = p}
        inside == \E i \in DOMAIN match : match[i].index <= p /\ p < match[i].index + match[i].length
        new    == FlattenSeq([i \in DOMAIN edits |-> IF i \in starts THEN normalizeToLF(edits[i].new) ELSE <<>>])
    IN  new \o (IF inside \/ p > Len(base) THEN <<>> ELSE <<base[p]>>)])

Blank(edits) == \E i \in DOMAIN edits : normalizeForFuzzyMatch(normalizeToLF(edits[i].old)) = <<>>

\* A successful edit writes what replacing all matches at once gives: no edit moves or hits
\* the text of another.  The line ends and the BOM come back, and unless an old text is only
\* blanks, an edit never goes through on the empty file a concurrent write left for a moment
\* (edit.ts: every edit is matched against the original file).
EditsAreSimultaneous ==
  editor.pc \in {"truncate", "fill", "done"} =>
    /\ LET r == EditResult(editor.base, editor.edits).res
       IN  /\ normalizeToLF(stripBom(editor.wrote)) = Simultaneous(r.base, editor.edits, r.match)
           /\ editor.base # <<>> /\ editor.base[1] = "bom" => editor.wrote[1] = "bom"
           /\ CrLfAt(editor.wrote) = {} \/ CrLfAt(editor.base) # {}
    /\ Blank(editor.edits) \/ editor.base # <<>>
=============================================================================
