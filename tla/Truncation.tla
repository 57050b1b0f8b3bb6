------------------------------ MODULE Truncation ------------------------------
(***************************************************************************)
(* The pure text operators of the tools: truncation by lines and bytes     *)
(* (tools/truncate.ts) and the edit application (tools/edit-diff.ts).      *)
(*                                                                         *)
(* For truncation a text is the sequence of its UTF-8 bytes: "a" is a      *)
(* one-byte character, "nl" the newline, "l" the lead of a two-byte        *)
(* character, "r" the lead of U+FFFD (three bytes) and "c" a continuation  *)
(* byte.  For editing it is the sequence of its characters: "q" is a       *)
(* typographic variant of "a", "sp" a blank, "cr" and "nl" the line ends.  *)
(***************************************************************************)
EXTENDS Integers, Sequences, FiniteSets, SequencesExt, FiniteSetsExt

-----------------------------------------------------------------------------
\* Positions and lines.

\* The k-th smallest element of a set of positions, and the elements of s at the positions.
Nth(S, k) == CHOOSE p \in S : Cardinality({q \in S : q <= p}) = k
Picks(s, S) == [k \in 1 .. Cardinality(S) |-> s[Nth(S, k)]]

\* split("\n"): a line ends at each newline and the last one at the end of the text.
LineEnds(s) == {i \in DOMAIN s : s[i] = "nl"} \cup {Len(s) + 1}
LineCount(s) == Cardinality(LineEnds(s))
Cut(s, k) == IF k = 0 THEN 0 ELSE Nth(LineEnds(s), k)

\* slice and join("\n"): the lines from the i-th to the j-th with the newlines between them.
Lines(s, i, j) == SubSeq(s, Cut(s, i - 1) + 1, Cut(s, j) - 1)

\* The number of lines: an empty text has none, and a newline at its end starts none.
splitLinesForCounting(s) ==
  IF s = <<>> THEN 0 ELSE IF Last(s) = "nl" THEN LineCount(s) - 1 ELSE LineCount(s)

FirstLines(s, k) == Lines(s, 1, k)
LastLines(s, k) == LET n == splitLinesForCounting(s) IN Lines(s, n - k + 1, n)

-----------------------------------------------------------------------------
\* truncate.ts

Truncation(content, by, outputLines, partial, firstExceeds) ==
  [content |-> content, truncated |-> by # "none", by |-> by, outputLines |-> outputLines,
   lastLinePartial |-> partial, firstLineExceedsLimit |-> firstExceeds]

Fits(s, maxLines, maxBytes) == splitLinesForCounting(s) <= maxLines /\ Len(s) <= maxBytes

\* The most lines the loop may keep, and why it stops.
Loop(s, maxLines) == 0 .. Min({splitLinesForCounting(s), maxLines})
StoppedBy(s, kept, maxLines) == IF kept + 1 \in Loop(s, maxLines) THEN "bytes" ELSE "lines"

\* The loop keeps the lines from the first on and stops at the first that would not fit.
truncateHead(s, maxLines, maxBytes) ==
  LET kept == Max({k \in Loop(s, maxLines) : Len(FirstLines(s, k)) <= maxBytes})
  IN  IF Fits(s, maxLines, maxBytes)
      THEN Truncation(s, "none", splitLinesForCounting(s), FALSE, FALSE)
      ELSE IF Len(FirstLines(s, 1)) > maxBytes
      THEN Truncation(<<>>, "bytes", 0, FALSE, TRUE)
      ELSE Truncation(FirstLines(s, kept), StoppedBy(s, kept, maxLines), kept, FALSE, FALSE)

\* The last n bytes of a line, moved forward to the start of a character.
truncateStringToBytesFromEnd(s, n) ==
  LET starts == {i \in Max({1, Len(s) - n + 1}) .. Len(s) : s[i] # "c"}
  IN  IF starts = {} THEN <<>> ELSE SubSeq(s, Min(starts), Len(s))

\* The same from the last line on.
truncateTail(s, maxLines, maxBytes) ==
  LET kept == Max({k \in Loop(s, maxLines) : Len(LastLines(s, k)) <= maxBytes})
      part == truncateStringToBytesFromEnd(LastLines(s, 1), maxBytes)
  IN  IF Fits(s, maxLines, maxBytes)
      THEN Truncation(s, "none", splitLinesForCounting(s), FALSE, FALSE)
      ELSE IF kept = 0
      THEN Truncation(part, IF maxLines = 1 THEN "lines" ELSE "bytes", 1, TRUE, FALSE)
      ELSE Truncation(LastLines(s, kept), StoppedBy(s, kept, maxLines), kept, FALSE, FALSE)

-----------------------------------------------------------------------------
\* edit-diff.ts

stripBom(s) == IF s # <<>> /\ s[1] = "bom" THEN Tail(s) ELSE s

CrLfAt(s) == {i \in 1 .. Len(s) - 1 : s[i] = "cr" /\ s[i + 1] = "nl"}

detectLineEnding(s) ==
  LET lf == {i \in DOMAIN s : s[i] = "nl"}
  IN  IF lf = {} \/ CrLfAt(s) = {} THEN "nl"
      ELSE IF Min(CrLfAt(s)) < Min(lf) THEN "crlf" ELSE "nl"

normalizeToLF(s) ==
  FlattenSeq([i \in DOMAIN s |->
    IF i \in CrLfAt(s) THEN <<>> ELSE IF s[i] = "cr" THEN <<"nl">> ELSE <<s[i]>>])

restoreLineEndings(s, ending) ==
  IF ending = "nl" THEN s
  ELSE FlattenSeq([i \in DOMAIN s |-> IF s[i] = "nl" THEN <<"cr", "nl">> ELSE <<s[i]>>])

\* Blanks at the end of a line go, typographic characters become plain ones.
normalizeForFuzzyMatch(s) ==
  LET blankTail(i) == /\ s[i] = "sp"
                      /\ \A j \in i .. Len(s) :
                           s[j] = "sp" \/ \E k \in i .. j : s[k] = "nl"
  IN  FlattenSeq([i \in DOMAIN s |->
        IF blankTail(i) THEN <<>> ELSE IF s[i] = "q" THEN <<"a">> ELSE <<s[i]>>])

\* Positions where t starts in s; the empty text starts everywhere.
StartsAt(s, t) == {i \in 1 .. Len(s) - Len(t) + 1 : SubSeq(s, i, i + Len(t) - 1) = t}

NotFound == [found |-> FALSE, index |-> 0, length |-> 0, fuzzy |-> FALSE]

fuzzyFindText(content, oldText) ==
  LET fuzzyContent == normalizeForFuzzyMatch(content)
      fuzzyOld     == normalizeForFuzzyMatch(oldText)
      exact        == StartsAt(content, oldText)
      near         == StartsAt(fuzzyContent, fuzzyOld)
  IN  IF exact # {}
      THEN [found |-> TRUE, index |-> Min(exact), length |-> Len(oldText), fuzzy |-> FALSE]
      ELSE IF near = {} THEN NotFound
      ELSE [found |-> TRUE, index |-> Min(near), length |-> Len(fuzzyOld), fuzzy |-> TRUE]

\* split(t).length - 1: occurrences are counted from the left and do not overlap; splitting
\* at the empty text yields the single characters.
countOccurrences(content, oldText) ==
  LET s == normalizeForFuzzyMatch(content)
      t == normalizeForFuzzyMatch(oldText)
      count[i \in Nat] == IF i > Len(s) THEN 0
                          ELSE IF i \in StartsAt(s, t) THEN 1 + count[i + Len(t)]
                          ELSE count[i + 1]
  IN  IF t = <<>> THEN Len(s) - 1 ELSE count[1]

Failed(why) == [ok |-> FALSE, why |-> why]

\* sort() by index: matches at the same place keep the order of their edits.
Precedes(match, i, j) ==
  match[i].index < match[j].index \/ (match[i].index = match[j].index /\ i <= j)

ReplaceMatch(text, m, new) ==
  SubSeq(text, 1, m.index - 1) \o new \o SubSeq(text, m.index + m.length, Len(text))

\* Broken variant: the matches are applied from the first to the last.
ApplyMatchesForward(base, edits, match) ==
  LET applied[some \in SUBSET DOMAIN edits] ==
        LET i == CHOOSE i \in some : \A j \in some : Precedes(match, j, i)
        IN  IF some = {} THEN base ELSE ReplaceMatch(applied[some \ {i}], match[i], edits[i].new)
  IN  applied[DOMAIN edits]

\* The matches are applied from the last to the first, so that earlier offsets stay valid:
\* the first of them is applied to what the others have made of the text.
ApplyMatches(base, edits, match) ==
  LET applied[some \in SUBSET DOMAIN edits] ==
        LET i == CHOOSE i \in some : \A j \in some : Precedes(match, i, j)
        IN  IF some = {} THEN base ELSE ReplaceMatch(applied[some \ {i}], match[i], edits[i].new)
  IN  applied[DOMAIN edits]

Overlap(match) ==
  \E i, j \in DOMAIN match :
    i # j /\ Precedes(match, i, j) /\ match[i].index + match[i].length > match[j].index

EditBase(content, edits) ==
  IF \E i \in DOMAIN edits : fuzzyFindText(content, edits[i].old).fuzzy
  THEN normalizeForFuzzyMatch(content) ELSE content

\* Every edit is matched against the same base text.  Which of several errors is reported
\* first is left out.
applyEditsToNormalizedContent(content, rawEdits) ==
  LET edits == [i \in DOMAIN rawEdits |-> [old |-> normalizeToLF(rawEdits[i].old),
                                           new |-> normalizeToLF(rawEdits[i].new)]]
      base  == EditBase(content, edits)
      match == [i \in DOMAIN edits |-> fuzzyFindText(base, edits[i].old)]
      new   == ApplyMatches(base, edits, match)
  IN  IF \E i \in DOMAIN edits : edits[i].old = <<>> THEN Failed("empty")
      ELSE IF \E i \in DOMAIN edits : ~match[i].found THEN Failed("notFound")
      ELSE IF \E i \in DOMAIN edits : countOccurrences(base, edits[i].old) > 1 THEN Failed("duplicate")
      ELSE IF Overlap(match) THEN Failed("overlap")
      ELSE IF new = base THEN Failed("noChange")
      ELSE [ok |-> TRUE, base |-> base, new |-> new, match |-> match]
=============================================================================
