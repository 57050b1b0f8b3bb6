------------------------------ MODULE SearchTools ------------------------------
(***************************************************************************)
(* One call of grep, find or ls (tools/grep.ts, tools/find.ts,             *)
(* tools/ls.ts).  grep and find read the lines of rg or fd from a pipe     *)
(* that cuts them anywhere, over runArgv of the host (tools/backend.ts) or *)
(* of the guest (vm/backend.ts); grep stops its process at the match       *)
(* limit.  ls stats one directory entry after the other.  A line of the    *)
(* process is two bytes, its tag and its end; a line cut short is one.     *)
(* The tag is the row of a match, "raw" for a match whose path rg gives as *)
(* bytes because it is no text, and "o" for any other event.               *)
(***************************************************************************)
EXTENDS Truncation

CONSTANTS SearchLines,    \* bound: lines the process writes, entries of the directory
          SearchLimits,   \* values of the limit argument
          SearchBytes,    \* the byte cap of an answer
          Rows            \* what tells the matches apart, a byte each

ASSUME SearchAssumption ==
  /\ SearchLines \in Nat /\ SearchLimits \subseteq Int /\ SearchBytes \in Nat
  /\ Rows \cap {"nl", "o", "end", "raw"} = {}
  /\ \E f \in [1 .. SearchLines -> Rows] : IsInjective(f)

VARIABLES
  search,    \* pc of the call: idle, running, flushing, done
  query,     \* tool, backend, limit, and the lines (or entries) there are
  rg,        \* the process: bytes still to come, whether it lives, its exit code
  pending,   \* the line not complete yet
  found,     \* matches counted, in order: the row of each, or "raw" for one that has none
  aborted,   \* the match limit was reached and the spawn aborted
  ended,     \* ls: the number of the next entry; its limit cut the listing
  reply      \* what the tool returned

searchVars == <<search, query, rg, pending, found, aborted, ended, reply>>

\* The byte of the k-th line, by which answers can be compared with what was written.
Digit == CHOOSE f \in [1 .. SearchLines -> Rows] : IsInjective(f)

\* rg --json writes matches, with a path that is text or bytes, and other events; fd writes
\* paths.
TagByte(tags, k) == CASE tags[k] = "match" -> Digit[k] [] tags[k] = "raw" -> "raw" [] OTHER -> "o"

LineByte(tags, k, i) == IF i = 0 THEN TagByte(tags, k) ELSE IF i = 1 THEN "end" ELSE "nl"

Written(tags) == [i \in 1 .. 3 * Len(tags) |-> LineByte(tags, (i + 2) \div 3, (i + 2) % 3)]
MatchesOf(tags) == Picks([k \in DOMAIN tags |-> TagByte(tags, k)], {k \in DOMAIN tags : tags[k] # "other"})

\* The rows of those matches that have one.
RowsOf(matches) == Picks(matches, {i \in DOMAIN matches : matches[i] # "raw"})

NoReply == [ok |-> FALSE, rows |-> <<>>, limited |-> FALSE, capped |-> FALSE]
Failure == NoReply

-----------------------------------------------------------------------------

\* Only rg's events give a path as bytes.
TagsOf(tool) == IF tool = "grep" THEN {"match", "raw", "other"} ELSE {"match", "other"}

SearchInit ==
  /\ search = "idle"
  /\ \E tool \in {"grep", "find", "ls"}, backend \in {"local", "vm"}, limit \in SearchLimits,
        n \in 0 .. SearchLines : \E tags \in [1 .. n -> TagsOf(tool)] :
       query = [tool |-> tool, backend |-> backend, limit |-> limit, tags |-> tags]
  /\ rg = [out |-> <<>>, alive |-> FALSE, code |-> 0]
  /\ pending = <<>>
  /\ found = <<>>
  /\ aborted = FALSE
  /\ ended = [next |-> 1, limited |-> FALSE]
  /\ reply = NoReply

\* The binary is missing, the path does not exist or is not a directory.
SearchPrecheck ==
  /\ search = "idle"
  /\ search' = "done"
  /\ reply' = Failure
  /\ UNCHANGED <<query, rg, pending, found, aborted, ended>>

\* grep and find take no limit below 1, ls takes it as it is.
EffectiveLimit == IF query.tool = "ls" THEN query.limit ELSE Max({1, query.limit})

\* The process is started and will write these lines.
Starts(tags) ==
  /\ search = "idle"
  /\ search' = "running"
  /\ rg' = [out |-> Written(tags), alive |-> TRUE, code |-> 0]
  /\ UNCHANGED <<query, pending, found, aborted, ended, reply>>

\* rg writes every event and knows no limit.
StartRg == query.tool = "grep" /\ Starts(query.tags)

\* fd is given the limit (--max-results) and writes paths only.
StartFd ==
  /\ query.tool = "find"
  /\ Starts([k \in 1 .. Min({Len(query.tags), EffectiveLimit}) |-> "match"])

\* Broken variant: the limit is not checked before a line is taken.
handleLineUnlimited(rows, line) ==
  IF query.tool = "grep" /\ (Len(line) < 2 \/ line[1] = "o") THEN rows
  ELSE IF line = <<>> THEN rows
  ELSE Append(rows, line[1])

\* grep counts complete match events up to its limit, before it looks whether the path is
\* text and pushes a row; find takes every line that is not empty.
handleLine(rows, line) ==
  IF query.tool = "grep"
     /\ (Len(line) < 2 \/ line[1] = "o" \/ Len(rows) >= EffectiveLimit) THEN rows
  ELSE IF line = <<>> THEN rows
  ELSE Append(rows, line[1])

\* Broken variant: a line is split at the end of every chunk.
CarryNothing(text) == [complete |-> LineCount(text), rest |-> <<>>]

\* Complete lines, and the rest that waits for the next chunk.
Carry(text) == LET n == LineCount(text) IN [complete |-> n - 1, rest |-> Lines(text, n, n)]

\* The limit is reached by this chunk: grep aborts the spawn.  The host kills the process
\* group and waits for its close; the guest's spawn resolves at once and its process runs on.
ReachesLimit(rows) == query.tool = "grep" /\ Len(rows) >= EffectiveLimit /\ ~aborted

Chunk ==
  /\ search = "running" /\ rg.alive
  /\ \E n \in 1 .. Min({3, Len(rg.out)}) :
       LET text  == pending \o SubSeq(rg.out, 1, n)
           taken[k \in 0 .. Carry(text).complete] ==
             IF k = 0 THEN found ELSE handleLine(taken[k - 1], Lines(text, k, k))
           rows  == taken[Carry(text).complete]
       IN  /\ found' = rows
           /\ pending' = Carry(text).rest
           /\ aborted' = (aborted \/ ReachesLimit(rows))
           /\ rg' = [rg EXCEPT !.out = SubSeq(@, n + 1, Len(@)),
                               !.alive = ~(ReachesLimit(rows) /\ query.backend = "vm"),
                               !.code = IF ReachesLimit(rows) THEN -1 ELSE @]
           /\ search' = IF ReachesLimit(rows) /\ query.backend = "vm" THEN "flushing" ELSE "running"
  /\ UNCHANGED <<query, ended, reply>>

\* The killed process leaves its last bytes unwritten.
Killed ==
  /\ search = "running" /\ rg.alive /\ aborted
  /\ rg' = [rg EXCEPT !.alive = FALSE, !.out = <<>>]
  /\ search' = "flushing"
  /\ UNCHANGED <<query, pending, found, aborted, ended, reply>>

\* The process ends by itself, and runArgv resolves when its pipes are closed: rg exits 1
\* without a match and fd 0; 2 is a failure of either, which may cut the output short.
Close ==
  /\ search = "running" /\ rg.alive /\ ~aborted
  /\ \/ /\ rg.out = <<>>
        /\ rg' = [rg EXCEPT !.alive = FALSE,
                            !.code = IF query.tool = "grep" /\ MatchesOf(query.tags) = <<>> THEN 1 ELSE 0]
     \/ rg' = [rg EXCEPT !.alive = FALSE, !.out = <<>>, !.code = 2]
  /\ search' = "flushing"
  /\ UNCHANGED <<query, pending, found, aborted, ended, reply>>

\* rg or fd cannot be started, or the connection to the guest dies: no result.
RunFails ==
  /\ search = "running" /\ ~aborted
  /\ search' = "done"
  /\ reply' = Failure
  /\ rg' = [rg EXCEPT !.alive = FALSE, !.out = <<>>]
  /\ UNCHANGED <<query, pending, found, aborted, ended>>

\* The rows joined by newlines.
RowText(rows) ==
  [i \in 1 .. 2 * Len(rows) - 1 |-> IF i % 2 = 1 THEN rows[(i + 1) \div 2] ELSE "nl"]

\* The rows under the byte cap; each row is one byte.
Format(matches, limited) ==
  LET rows == RowsOf(matches)
      cut  == truncateHead(RowText(rows), Len(rows) + 1, SearchBytes)
  IN  [ok |-> TRUE, limited |-> limited, capped |-> cut.truncated,
       rows |-> Picks(cut.content, {i \in DOMAIN cut.content : cut.content[i] # "nl"})]

\* The line that was left over is flushed; the process has failed, or the rows are shaped.
Finishes(tool, failed, rows) ==
  /\ search = "flushing" /\ query.tool = tool
  /\ search' = "done"
  /\ found' = rows
  /\ reply' = IF failed THEN Failure ELSE Format(rows, Len(rows) >= EffectiveLimit)
  /\ UNCHANGED <<query, rg, pending, aborted, ended>>

\* Without a match rg exits 1, and a process that was stopped at the limit has no exit code.
FinishGrep == Finishes("grep", ~aborted /\ rg.code \notin {0, 1}, handleLine(found, pending))

\* A failure of fd counts only when it wrote nothing.
FinishFind ==
  LET rows == handleLine(found, pending)
  IN  Finishes("find", rg.code # 0 /\ rows = <<>>, rows)

-----------------------------------------------------------------------------
\* ls

\* exists, stat and readdir succeeded; the entries are sorted.
ListDirectory ==
  /\ search = "idle"
  /\ query.tool = "ls"
  /\ search' = "listing"
  /\ UNCHANGED <<query, rg, pending, found, aborted, ended, reply>>

\* One entry: past the limit the listing stops; an entry that cannot be statted (removed in
\* between, or a dangling link) is skipped.
StatEntry ==
  /\ search = "listing"
  /\ ended.next <= Len(query.tags) /\ ~ended.limited
  /\ IF Len(found) >= EffectiveLimit
     THEN /\ ended' = [ended EXCEPT !.limited = TRUE]
          /\ UNCHANGED found
     ELSE /\ ended' = [ended EXCEPT !.next = @ + 1]
          /\ found' = IF query.tags[ended.next] = "match" THEN Append(found, Digit[ended.next]) ELSE found
  /\ UNCHANGED <<search, query, rg, pending, aborted, reply>>

\* Without a row the answer is "(empty directory)", whatever cut the listing.
FinishListing ==
  /\ search = "listing"
  /\ ended.next > Len(query.tags) \/ ended.limited
  /\ search' = "done"
  /\ reply' = Format(found, ended.limited /\ found # <<>>)
  /\ UNCHANGED <<query, rg, pending, found, aborted, ended>>

SearchNext ==
  \/ SearchPrecheck
  \/ StartRg
  \/ StartFd
  \/ Chunk
  \/ Killed
  \/ Close
  \/ RunFails
  \/ FinishGrep
  \/ FinishFind
  \/ ListDirectory
  \/ StatEntry
  \/ FinishListing

SearchSpec == SearchInit /\ [][SearchNext]_searchVars

-----------------------------------------------------------------------------

\* What there is to be found, and the rows it can be shown by.
AllMatches ==
  IF query.tool = "find" THEN SubSeq(Digit, 1, Len(query.tags)) ELSE MatchesOf(query.tags)
Everything == RowsOf(AllMatches)

\* Of the results that have a row - every one but a match in a file whose path is no text -
\* an answer of grep, find or ls holds those from the first on in their order, however the
\* pipe cut the lines; when it leaves any of them out, also because others were counted to
\* the limit, it says so by the limit or the size notice - unless fd failed after it had
\* written some (find.ts takes that for a partial success), or ls was asked for 0 entries
\* (ls.ts calls every directory empty then).
NothingIsDroppedSilently ==
  (search = "done" /\ reply.ok /\ ~(query.tool = "find" /\ rg.code = 2) /\ EffectiveLimit > 0) =>
    /\ IsPrefix(reply.rows, Everything)
    /\ reply.rows # Everything => reply.limited \/ reply.capped
    /\ Len(reply.rows) <= EffectiveLimit

\* grep "Returns matching lines with file paths and line numbers ... Output is truncated to
\* 100 matches or 50KB" (grep.ts): an answer without a notice of either has a row for every
\* match.  (Violated: a match whose path rg gives as bytes is counted and has no row.)
EveryMatchHasARow ==
  (search = "done" /\ query.tool = "grep" /\ reply.ok /\ ~reply.limited /\ ~reply.capped) =>
    Len(reply.rows) = Len(AllMatches)
=============================================================================
