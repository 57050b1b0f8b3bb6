------------------------------- MODULE BashTool -------------------------------
(***************************************************************************)
(* One call of the bash tool (tools/bash.ts): the command's process, the   *)
(* output accumulator that keeps a rolling tail of its output              *)
(* (tools/output-accumulator.ts), and the two backends it may run on: the  *)
(* host (tools/backend.ts) and the guest over ssh (vm/backend.ts,          *)
(* vm/ssh.ts).  Output comes in chunks that are cut anywhere, inside a     *)
(* character too.  On the host the call is settled by the exit of the      *)
(* shell, while its output pipes may still hold bytes; over ssh by the     *)
(* close of the pipes.                                                     *)
(***************************************************************************)
EXTENDS Truncation

CONSTANTS MaxBytes, MaxLines,   \* the limits of the tail that is shown
          ChunkSizes,           \* sizes of the chunks the pipe delivers
          MaxOut                \* bound: bytes a command writes

ASSUME BashAssumption ==
  /\ MaxBytes \in Nat \ {0} /\ MaxLines \in Nat \ {0} /\ MaxOut \in Nat
  /\ ChunkSizes \subseteq Nat \ {0}

VARIABLES
  bash,      \* pc of the call: idle, running, closing (the spill file), done, crashed
  kind,      \* the backend: local or vm
  child,     \* the command's process and its pipes
  raw,       \* every byte the accumulator was given
  acc,       \* the OutputAccumulator
  files,     \* the full-output files, by the name under which they were created
  answer     \* what the tool returned

bashVars == <<bash, kind, child, raw, acc, files, answer>>

Absent == <<"absent">>
Bytes == {"a", "nl", "l", "c", "r"}
\* The overflow path bash.ts mints for its footer, and the one runShell mints for its tee.
Paths == {"bash", "runShell"}

maxRollingBytes == Max({MaxBytes * 2, 1})

-----------------------------------------------------------------------------
\* The accumulator

NewAccumulator ==
  [pending |-> FALSE, tail |-> <<>>, atLine |-> TRUE, decoded |-> 0, completed |-> 0,
   lineBytes |-> 0, open |-> FALSE, chunks |-> <<>>, spilled |-> FALSE, finished |-> FALSE]

totalLines(a) == a.completed + (IF a.open THEN 1 ELSE 0)

\* Cut the tail to the rolling window, at the start of a character.
trimTail(a) ==
  LET n      == Len(a.tail)
      starts == {i \in n - maxRollingBytes + 1 .. n : a.tail[i] # "c"}
      start  == IF starts = {} THEN n + 1 ELSE Min(starts)
  IN  IF n <= maxRollingBytes THEN a
      ELSE [a EXCEPT !.tail = SubSeq(a.tail, start, n),
                     !.atLine = IF start = 1 THEN @ ELSE a.tail[start - 1] = "nl"]

appendDecodedText(a, text) ==
  LET grown   == [a EXCEPT !.decoded = @ + Len(text), !.tail = @ \o text]
      kept    == IF Len(grown.tail) > maxRollingBytes * 2 THEN trimTail(grown) ELSE grown
      newline == {i \in DOMAIN text : text[i] = "nl"}
  IN  IF text = <<>> THEN a
      ELSE IF newline = {}
      THEN [kept EXCEPT !.lineBytes = @ + Len(text), !.open = TRUE]
      ELSE [kept EXCEPT !.completed = @ + Cardinality(newline),
                        !.lineBytes = Len(text) - Max(newline),
                        !.open = Max(newline) < Len(text)]

\* The streaming decoder keeps the lead of a character that is not complete yet.
Decode(a, data) ==
  LET bytes == (IF a.pending THEN <<"l">> ELSE <<>>) \o data
  IN  IF Last(bytes) = "l" THEN [text |-> Front(bytes), pending |-> TRUE]
      ELSE [text |-> bytes, pending |-> FALSE]

shouldUseTempFile(a, rawBytes) ==
  rawBytes > MaxBytes \/ a.decoded > MaxBytes \/ totalLines(a) > MaxLines

\* Broken variant: the chunks kept in memory are not written when the spill file is opened.
ensureTempFileWithoutReplay(a, fs) ==
  IF a.spilled THEN <<a, fs>>
  ELSE <<[a EXCEPT !.spilled = TRUE, !.chunks = <<>>], [fs EXCEPT !["bash"] = <<>>]>>

\* Open the spill file once and write what was kept in memory so far.
ensureTempFile(a, fs) ==
  IF a.spilled THEN <<a, fs>>
  ELSE <<[a EXCEPT !.spilled = TRUE, !.chunks = <<>>], [fs EXCEPT !["bash"] = a.chunks]>>

\* append(): the pair of the accumulator and the files after it.
Append_(a, fs, data) ==
  LET d     == Decode(a, data)
      after == [appendDecodedText(a, d.text) EXCEPT !.pending = d.pending]
      spill == ensureTempFile(after, fs)
  IN  IF kind = "vm" THEN <<after, fs>>
      ELSE IF after.spilled \/ shouldUseTempFile(after, Len(raw) + Len(data))
      THEN <<spill[1], [spill[2] EXCEPT !["bash"] = @ \o data]>>
      ELSE <<[after EXCEPT !.chunks = @ \o data], fs>>

Finish_(a, fs) ==
  LET flushed == IF a.pending THEN appendDecodedText(a, <<"r", "c", "c">>) ELSE a
      after   == [flushed EXCEPT !.pending = FALSE, !.finished = TRUE]
  IN  IF kind = "local" /\ shouldUseTempFile(after, Len(raw))
      THEN ensureTempFile(after, fs) ELSE <<after, fs>>

\* Broken variant: the tail is shown from its first byte although it starts inside a line.
getSnapshotTextUnaligned(a) == a.tail

\* A tail that starts inside a line is shown from the next line on.
getSnapshotText(a) ==
  LET newline == {i \in DOMAIN a.tail : a.tail[i] = "nl"}
  IN  IF a.atLine \/ newline = {} THEN a.tail
      ELSE SubSeq(a.tail, Min(newline) + 1, Len(a.tail))

snapshot(a) ==
  LET cut == truncateTail(getSnapshotText(a), MaxLines, MaxBytes)
      truncated == totalLines(a) > MaxLines \/ a.decoded > MaxBytes
  IN  [content |-> cut.content, truncated |-> truncated, partial |-> cut.lastLinePartial,
       outputLines |-> cut.outputLines, totalLines |-> totalLines(a),
       by |-> IF ~truncated THEN "none" ELSE IF cut.by # "none" THEN cut.by
              ELSE IF a.decoded > MaxBytes THEN "bytes" ELSE "lines"]

-----------------------------------------------------------------------------
\* The answer

NoAnswer == [ok |-> FALSE, status |-> "none", text |-> <<>>, first |-> 0, last |-> 0, path |-> "none"]

\* formatOutput: the text and the footer with the line range and the full output's path.
formatOutput(snap) ==
  [NoAnswer EXCEPT
     !.text  = snap.content,
     !.first = IF snap.truncated /\ ~snap.partial THEN snap.totalLines - snap.outputLines + 1 ELSE 0,
     !.last  = IF snap.truncated THEN snap.totalLines ELSE 0,
     !.path  = IF snap.truncated THEN "bash" ELSE "none"]

\* The status line of each outcome; signal death (-1) without a timeout is no error.
StatusOf(result) ==
  IF result.timedOut THEN "timedOut"
  ELSE IF result.exitCode \in {0, -1} THEN "ok" ELSE "exitCode"

Result(code, timedOut) == [exitCode |-> code, timedOut |-> timedOut]
Rejected == Result(-2, FALSE)

Answer(result, snap) ==
  IF result = Rejected THEN [NoAnswer EXCEPT !.status = "rejected"]
  ELSE [formatOutput(snap) EXCEPT !.status = StatusOf(result), !.ok = StatusOf(result) = "ok"]

-----------------------------------------------------------------------------

NoChild == [alive |-> FALSE, pipe |-> FALSE, timer |-> FALSE, timedOut |-> FALSE, result |-> Rejected]

BashInit ==
  /\ bash = "idle"
  /\ kind \in {"local", "vm"}
  /\ child = NoChild
  /\ raw = <<>>
  /\ acc = NewAccumulator
  /\ files = [p \in Paths |-> Absent]
  /\ answer = NoAnswer

\* The working directory cannot be checked (a guest that is not ready) or does not exist.
Precheck ==
  /\ bash = "idle"
  /\ bash' = "done"
  /\ answer' = [NoAnswer EXCEPT !.status = "precheck"]
  /\ UNCHANGED <<kind, child, raw, acc, files>>

\* The command starts, with a timeout of its own or without.  In the guest it runs under
\* tee, which creates the file runShell named.
Execute ==
  /\ bash = "idle"
  /\ bash' = "running"
  /\ \E timer \in BOOLEAN :
       child' = [NoChild EXCEPT !.alive = TRUE, !.pipe = TRUE, !.timer = timer]
  /\ files' = IF kind = "vm" THEN [files EXCEPT !["runShell"] = <<>>] ELSE files
  /\ UNCHANGED <<kind, raw, acc, answer>>

\* What a stream of UTF-8 text may hold next.
Wellformed(a, data) ==
  \A i \in DOMAIN data :
    data[i] = "c" <=> IF i = 1 THEN a.pending ELSE data[i - 1] = "l"

Chunks == UNION {[1 .. n -> Bytes \ {"r"}] : n \in ChunkSizes}

\* A chunk arrives.  append() throws once the accumulator is finished; thrown in an event
\* handler, the error ends the process.
Data ==
  /\ child.pipe
  /\ \E data \in Chunks :
       /\ Wellformed(acc, data)
       /\ Len(raw) + Len(data) <= MaxOut
       /\ IF acc.finished
          THEN /\ bash' = "crashed"
               /\ UNCHANGED <<raw, acc, files>>
          ELSE LET r == Append_(acc, files, data)
               IN  /\ acc' = r[1]
                   /\ files' = IF kind = "vm" THEN [r[2] EXCEPT !["runShell"] = @ \o data] ELSE r[2]
                   /\ raw' = raw \o data
                   /\ UNCHANGED bash
  /\ UNCHANGED <<kind, child, answer>>

\* The timer kills the process group (the host's own, or the timeout command in the guest).
Timeout ==
  /\ bash = "running" /\ child.alive /\ child.timer /\ ~child.timedOut
  /\ child' = [child EXCEPT !.timedOut = TRUE]
  /\ UNCHANGED <<bash, kind, raw, acc, files, answer>>

\* finishOutput(): the accumulator is flushed and shown, the spill file is being closed.
Settle(result) ==
  LET f == Finish_(acc, files)
      s == snapshot(f[1])
      g == IF kind = "local" /\ s.truncated THEN ensureTempFile(f[1], f[2]) ELSE f
  IN  /\ acc' = g[1]
      /\ files' = g[2]
      /\ answer' = Answer(result, s)
      /\ bash' = "closing"

ExitCodes == {0, 1, -1}

\* Host: the exit of the shell resolves; the pipes may stay open.
ExitLocal ==
  /\ kind = "local" /\ bash = "running" /\ child.alive
  /\ \E code \in ExitCodes :
       LET result == IF child.timedOut THEN Result(-1, TRUE) ELSE Result(code, FALSE)
       IN  /\ Settle(result)
           /\ child' = [child EXCEPT !.alive = FALSE, !.result = result]
  /\ UNCHANGED <<kind, raw>>

\* Guest: ssh resolves once both pipes are closed; 124 is the wrapper's timeout and 255
\* the death of the connection.
CloseVm ==
  /\ kind = "vm" /\ bash = "running" /\ child.alive
  /\ \E code \in ExitCodes \cup {124, 255} :
       /\ child.timedOut => code \in {124, 255}
       /\ LET result == IF code = 255 THEN Rejected
                        ELSE IF code = 124 THEN Result(-1, TRUE) ELSE Result(code, FALSE)
          IN  /\ Settle(result)
              /\ child' = [child EXCEPT !.alive = FALSE, !.pipe = FALSE, !.result = result]
  /\ UNCHANGED <<kind, raw>>

\* The shell or ssh cannot be started: nothing ran.
SpawnError ==
  /\ bash = "running" /\ child.alive /\ raw = <<>>
  /\ Settle(Rejected)
  /\ child' = [child EXCEPT !.alive = FALSE, !.pipe = FALSE]
  /\ UNCHANGED <<kind, raw>>

\* The last holder of the pipes goes.
PipesClose ==
  /\ child.pipe /\ ~child.alive
  /\ child' = [child EXCEPT !.pipe = FALSE]
  /\ UNCHANGED <<bash, kind, raw, acc, files, answer>>

\* closeTempFile() resolves and the tool returns.
Return ==
  /\ bash = "closing"
  /\ bash' = "done"
  /\ UNCHANGED <<kind, child, raw, acc, files, answer>>

BashNext ==
  \/ Precheck
  \/ Execute
  \/ Data
  \/ Timeout
  \/ ExitLocal
  \/ CloseVm
  \/ SpawnError
  \/ PipesClose
  \/ Return

BashSpec == BashInit /\ [][BashNext]_bashVars

-----------------------------------------------------------------------------

BashTypeOK ==
  /\ bash \in {"idle", "running", "closing", "done", "crashed"}
  /\ kind \in {"local", "vm"}
  /\ child \in [alive : BOOLEAN, pipe : BOOLEAN, timer : BOOLEAN, timedOut : BOOLEAN,
                result : [exitCode : {-2, -1, 0, 1}, timedOut : BOOLEAN]]
  /\ Len(raw) <= MaxOut /\ Range(raw) \subseteq Bytes
  /\ Range(acc.tail) \subseteq Bytes /\ Len(acc.tail) <= 2 * maxRollingBytes + Max(ChunkSizes)
  /\ acc.decoded \in Nat /\ acc.completed \in Nat /\ acc.lineBytes \in Nat
  /\ answer.path \in {"none", "bash"}

\* The whole output as text: a character cut short at the end is replaced.
DecodedOutput ==
  IF raw # <<>> /\ Last(raw) = "l" THEN Front(raw) \o <<"r", "c", "c">> ELSE raw

LongestLine(s) == Max({0} \cup {Len(Lines(s, k, k)) : k \in 1 .. LineCount(s)})

\* What a call that ran shows is the tail of its whole output, cut as if all of it had been
\* kept, and the line range of the footer names those very lines - as long as no line is
\* longer than the limit on bytes (output-accumulator.ts keeps a rolling tail only).
BashShowsTheTail ==
  LET whole == DecodedOutput
      cut   == truncateTail(whole, MaxLines, MaxBytes)
      n     == splitLinesForCounting(whole)
  IN  (answer.status \in {"ok", "exitCode", "timedOut"} /\ LongestLine(whole) <= MaxBytes) =>
        /\ answer.text \in {cut.content, cut.content \o <<"nl">>}
        /\ answer.path = (IF cut.truncated THEN "bash" ELSE "none")
        /\ cut.truncated => answer.first = n - cut.outputLines + 1 /\ answer.last = n

\* Whenever output was left out of the answer, every byte the call received is in one file,
\* once and in order: the spill file of the host or the guest's tee.
FullOutputIsKept ==
  (bash = "done" /\ answer.path # "none") =>
    files[IF kind = "local" THEN "bash" ELSE "runShell"] = raw

\* Said of the bash tool in tools/bash.ts and tools/backend.ts: the footer names a file
\* from which the full output can be read.  In the guest the two paths differ.
FooterNamesTheFullOutput ==
  (bash = "done" /\ answer.path # "none") => files[answer.path] = raw
=============================================================================
