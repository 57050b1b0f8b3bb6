---------------------------- MODULE ToolServerProofs ----------------------------
(***************************************************************************)
(* What holds of a tool call for every limit, chunking and number of       *)
(* sessions.                                                               *)
(*                                                                         *)
(* Of the bash tool: the file named by an answer that leaves output out    *)
(* holds all of it (FullOutputIsKept).  The proof keeps an account of      *)
(* where the bytes are while the call runs, KeepsTheBytes: on the host     *)
(* they are in memory until the spill file is opened, and in the file from *)
(* then on; in the guest they are in the file of the tee.                  *)
(*                                                                         *)
(* What the answer shows is the end of the whole output                    *)
(* (BashShowsTheTail).  The accumulator keeps a rolling tail and counters  *)
(* only; TailInv says of which text they are the tail and the counts, and  *)
(* that whatever begins before the tail is longer than the window.  The    *)
(* window is twice the limit on bytes, so that no line under the limit is  *)
(* cut in the part that is shown, and the end of a text that begins with a *)
(* line and is so long is truncated to the same lines as the text          *)
(* (TailOfTail).                                                           *)
(*                                                                         *)
(* Of read: following the offsets of its answers shows every line once and *)
(* in order (ReadPagesCoverTheFile).  Paging relates the next offset to    *)
(* the lines shown so far; PageIs says which lines one page holds.         *)
(*                                                                         *)
(* Of grep, find and ls: results that are left out are announced           *)
(* (NothingIsDroppedSilently).  SearchInv relates the rows kept, the line  *)
(* that is not complete yet and the text still in the pipe to the text the *)
(* process writes.                                                         *)
(*                                                                         *)
(* Of edit: the matches are applied one after the other, from the last to  *)
(* the first, and give what replacing them all at once gives               *)
(* (EditsAreSimultaneous).  The proof goes by the number of edits          *)
(* (AppliedTogether); EditInv says what the file and the request are until *)
(* the edit reads the one and computes the other.                          *)
(*                                                                         *)
(* Of the sandbox backend: no operation runs in a session that is not the  *)
(* ready one (RunsInTheReadySession).  It needs one fact more: a backend   *)
(* that was closed has no cache, because nothing boots behind it.          *)
(*                                                                         *)
(* The lines of a text, their ends and what cutting at them leaves are     *)
(* lemmas that all of these use.                                           *)
(***************************************************************************)
EXTENDS ToolServer, FiniteSetTheorems, SequenceTheorems, WellFoundedInduction, TLAPS

-----------------------------------------------------------------------------
(* The sandbox backend.                                                    *)

GateInv ==
  /\ RunsInTheReadySession
  /\ closed \in BOOLEAN
  /\ closed => service = "stopped"

LEMMA GateStarts == GateInit => GateInv
<1> SUFFICES ASSUME GateInit PROVE GateInv
  OBVIOUS
<1>1. ran.live
  <2>1. ran.live = TRUE
    BY DEF GateInit
  <2> QED
    BY <2>1
<1> QED
  BY <1>1 DEF GateInit, GateInv, RunsInTheReadySession

LEMMA GateKeeps == GateInv /\ GateNext => GateInv'
<1> SUFFICES ASSUME GateInv, GateNext PROVE GateInv'
  OBVIOUS
<1> USE DEF GateInv, RunsInTheReadySession, NoSession
<1>1. CASE Boots
  BY <1>1 DEF Boots, OnTransition
<1>2. CASE BootEnds
  BY <1>2 DEF BootEnds, OnTransition
<1>3. CASE Stops
  BY <1>3 DEF Stops, OnTransition
<1>4. CASE Calls
  BY <1>4 DEF Calls
<1>5. CASE GateAnswers
  <2>1. ran.live
    OBVIOUS
  <2>2. ran'.live
    <3>1. CASE service = "ready"
      <4>1. ran'.live = TRUE
        BY <1>5, <3>1 DEF GateAnswers
      <4> QED
        BY <4>1
    <3>2. CASE service # "ready"
      BY <1>5, <3>2, <2>1 DEF GateAnswers
    <3> QED
      BY <3>1, <3>2
  <2> QED
    BY <1>5, <2>2 DEF GateAnswers, Ready
<1>6. CASE Probe
  <2>1. ran.live /\ (cached # 0 => service = "ready" /\ cached = session)
    OBVIOUS
  <2>2. ran'.live
    <3>1. CASE cached = 0
      BY <1>6, <3>1, <2>1 DEF Probe
    <3>2. CASE cached # 0
      <4>1. ran'.live = (service = "ready" /\ cached = session)
        BY <1>6, <3>2 DEF Probe
      <4> QED
        BY <4>1, <3>2, <2>1
    <3> QED
      BY <3>1, <3>2
  <2> QED
    BY <1>6, <2>1, <2>2 DEF Probe
<1>7. CASE CloseBackend
  BY <1>7 DEF CloseBackend
<1> QED
  BY <1>1, <1>2, <1>3, <1>4, <1>5, <1>6, <1>7 DEF GateNext

LEMMA GateRests == GateInv /\ UNCHANGED gateVars => GateInv'
BY DEF GateInv, RunsInTheReadySession, gateVars

-----------------------------------------------------------------------------
(* The output accumulator: what its operators do to the bytes it keeps.    *)

AccFields == {"pending", "tail", "atLine", "decoded", "completed",
              "lineBytes", "open", "chunks", "spilled", "finished"}

IsAcc(a) == a = [x \in AccFields |-> a[x]]

AreFiles(fs) == fs = [p \in Paths |-> fs[p]]

\* Text that is decoded changes the tail and the counters, not the bytes that are kept.
SameBytes(a, b) ==
  /\ IsAcc(b)
  /\ b.chunks = a.chunks /\ b.spilled = a.spilled /\ b.finished = a.finished

LEMMA TrimKeepsBytes ==
  ASSUME NEW a, IsAcc(a)
  PROVE  SameBytes(a, trimTail(a))
BY DEF trimTail, SameBytes, IsAcc, AccFields

LEMMA DecodingKeepsBytes ==
  ASSUME NEW a, IsAcc(a), NEW text
  PROVE  SameBytes(a, appendDecodedText(a, text))
<1> DEFINE grown == [a EXCEPT !.decoded = @ + Len(text), !.tail = @ \o text]
           kept  == IF Len(grown.tail) > maxRollingBytes * 2 THEN trimTail(grown) ELSE grown
<1>1. IsAcc(grown) /\ SameBytes(a, grown)
  BY DEF SameBytes, IsAcc, AccFields
<1>2. SameBytes(grown, trimTail(grown))
  BY <1>1, TrimKeepsBytes
<1>3. SameBytes(a, kept)
  BY <1>1, <1>2 DEF SameBytes
<1>4. CASE text = <<>>
  BY <1>4 DEF appendDecodedText, SameBytes
<1>5. CASE text # <<>> /\ {i \in DOMAIN text : text[i] = "nl"} = {}
  <2>1. appendDecodedText(a, text) = [kept EXCEPT !.lineBytes = @ + Len(text), !.open = TRUE]
    BY <1>5 DEF appendDecodedText
  <2> HIDE DEF kept
  <2> QED
    BY <1>3, <2>1 DEF SameBytes, IsAcc, AccFields
<1>6. CASE text # <<>> /\ {i \in DOMAIN text : text[i] = "nl"} # {}
  <2> DEFINE newline == {i \in DOMAIN text : text[i] = "nl"}
  <2>1. appendDecodedText(a, text) = [kept EXCEPT !.completed = @ + Cardinality(newline),
                                                  !.lineBytes = Len(text) - Max(newline),
                                                  !.open = Max(newline) < Len(text)]
    BY <1>6 DEF appendDecodedText
  <2> HIDE DEF kept, newline
  <2> QED
    BY <1>3, <2>1 DEF SameBytes, IsAcc, AccFields
<1> QED
  BY <1>4, <1>5, <1>6

\* The spill file is opened with the bytes kept so far.
Holds(a, fs, bytes) == IF a.spilled THEN fs["bash"] = bytes ELSE a.chunks = bytes

LEMMA SpillingKeepsBytes ==
  ASSUME NEW a, IsAcc(a), NEW fs, AreFiles(fs), NEW bytes,
         Holds(a, fs, bytes)
  PROVE  LET r == ensureTempFile(a, fs)
         IN  /\ IsAcc(r[1]) /\ r[1].spilled /\ r[1].finished = a.finished
             /\ AreFiles(r[2]) /\ r[2]["bash"] = bytes
<1> DEFINE r == ensureTempFile(a, fs)
<1>1. CASE a.spilled
  BY <1>1 DEF ensureTempFile, Holds
<1>2. CASE ~a.spilled
  <2> DEFINE b == [a EXCEPT !.spilled = TRUE, !.chunks = <<>>]
             gs == [fs EXCEPT !["bash"] = a.chunks]
  <2>1. r = <<b, gs>>
    BY <1>2 DEF ensureTempFile
  <2>2. IsAcc(b) /\ b.spilled = TRUE /\ b.finished = a.finished
    BY DEF IsAcc, AccFields
  <2>3. AreFiles(gs) /\ gs["bash"] = bytes
    BY <1>2 DEF Holds, Paths, AreFiles
  <2> HIDE DEF b, gs, r
  <2>4. r[1] = b /\ r[2] = gs
    BY <2>1
  <2> USE DEF r
  <2> QED
    BY <2>2, <2>3, <2>4
<1> QED
  BY <1>1, <1>2

\* append() of the host adds the chunk where the bytes are.
LEMMA AppendingKeepsBytes ==
  ASSUME NEW a, IsAcc(a), NEW fs, AreFiles(fs), NEW data,
         kind = "local", Holds(a, fs, raw),
         NEW r, r = Append_(a, fs, data)
  PROVE  /\ IsAcc(r[1]) /\ r[1].finished = a.finished
         /\ AreFiles(r[2]) /\ Holds(r[1], r[2], raw \o data)
<1> DEFINE d == Decode(a, data)
           text == d.text
           decoded == appendDecodedText(a, text)
           after == [decoded EXCEPT !.pending = d.pending]
           spill == ensureTempFile(after, fs)
<1>1. SameBytes(a, decoded)
  BY DecodingKeepsBytes
<1>2. IsAcc(after) /\ after.chunks = a.chunks /\ after.spilled = a.spilled /\ after.finished = a.finished
  <2> HIDE DEF decoded, d
  <2> QED
    BY <1>1 DEF SameBytes, IsAcc, AccFields
<1>3. r = IF after.spilled \/ shouldUseTempFile(after, Len(raw) + Len(data))
          THEN <<spill[1], [spill[2] EXCEPT !["bash"] = @ \o data]>>
          ELSE <<[after EXCEPT !.chunks = @ \o data], fs>>
  BY DEF Append_
<1> HIDE DEF after
<1>4. Holds(after, fs, raw)
  BY <1>2 DEF Holds
<1>5. /\ IsAcc(spill[1]) /\ spill[1].spilled /\ spill[1].finished = after.finished
      /\ AreFiles(spill[2]) /\ spill[2]["bash"] = raw
  BY <1>2, <1>4, SpillingKeepsBytes
<1> HIDE DEF spill
<1>6. CASE after.spilled \/ shouldUseTempFile(after, Len(raw) + Len(data))
  <2> DEFINE gs == [spill[2] EXCEPT !["bash"] = @ \o data]
  <2>1. AreFiles(gs) /\ gs["bash"] = raw \o data
    BY <1>5 DEF Paths, AreFiles
  <2>2. r[1] = spill[1] /\ r[2] = gs
    <3>1. r = <<spill[1], gs>>
      BY <1>3, <1>6
    <3> HIDE DEF gs
    <3> QED
      BY <3>1
  <2> QED
    BY <1>2, <1>5, <2>1, <2>2 DEF Holds
<1>7. CASE ~(after.spilled \/ shouldUseTempFile(after, Len(raw) + Len(data)))
  <2> DEFINE b == [after EXCEPT !.chunks = @ \o data]
  <2>1. r[1] = b /\ r[2] = fs
    BY <1>3, <1>7
  <2>2. IsAcc(b) /\ b.chunks = after.chunks \o data /\ b.spilled = after.spilled /\ b.finished = after.finished
    BY <1>2 DEF IsAcc, AccFields
  <2>3. after.chunks = raw
    BY <1>4, <1>7 DEF Holds
  <2>4. ~b.spilled
    BY <1>7, <2>2
  <2> QED
    BY <1>2, <2>1, <2>2, <2>3, <2>4 DEF Holds
<1> QED
  BY <1>6, <1>7

\* In the guest append() leaves the files alone.
LEMMA AppendingInTheGuest ==
  ASSUME NEW a, IsAcc(a), NEW fs, NEW data, kind = "vm", NEW r, r = Append_(a, fs, data)
  PROVE  IsAcc(r[1]) /\ r[2] = fs
<1> DEFINE d == Decode(a, data)
           text == d.text
           decoded == appendDecodedText(a, text)
           after == [decoded EXCEPT !.pending = d.pending]
<1>1. SameBytes(a, decoded)
  BY DecodingKeepsBytes
<1>2. IsAcc(after)
  <2> HIDE DEF decoded, d
  <2> QED
    BY <1>1 DEF SameBytes, IsAcc, AccFields
<1>3. r = <<after, fs>>
  BY DEF Append_
<1> QED
  BY <1>2, <1>3


\* finish() marks the accumulator, and spills when the output is over a limit.
LEMMA FinishingKeepsBytes ==
  ASSUME NEW a, IsAcc(a), NEW fs, AreFiles(fs),
         kind = "local", Holds(a, fs, raw),
         NEW r, r = Finish_(a, fs)
  PROVE  /\ IsAcc(r[1]) /\ r[1].finished
         /\ AreFiles(r[2]) /\ Holds(r[1], r[2], raw)
<1> DEFINE flushed == IF a.pending THEN appendDecodedText(a, <<"r", "c", "c">>) ELSE a
           after == [flushed EXCEPT !.pending = FALSE, !.finished = TRUE]
<1>1. IsAcc(flushed) /\ flushed.chunks = a.chunks /\ flushed.spilled = a.spilled
  BY DecodingKeepsBytes DEF SameBytes
<1>2. IsAcc(after) /\ after.chunks = a.chunks /\ after.spilled = a.spilled /\ after.finished = TRUE
  <2> HIDE DEF flushed
  <2> QED
    BY <1>1 DEF IsAcc, AccFields
<1>3. r = IF shouldUseTempFile(after, Len(raw)) THEN ensureTempFile(after, fs) ELSE <<after, fs>>
  BY DEF Finish_
<1> HIDE DEF after
<1>4. Holds(after, fs, raw)
  BY <1>2 DEF Holds
<1>5. CASE shouldUseTempFile(after, Len(raw))
  <2>1. r = ensureTempFile(after, fs)
    BY <1>3, <1>5
  <2>2a. LET q == ensureTempFile(after, fs)
         IN  /\ IsAcc(q[1]) /\ q[1].spilled /\ q[1].finished = after.finished
             /\ AreFiles(q[2]) /\ q[2]["bash"] = raw
    BY <1>2, <1>4, SpillingKeepsBytes
  <2>2. IsAcc(r[1]) /\ r[1].spilled /\ r[1].finished = after.finished
        /\ AreFiles(r[2]) /\ r[2]["bash"] = raw
    BY <2>1, <2>2a
  <2>3. r[1].finished = TRUE
    BY <1>2, <2>2
  <2> QED
    BY <2>2, <2>3 DEF Holds
<1>6. CASE ~shouldUseTempFile(after, Len(raw))
  <2>1. r = <<after, fs>>
    BY <1>3, <1>6
  <2> QED
    BY <1>2, <1>4, <2>1
<1> QED
  BY <1>5, <1>6

LEMMA FinishingInTheGuest ==
  ASSUME NEW a, IsAcc(a), NEW fs, kind = "vm", NEW r, r = Finish_(a, fs)
  PROVE  IsAcc(r[1]) /\ r[2] = fs
<1> DEFINE flushed == IF a.pending THEN appendDecodedText(a, <<"r", "c", "c">>) ELSE a
           after == [flushed EXCEPT !.pending = FALSE, !.finished = TRUE]
<1>1. IsAcc(flushed)
  BY DecodingKeepsBytes DEF SameBytes
<1>2. IsAcc(after)
  <2> HIDE DEF flushed
  <2> QED
    BY <1>1 DEF IsAcc, AccFields
<1>3. r = <<after, fs>>
  BY DEF Finish_
<1> QED
  BY <1>2, <1>3

\* The path of an answer is that of the spill file or none, and none for an answer that
\* was not cut.
LEMMA OnlyACutAnswerNamesAFile ==
  ASSUME NEW result, NEW a
  PROVE  Answer(result, snapshot(a)).path # "none" => snapshot(a).truncated
<1> DEFINE s == snapshot(a)
           shaped == formatOutput(s)
           stated == [shaped EXCEPT !.status = StatusOf(result), !.ok = StatusOf(result) = "ok"]
           refused == [NoAnswer EXCEPT !.status = "rejected"]
<1> HIDE DEF s
<1>1. shaped.path = (IF s.truncated THEN "bash" ELSE "none") /\ "path" \in DOMAIN shaped
  BY DEF formatOutput, NoAnswer
<1>2. stated.path = shaped.path
  <2> HIDE DEF shaped
  <2> QED
    BY <1>1
<1>3. refused.path = "none"
  BY DEF NoAnswer
<1>4. Answer(result, s) = IF result = Rejected THEN refused ELSE stated
  BY DEF Answer
<1> HIDE DEF stated, refused
<1>5. Answer(result, s).path # "none" => s.truncated
  BY <1>1, <1>2, <1>3, <1>4
<1> QED
  BY <1>5 DEF s

-----------------------------------------------------------------------------
(* One call of bash.                                                       *)

\* Where every byte is that the call has received.  An answer that names a file has
\* finished the accumulator, so that no chunk is taken after it, and on the host it has
\* opened the file.
KeepsTheBytes ==
  /\ kind \in {"local", "vm"}
  /\ IsAcc(acc) /\ AreFiles(files) /\ DOMAIN child = DOMAIN NoChild
  /\ bash = "idle" => /\ raw = <<>> /\ acc = NewAccumulator
                      /\ ~child.pipe /\ answer.path = "none"
  /\ bash = "running" => answer.path = "none"
  /\ kind = "local" => Holds(acc, files, raw)
  /\ kind = "local" /\ answer.path # "none" => acc.spilled /\ acc.finished
  /\ kind = "vm" /\ (child.pipe \/ bash = "running" \/ answer.path # "none") => files["runShell"] = raw

LEMMA TheFileHasTheOutput == KeepsTheBytes => FullOutputIsKept
BY DEF KeepsTheBytes, FullOutputIsKept, Holds


LEMMA BashStarts == BashInit => KeepsTheBytes
<1> SUFFICES ASSUME BashInit PROVE KeepsTheBytes
  OBVIOUS
<1>1. child.pipe = FALSE /\ answer.path = "none" /\ DOMAIN child = DOMAIN NoChild
  BY DEF BashInit, NoChild, NoAnswer
<1>2. IsAcc(acc) /\ acc.spilled = FALSE /\ acc.chunks = <<>>
  BY DEF BashInit, NewAccumulator, IsAcc, AccFields
<1>3. AreFiles(files)
  BY DEF BashInit, AreFiles
<1> QED
  BY <1>1, <1>2, <1>3 DEF BashInit, KeepsTheBytes, Holds

\* Both ways of a call to settle: the accumulator is flushed, and an answer that was cut
\* has its file.
LEMMA SettlingKeepsTheBytes ==
  ASSUME KeepsTheBytes, bash = "running", NEW result, Settle(result),
         UNCHANGED <<kind, raw>>,
         kind = "vm" => ~child'.pipe, DOMAIN child' = DOMAIN NoChild
  PROVE  KeepsTheBytes'
<1> DEFINE f == Finish_(acc, files)
           s == snapshot(f[1])
           g == IF kind = "local" /\ s.truncated THEN ensureTempFile(f[1], f[2]) ELSE f
<1>1. acc' = g[1] /\ files' = g[2] /\ answer' = Answer(result, s) /\ bash' = "closing"
  BY DEF Settle
<1>2. answer'.path # "none" => s.truncated
  BY <1>1, OnlyACutAnswerNamesAFile
<1>3. CASE kind = "local"
  <2>1. /\ IsAcc(f[1]) /\ f[1].finished
        /\ AreFiles(f[2]) /\ Holds(f[1], f[2], raw)
    BY <1>3, FinishingKeepsBytes DEF KeepsTheBytes
  <2> HIDE DEF f, s
  <2>2. CASE s.truncated
    <3>1. g = ensureTempFile(f[1], f[2])
      BY <1>3, <2>2
    <3>2. /\ IsAcc(g[1]) /\ g[1].spilled /\ g[1].finished = f[1].finished
          /\ AreFiles(g[2]) /\ g[2]["bash"] = raw
      <4>1. LET q == ensureTempFile(f[1], f[2])
            IN  /\ IsAcc(q[1]) /\ q[1].spilled /\ q[1].finished = f[1].finished
                /\ AreFiles(q[2]) /\ q[2]["bash"] = raw
        BY <2>1, SpillingKeepsBytes
      <4> HIDE DEF g
      <4> QED
        BY <3>1, <4>1
    <3> HIDE DEF g
    <3>3. acc'.finished
      BY <1>1, <2>1, <3>2
    <3> QED
      BY <1>1, <1>3, <3>2, <3>3 DEF KeepsTheBytes, Holds
  <2>3. CASE ~s.truncated
    <3>1. g = f /\ answer'.path = "none"
      BY <1>2, <2>3
    <3> HIDE DEF g
    <3> QED
      BY <1>1, <1>3, <2>1, <3>1 DEF KeepsTheBytes, Holds
  <2> QED
    BY <2>2, <2>3
<1>4. CASE kind = "vm"
  <2>1. IsAcc(f[1]) /\ f[2] = files
    BY <1>4, FinishingInTheGuest DEF KeepsTheBytes
  <2>2. g = f
    BY <1>4
  <2>3. files["runShell"] = raw
    BY <1>4 DEF KeepsTheBytes
  <2> HIDE DEF f, g, s
  <2> QED
    BY <1>1, <1>4, <2>1, <2>2, <2>3 DEF KeepsTheBytes
<1> QED
  BY <1>3, <1>4 DEF KeepsTheBytes

LEMMA DataKeepsTheBytes == KeepsTheBytes /\ Data => KeepsTheBytes'
<1> SUFFICES ASSUME KeepsTheBytes, Data PROVE KeepsTheBytes'
  OBVIOUS
<1>1. child.pipe /\ bash # "idle" /\ UNCHANGED <<kind, child, answer>>
  BY DEF Data, KeepsTheBytes
<1>2. CASE acc.finished
  <2>1. bash' = "crashed" /\ UNCHANGED <<raw, acc, files>>
    BY <1>2 DEF Data
  <2> QED
    BY <1>1, <2>1 DEF KeepsTheBytes, Holds
<1>3. CASE ~acc.finished
  <2>1. PICK data \in Chunks :
          LET r == Append_(acc, files, data)
          IN  /\ acc' = r[1]
              /\ files' = IF kind = "vm" THEN [r[2] EXCEPT !["runShell"] = @ \o data] ELSE r[2]
              /\ raw' = raw \o data
              /\ UNCHANGED bash
    BY <1>3 DEF Data
  <2> DEFINE r == Append_(acc, files, data)
  <2>2. CASE kind = "local"
    <3>1. /\ IsAcc(r[1])
          /\ AreFiles(r[2]) /\ Holds(r[1], r[2], raw \o data)
      BY <2>2, AppendingKeepsBytes DEF KeepsTheBytes
    <3> HIDE DEF r
    <3>2. acc' = r[1] /\ files' = r[2] /\ raw' = raw \o data /\ UNCHANGED bash
      BY <2>1, <2>2 DEF r
    <3>3. answer.path = "none"
      BY <1>3, <2>2 DEF KeepsTheBytes
    <3> QED
      BY <1>1, <2>2, <3>1, <3>2, <3>3 DEF KeepsTheBytes, Holds
  <2>3. CASE kind = "vm"
    <3>1. IsAcc(r[1]) /\ r[2] = files
      BY <2>3, AppendingInTheGuest DEF KeepsTheBytes
    <3> HIDE DEF r
    <3>2. /\ acc' = r[1] /\ files' = [files EXCEPT !["runShell"] = @ \o data]
          /\ raw' = raw \o data /\ UNCHANGED bash
      BY <2>1, <2>3, <3>1 DEF r
    <3>3. AreFiles(files') /\ files'["runShell"] = raw'
      BY <1>1, <2>3, <3>2 DEF KeepsTheBytes, Paths, AreFiles
    <3> QED
      BY <1>1, <2>3, <3>1, <3>2, <3>3 DEF KeepsTheBytes
  <2> QED
    BY <2>2, <2>3 DEF KeepsTheBytes
<1> QED
  BY <1>2, <1>3


LEMMA BashKeeps == KeepsTheBytes /\ BashNext => KeepsTheBytes'
<1> SUFFICES ASSUME KeepsTheBytes, BashNext PROVE KeepsTheBytes'
  OBVIOUS
<1>1. CASE Precheck
  <2>1. answer'.path = "none"
    BY <1>1 DEF Precheck, NoAnswer
  <2> QED
    BY <1>1, <2>1 DEF Precheck, KeepsTheBytes, Holds
<1>2. CASE Execute
  <2>1. /\ bash = "idle" /\ bash' = "running" /\ UNCHANGED <<kind, raw, acc, answer>>
        /\ files' = IF kind = "vm" THEN [files EXCEPT !["runShell"] = <<>>] ELSE files
    BY <1>2 DEF Execute
  <2>0. DOMAIN child' = DOMAIN NoChild
    BY <1>2 DEF Execute, NoChild
  <2>2. CASE kind = "local"
    <3>1. UNCHANGED files
      BY <2>1, <2>2
    <3> QED
      BY <2>0, <2>1, <2>2, <3>1 DEF KeepsTheBytes, Holds
  <2>3. CASE kind = "vm"
    <3>1. AreFiles(files') /\ files'["runShell"] = <<>>
      BY <2>1, <2>3 DEF KeepsTheBytes, AreFiles, Paths
    <3> QED
      BY <2>0, <2>1, <2>3, <3>1 DEF KeepsTheBytes
  <2> QED
    BY <2>2, <2>3 DEF KeepsTheBytes
<1>3. CASE Data
  BY <1>3, DataKeepsTheBytes
<1>4. CASE Timeout
  <2>1. child'.pipe = child.pipe /\ DOMAIN child' = DOMAIN child /\ bash = "running" /\ UNCHANGED <<bash, kind, raw, acc, files, answer>>
    BY <1>4 DEF Timeout, KeepsTheBytes, NoChild
  <2> QED
    BY <2>1 DEF KeepsTheBytes, Holds
<1>5. CASE ExitLocal
  <2>1. kind = "local" /\ bash = "running" /\ UNCHANGED <<kind, raw>>
    BY <1>5 DEF ExitLocal
  <2>2. PICK code \in ExitCodes :
          LET result == IF child.timedOut THEN Result(-1, TRUE) ELSE Result(code, FALSE)
          IN  /\ Settle(result)
              /\ child' = [child EXCEPT !.alive = FALSE, !.result = result]
    BY <1>5 DEF ExitLocal
  <2>3. DOMAIN child' = DOMAIN NoChild
    BY <2>2 DEF KeepsTheBytes
  <2> QED
    BY <2>1, <2>2, <2>3, SettlingKeepsTheBytes
<1>6. CASE CloseVm
  <2>1. kind = "vm" /\ bash = "running" /\ UNCHANGED <<kind, raw>>
    BY <1>6 DEF CloseVm
  <2>2. PICK code \in ExitCodes \cup {124, 255} :
       /\ child.timedOut => code \in {124, 255}
       /\ LET result == IF code = 255 THEN Rejected
                        ELSE IF code = 124 THEN Result(-1, TRUE) ELSE Result(code, FALSE)
          IN  /\ Settle(result)
              /\ child' = [child EXCEPT !.alive = FALSE, !.pipe = FALSE, !.result = result]
    BY <1>6 DEF CloseVm
  <2> DEFINE result == IF code = 255 THEN Rejected
                       ELSE IF code = 124 THEN Result(-1, TRUE) ELSE Result(code, FALSE)
  <2>3. ~child'.pipe /\ DOMAIN child' = DOMAIN NoChild
    BY <2>2 DEF KeepsTheBytes, NoChild
  <2>4. Settle(result)
    BY <2>2
  <2> HIDE DEF result
  <2> QED
    BY <2>1, <2>3, <2>4, SettlingKeepsTheBytes
<1>7. CASE SpawnError
  <2>1. bash = "running" /\ UNCHANGED <<kind, raw>> /\ Settle(Rejected)
    BY <1>7 DEF SpawnError
  <2>2. ~child'.pipe /\ DOMAIN child' = DOMAIN NoChild
    BY <1>7 DEF SpawnError, KeepsTheBytes, NoChild
  <2> QED
    BY <2>1, <2>2, SettlingKeepsTheBytes
<1>8. CASE PipesClose
  <2>1. bash # "idle" /\ child.pipe /\ UNCHANGED <<bash, kind, raw, acc, files, answer>>
    BY <1>8 DEF PipesClose, KeepsTheBytes
  <2>2. DOMAIN child' = DOMAIN child /\ ~child'.pipe
    BY <1>8 DEF PipesClose, KeepsTheBytes, NoChild
  <2> QED
    BY <2>1, <2>2 DEF KeepsTheBytes, Holds
<1>9. CASE Return
  BY <1>9 DEF Return, KeepsTheBytes, Holds
<1> QED
  BY <1>1, <1>2, <1>3, <1>4, <1>5, <1>6, <1>7, <1>8, <1>9 DEF BashNext

LEMMA BashRests == KeepsTheBytes /\ UNCHANGED bashVars => KeepsTheBytes'
BY DEF KeepsTheBytes, Holds, bashVars

-----------------------------------------------------------------------------
(* The k-th smallest of a finite set of positions.                        *)

\* The place of i among the members of S.
Rank(S, i) == Cardinality({j \in S : j <= i})

LEMMA RankGrows ==
  ASSUME NEW S \in SUBSET Nat, IsFiniteSet(S), NEW i \in S, NEW k \in S, i < k
  PROVE  Rank(S, i) < Rank(S, k)
<1> DEFINE A == {j \in S : j <= i}
           B == {j \in S : j <= k}
<1>1. A \subseteq B /\ B \subseteq S /\ k \in B /\ k \notin A
  <2>1. \A j \in S : j <= i => j <= k
    OBVIOUS
  <2>2. k <= k /\ ~(k <= i)
    OBVIOUS
  <2> QED
    BY <2>1, <2>2
<1>2. IsFiniteSet(B) /\ Cardinality(B) \in Nat
  BY <1>1, FS_Subset, FS_CardinalityType
<1>3. Cardinality(A) <= Cardinality(B) /\ (Cardinality(B) = Cardinality(A) => B = A) /\ Cardinality(A) \in Nat
  BY <1>1, <1>2, FS_Subset, FS_CardinalityType
<1> HIDE DEF A, B
<1>4. Cardinality(A) < Cardinality(B)
  BY <1>1, <1>2, <1>3
<1> QED
  BY <1>4 DEF A, B, Rank

LEMMA RankFits ==
  ASSUME NEW S \in SUBSET Nat, IsFiniteSet(S), NEW i \in S
  PROVE  Rank(S, i) \in 1..Cardinality(S)
<1> DEFINE A == {j \in S : j <= i}
<1>1. A \subseteq S /\ i \in A
  OBVIOUS
<1> HIDE DEF A
<1>2. IsFiniteSet(A) /\ Cardinality(A) <= Cardinality(S) /\ Cardinality(S) \in Nat
  BY <1>1, FS_Subset, FS_CardinalityType
<1>3. Cardinality(A) \in Nat /\ Cardinality(A) # 0
  BY <1>1, <1>2, FS_CardinalityType, FS_EmptySet
<1> QED
  BY <1>2, <1>3 DEF A, Rank

\* Every place in the order of a finite set is somebody's: the ranks differ and
\* there are as many of them as places.
LEMMA RankIsReached ==
  ASSUME NEW S \in SUBSET Nat, IsFiniteSet(S), NEW n \in 1..Cardinality(S)
  PROVE  \E i \in S : Rank(S, i) = n
<1> SUFFICES ASSUME \A i \in S : Rank(S, i) # n PROVE FALSE
  OBVIOUS
<1> DEFINE N == Cardinality(S)
           T == (1..N) \ {n}
           rank == [i \in S |-> Rank(S, i)]
<1>1. N \in Nat
  BY FS_CardinalityType
<1>2. IsFiniteSet(1..N) /\ Cardinality(1..N) = N
  BY <1>1, FS_Interval
<1>3. IsFiniteSet(T) /\ Cardinality(T) = N - 1
  <2> DEFINE U == 1..N
  <2>1. IsFiniteSet(U) /\ Cardinality(U) = N /\ n \in U
    BY <1>2
  <2> HIDE DEF U, N
  <2>2. IsFiniteSet(U \ {n}) /\ Cardinality(U \ {n}) = Cardinality(U) - 1
    BY ONLY <2>1, FS_RemoveElement
  <2> QED
    BY <2>1, <2>2 DEF U
<1>4. rank \in [S -> T] /\ \A i \in S : rank[i] = Rank(S, i)
  BY RankFits
<1> HIDE DEF T, N, rank
<1>5. Cardinality(T) < Cardinality(S)
  BY <1>1, <1>3 DEF N
<1>6. \E x, y \in S : x # y /\ rank[x] = rank[y]
  <2>1. \A f \in [S -> T] : \E x, y \in S : x # y /\ f[x] = f[y]
    BY ONLY <1>3, <1>5, IsFiniteSet(S), FS_PigeonHole
  <2> QED
    BY <1>4, <2>1
<1>7. PICK x \in S, y \in S : x < y /\ rank[x] = rank[y]
  BY <1>6
<1>8. rank[x] < rank[y] /\ rank[x] \in Nat
  BY <1>4, <1>7, RankGrows, RankFits
<1> QED
  BY <1>7, <1>8

LEMMA LeastNumber ==
  ASSUME NEW A \in SUBSET Nat, A # {}
  PROVE  \E n \in A : \A m \in A : n <= m
<1> DEFINE Below == {0 .. n : n \in A}
<1>1. Below \subseteq FiniteSubsetsOf(Nat) /\ Below # {}
  <2>1. ASSUME NEW n \in A PROVE 0 .. n \in FiniteSubsetsOf(Nat)
    <3>1. IsFiniteSet(0 .. n)
      BY FS_Interval
    <3> QED
      BY <3>1 DEF FiniteSubsetsOf
  <2> QED
    BY <2>1
<1>2. IsWellFoundedOn(StrictSubsetOrdering(Nat), FiniteSubsetsOf(Nat))
  BY FS_StrictSubsetOrderingWellFounded
<1>3. PICK B \in Below : \A C \in Below : ~(<<C, B>> \in StrictSubsetOrdering(Nat))
  <2> HIDE DEF Below
  <2> QED
    BY <1>1, <1>2, WFMin
<1>4. PICK n \in A : B = 0 .. n
  OBVIOUS
<1>5. ASSUME NEW m \in A, m < n PROVE FALSE
  <2>1. 0 .. m \in Below /\ 0 .. m \subseteq 0 .. n /\ 0 .. m # 0 .. n /\ 0 .. m \subseteq Nat /\ 0 .. n \subseteq Nat
    <3>1. n \in 0 .. n /\ n \notin 0 .. m
      BY <1>5
    <3> QED
      BY <1>5, <3>1
  <2>2. <<0 .. m, 0 .. n>> \in StrictSubsetOrdering(Nat)
    BY <2>1 DEF StrictSubsetOrdering
  <2> QED
    BY <1>3, <1>4, <2>1, <2>2
<1> QED
  BY <1>5

LEMMA NthIs ==
  ASSUME NEW S \in SUBSET Nat, IsFiniteSet(S), NEW n \in 1 .. Cardinality(S)
  PROVE  Nth(S, n) \in S /\ Rank(S, Nth(S, n)) = n
<1> DEFINE at == CHOOSE i \in S : Rank(S, i) = n
<1>1. at \in S /\ Rank(S, at) = n
  BY RankIsReached
<1>2. Nth(S, n) = at
  BY DEF Nth, Rank
<1> HIDE DEF at
<1> QED
  BY <1>1, <1>2

LEMMA NthGrows ==
  ASSUME NEW S \in SUBSET Nat, IsFiniteSet(S), NEW i \in 1 .. Cardinality(S), NEW j \in 1 .. Cardinality(S), i < j
  PROVE  Nth(S, i) < Nth(S, j)
<1>1. /\ Nth(S, i) \in S /\ Rank(S, Nth(S, i)) = i
      /\ Nth(S, j) \in S /\ Rank(S, Nth(S, j)) = j
  BY NthIs
<1>2. Nth(S, i) \in Nat /\ Nth(S, j) \in Nat
  BY <1>1
<1>3. ~(Nth(S, j) < Nth(S, i))
  BY <1>1, <1>2, RankGrows
<1> QED
  BY <1>1, <1>2, <1>3

LEMMA NthReaches ==
  ASSUME NEW S \in SUBSET Nat, IsFiniteSet(S), NEW x \in S
  PROVE  \E n \in 1 .. Cardinality(S) : Nth(S, n) = x
<1> DEFINE n == Rank(S, x)
<1>1. n \in 1 .. Cardinality(S)
  BY RankFits
<1>2. Nth(S, n) \in S /\ Rank(S, Nth(S, n)) = n
  BY <1>1, NthIs
<1>3. Nth(S, n) = x
  <2>1. Nth(S, n) \in Nat /\ x \in Nat
    BY <1>2
  <2>2. ~(Nth(S, n) < x) /\ ~(x < Nth(S, n))
    <3> DEFINE y == Nth(S, n)
    <3>1. y \in S /\ Rank(S, y) = Rank(S, x) /\ Rank(S, x) \in Int
      BY <1>1, <1>2
    <3> HIDE DEF y, n
    <3>2. (y < x => Rank(S, y) < Rank(S, x)) /\ (x < y => Rank(S, x) < Rank(S, y))
      BY <3>1, RankGrows
    <3> QED
      BY <3>1, <3>2 DEF y
  <2> QED
    BY <2>1, <2>2
<1> QED
  BY <1>1, <1>3

\* Three texts are joined in either order.
Regroups(x, y, z) == (x \o y) \o z = x \o (y \o z)

LEMMA Regroup ==
  ASSUME NEW T, NEW x \in Seq(T), NEW y \in Seq(T), NEW z \in Seq(T)
  PROVE  Regroups(x, y, z)
BY ONLY x \in Seq(T), y \in Seq(T), z \in Seq(T), ConcatAssociative DEF Regroups

\* What joining two texts gives.
JoinOf(T, x, y) ==
  /\ x \o y \in Seq(T) /\ Len(x \o y) = Len(x) + Len(y)
  /\ \A i \in 1 .. Len(x) + Len(y) : (x \o y)[i] = IF i <= Len(x) THEN x[i] ELSE y[i - Len(x)]

LEMMA JoinIs ==
  ASSUME NEW T, NEW x \in Seq(T), NEW y \in Seq(T)
  PROVE  JoinOf(T, x, y)
BY ConcatProperties DEF JoinOf

\* f lists the numbers of S in their order.
Enumerates(f, n, S) ==
  /\ n \in Nat /\ f \in [1 .. n -> S]
  /\ \A i, j \in 1 .. n : i < j => f[i] < f[j]
  /\ \A x \in S : \E i \in 1 .. n : f[i] = x

\* The members of a set in their order: there is only one way to list them.
LEMMA NthIsTheOnly ==
  ASSUME NEW S \in SUBSET Nat, NEW n, NEW f, Enumerates(f, n, S)
  PROVE  IsFiniteSet(S) /\ Cardinality(S) = n /\ \A k \in 1 .. n : Nth(S, k) = f[k]
<1>a. n \in Nat /\ f \in [1 .. n -> S]
  BY DEF Enumerates
<1>b. /\ \A i, j \in 1 .. n : i < j => f[i] < f[j]
      /\ \A x \in S : \E i \in 1 .. n : f[i] = x
  BY DEF Enumerates
<1> USE <1>a, <1>b
<1>0. \A i \in 1 .. n : f[i] \in Nat
  OBVIOUS
<1>1. \A k \in 0 .. n : IsFiniteSet(1 .. k) /\ Cardinality(1 .. k) = k
  BY FS_Interval
<1>2. IsFiniteSet(S) /\ Cardinality(S) = n
  <2>1. f \in Bijection(1 .. n, S)
    <3>1. \A i, j \in 1 .. n : f[i] = f[j] => i = j
      <4> SUFFICES ASSUME NEW i \in 1 .. n, NEW j \in 1 .. n, f[i] = f[j], i # j PROVE FALSE
        OBVIOUS
      <4>1. f[i] \in Nat /\ f[j] \in Nat
        BY <1>0
      <4>2. i < j \/ j < i
        OBVIOUS
      <4>3. f[i] < f[j] \/ f[j] < f[i]
        BY <4>2
      <4> QED
        BY <4>1, <4>3
    <3> QED
      BY <3>1 DEF Bijection, Injection, Surjection, IsInjective
  <2>2. ExistsBijection(1 .. n, S)
    BY <2>1 DEF ExistsBijection
  <2> QED
    BY <1>1, <2>2, FS_Bijection
<1>3. ASSUME NEW k \in 1 .. n PROVE Rank(S, f[k]) = k
  <2> DEFINE A == {j \in S : j <= f[k]}
             g == [i \in 1 .. k |-> f[i]]
  <2>0. \A i \in 1 .. n : f[i] \in Nat /\ (i <= k <=> f[i] <= f[k])
    <3> TAKE i \in 1 .. n
    <3>1. f[i] \in Nat /\ f[k] \in Nat
      BY <1>0
    <3>2. i < k \/ k < i \/ i = k
      OBVIOUS
    <3> QED
      BY <3>1, <3>2
  <2>1. g \in Bijection(1 .. k, A)
    <3>1. g \in [1 .. k -> A]
      BY <2>0
    <3>2. \A i, j \in 1 .. k : g[i] = g[j] => i = j
      <4> SUFFICES ASSUME NEW i \in 1 .. k, NEW j \in 1 .. k, g[i] = g[j], i # j PROVE FALSE
        OBVIOUS
      <4>1. i \in 1 .. n /\ j \in 1 .. n /\ f[i] = f[j] /\ f[i] \in Nat
        BY <2>0
      <4>2. i < j \/ j < i
        OBVIOUS
      <4> QED
        BY <4>1, <4>2
    <3>3. \A x \in A : \E i \in 1 .. k : g[i] = x
      <4> TAKE x \in A
      <4>1. PICK i \in 1 .. n : f[i] = x
        OBVIOUS
      <4>2. i \in 1 .. k
        BY <2>0, <4>1
      <4> QED
        BY <4>1, <4>2
    <3> HIDE DEF A, g
    <3> QED
      BY <3>1, <3>2, <3>3 DEF Bijection, Injection, Surjection, IsInjective
  <2> HIDE DEF A, g
  <2>2. ExistsBijection(1 .. k, A)
    BY <2>1 DEF ExistsBijection
  <2>3. Cardinality(A) = k
    BY <1>1, <2>2, FS_Bijection
  <2> QED
    BY <2>3 DEF A, Rank
<1>4. ASSUME NEW k \in 1 .. n PROVE Nth(S, k) = f[k]
  <2>1. k \in 1 .. Cardinality(S)
    BY <1>2
  <2>2. Nth(S, k) \in S /\ Rank(S, Nth(S, k)) = k
    BY <1>2, <2>1, NthIs
  <2>3. PICK i \in 1 .. n : f[i] = Nth(S, k)
    BY <2>2
  <2>4. Rank(S, f[i]) = i
    BY <1>3
  <2> QED
    BY <2>2, <2>3, <2>4
<1> QED
  BY <1>2, <1>4

-----------------------------------------------------------------------------
(* The lines of a text, and what truncating it from the head keeps.       *)

LEMMA EndsAre ==
  ASSUME NEW T, NEW s \in Seq(T)
  PROVE  /\ LineEnds(s) \in SUBSET Nat /\ IsFiniteSet(LineEnds(s))
         /\ LineCount(s) \in Nat \ {0}
         /\ \A i : i \in LineEnds(s) <=> i \in 1 .. Len(s) + 1 /\ (i <= Len(s) => s[i] = "nl")
<1>1. Len(s) \in Nat /\ DOMAIN s = 1 .. Len(s)
  OBVIOUS
<1>2. ASSUME NEW i PROVE i \in LineEnds(s) <=> i \in 1 .. Len(s) + 1 /\ (i <= Len(s) => s[i] = "nl")
  BY <1>1 DEF LineEnds
<1>3. LineEnds(s) \in SUBSET (1 .. Len(s) + 1) /\ Len(s) + 1 \in LineEnds(s)
  BY <1>1, <1>2
<1>4. IsFiniteSet(1 .. Len(s) + 1)
  BY <1>1, FS_Interval
<1>5. IsFiniteSet(LineEnds(s))
  BY <1>3, <1>4, FS_Subset
<1>6. Cardinality(LineEnds(s)) \in Nat /\ Cardinality(LineEnds(s)) # 0
  BY <1>3, <1>5, FS_CardinalityType, FS_EmptySet
<1> QED
  BY <1>1, <1>2, <1>3, <1>5, <1>6 DEF LineCount

LEMMA CutsAre ==
  ASSUME NEW T, NEW s \in Seq(T)
  PROVE  /\ Cut(s, 0) = 0
         /\ \A k \in 0 .. LineCount(s) : Cut(s, k) \in 0 .. Len(s) + 1
         /\ \A k \in 1 .. LineCount(s) : Cut(s, k) \in LineEnds(s)
         /\ \A i, j \in 0 .. LineCount(s) : i < j => Cut(s, i) < Cut(s, j)
         /\ \A p \in LineEnds(s) : \E k \in 1 .. LineCount(s) : Cut(s, k) = p
         /\ Cut(s, LineCount(s)) = Len(s) + 1
<1> DEFINE E == LineEnds(s)  N == LineCount(s)
<1>1. /\ E \in SUBSET Nat /\ IsFiniteSet(E) /\ N \in Nat \ {0} /\ N = Cardinality(E)
      /\ \A i : i \in E <=> i \in 1 .. Len(s) + 1 /\ (i <= Len(s) => s[i] = "nl")
      /\ Len(s) \in Nat
  BY EndsAre DEF LineCount
<1>2. Cut(s, 0) = 0 /\ \A k \in 1 .. N : Cut(s, k) = Nth(E, k)
  BY <1>1 DEF Cut
<1> HIDE DEF E, N
<1>3. \A k \in 1 .. N : Cut(s, k) \in E
  BY <1>1, <1>2, NthIs
<1>4. \A k \in 0 .. N : Cut(s, k) \in 0 .. Len(s) + 1
  BY <1>1, <1>2, <1>3
<1>5. ASSUME NEW i \in 0 .. N, NEW j \in 0 .. N, i < j PROVE Cut(s, i) < Cut(s, j)
  <2>1. CASE i = 0
    BY <1>1, <1>2, <1>3, <1>5, <2>1
  <2>2. CASE i # 0
    <3>1. i \in 1 .. N /\ j \in 1 .. N
      BY <1>1, <1>5, <2>2
    <3> QED
      BY <1>1, <1>2, <1>5, <3>1, NthGrows
  <2> QED
    BY <2>1, <2>2
<1>6. ASSUME NEW p \in E PROVE \E k \in 1 .. N : Cut(s, k) = p
  BY <1>1, <1>2, <1>6, NthReaches
<1>7. Cut(s, N) = Len(s) + 1
  <2>1. Len(s) + 1 \in E
    BY <1>1
  <2>2. PICK k \in 1 .. N : Cut(s, k) = Len(s) + 1
    BY <1>6, <2>1
  <2>3. N \in 0 .. N /\ k \in 0 .. N /\ Cut(s, N) \in 0 .. Len(s) + 1
    BY <1>1, <1>4
  <2>4. k = N \/ k < N
    BY <1>1
  <2> QED
    BY <1>1, <1>5, <2>2, <2>3, <2>4
<1> QED
  BY <1>2, <1>3, <1>4, <1>5, <1>6, <1>7 DEF E, N

\* f lists the ends of the n lines of s, and 0 before them.
AreCuts(f, n, s) ==
  /\ n \in Nat \ {0} /\ f \in [0 .. n -> Int] /\ f[0] = 0
  /\ \A k \in 1 .. n : f[k] \in LineEnds(s)
  /\ \A i, j \in 0 .. n : i < j => f[i] < f[j]
  /\ \A p \in LineEnds(s) : \E k \in 1 .. n : f[k] = p

\* There is one way to cut a text.
LEMMA CutsAreTheOnly ==
  ASSUME NEW T, NEW s \in Seq(T), NEW n, NEW f, AreCuts(f, n, s)
  PROVE  LineCount(s) = n /\ \A k \in 0 .. n : Cut(s, k) = f[k]
<1>a. n \in Nat \ {0} /\ f \in [0 .. n -> Int] /\ f[0] = 0
  BY DEF AreCuts
<1>b. /\ \A k \in 1 .. n : f[k] \in LineEnds(s)
      /\ \A i, j \in 0 .. n : i < j => f[i] < f[j]
      /\ \A p \in LineEnds(s) : \E k \in 1 .. n : f[k] = p
  BY DEF AreCuts
<1> USE <1>a, <1>b
<1> DEFINE g == [k \in 1 .. n |-> f[k]]  E == LineEnds(s)
<1>1. E \in SUBSET Nat
  BY EndsAre
<1>2. g \in [1 .. n -> E] /\ \A k \in 1 .. n : g[k] = f[k]
  OBVIOUS
<1>3. /\ \A i, j \in 1 .. n : i < j => g[i] < g[j]
      /\ \A x \in E : \E i \in 1 .. n : g[i] = x
  <2>1. \A i \in 1 .. n : i \in 0 .. n
    OBVIOUS
  <2> QED
    BY <1>2, <2>1
<1> HIDE DEF g, E
<1>4. Cardinality(E) = n /\ \A k \in 1 .. n : Nth(E, k) = g[k]
  <2>1. n \in Nat /\ g \in [1 .. n -> E]
    BY <1>2
  <2>2. \A i, j \in 1 .. n : i < j => g[i] < g[j]
    BY <1>3
  <2>3. \A x \in E : \E i \in 1 .. n : g[i] = x
    BY <1>3
  <2>4. Enumerates(g, n, E)
    BY ONLY <2>1, <2>2, <2>3 DEF Enumerates
  <2> QED
    BY ONLY <1>1, <2>4, NthIsTheOnly
<1>5. LineCount(s) = n
  BY <1>4 DEF LineCount, E
<1>6. ASSUME NEW k \in 0 .. n PROVE Cut(s, k) = f[k]
  <2>1. CASE k = 0
    BY <2>1 DEF Cut
  <2>2. CASE k # 0
    <3>1. k \in 1 .. n
      BY <2>2
    <3> QED
      BY <1>2, <1>4, <2>2, <3>1 DEF Cut, E
  <2> QED
    BY <2>1, <2>2
<1> QED
  BY <1>5, <1>6

LEMMA LinesAre ==
  ASSUME NEW T, NEW s \in Seq(T), NEW i \in 1 .. LineCount(s) + 1, NEW j \in i - 1 .. LineCount(s)
  PROVE  /\ Lines(s, i, j) \in Seq(T)
         /\ Len(Lines(s, i, j)) = IF j = i - 1 THEN 0 ELSE Cut(s, j) - Cut(s, i - 1) - 1
         /\ j = i - 1 => Lines(s, i, j) = <<>>
         /\ \A k \in 1 .. Len(Lines(s, i, j)) : Lines(s, i, j)[k] = s[Cut(s, i - 1) + k] /\ Cut(s, i - 1) + k \in 1 .. Len(s)
<1> DEFINE a == Cut(s, i - 1)  b == Cut(s, j)
<1>1. LineCount(s) \in Nat \ {0}
  BY EndsAre
<1>2. i - 1 \in 0 .. LineCount(s) /\ j \in 0 .. LineCount(s) /\ i \in Int /\ j \in Int /\ (j = i - 1 \/ i - 1 < j)
  BY <1>1
<1>3. a \in 0 .. Len(s) + 1 /\ b \in 0 .. Len(s) + 1 /\ (i - 1 < j => a < b) /\ (j = i - 1 => a = b)
  BY <1>2, CutsAre
<1>4. Len(s) \in Nat /\ \A k \in 1 .. Len(s) : s[k] \in T
  OBVIOUS
<1>5. Lines(s, i, j) = SubSeq(s, a + 1, b - 1)
  BY DEF Lines
<1> HIDE DEF a, b
<1>6. \A k \in a + 1 .. b - 1 : s[k] \in T
  BY <1>3, <1>4
<1>7. /\ SubSeq(s, a + 1, b - 1) \in Seq(T)
      /\ Len(SubSeq(s, a + 1, b - 1)) = IF a + 1 <= b - 1 THEN (b - 1) - (a + 1) + 1 ELSE 0
      /\ \A k \in 1 .. (b - 1) - (a + 1) + 1 : SubSeq(s, a + 1, b - 1)[k] = s[a + 1 + k - 1]
  BY <1>3, <1>4, <1>6, SubSeqProperties
<1>8. Len(SubSeq(s, a + 1, b - 1)) = IF j = i - 1 THEN 0 ELSE b - a - 1
  BY <1>2, <1>3, <1>4, <1>7
<1>9. \A k \in 1 .. Len(SubSeq(s, a + 1, b - 1)) :
         SubSeq(s, a + 1, b - 1)[k] = s[a + k] /\ a + k \in 1 .. Len(s)
  <2> TAKE k \in 1 .. Len(SubSeq(s, a + 1, b - 1))
  <2>1. k \in 1 .. (b - 1) - (a + 1) + 1 /\ a + 1 + k - 1 = a + k /\ a + k \in 1 .. Len(s)
    BY <1>2, <1>3, <1>4, <1>8
  <2> QED
    BY <1>7, <2>1
<1>10. j = i - 1 => SubSeq(s, a + 1, b - 1) = <<>>
  BY <1>3, <1>4, SubSeqEmpty
<1> QED
  BY <1>5, <1>7, <1>8, <1>9, <1>10 DEF a, b

\* The lines of a run of lines are those lines.
LEMMA CutsOfLines ==
  ASSUME NEW T, NEW s \in Seq(T), NEW i \in 1 .. LineCount(s), NEW j \in i .. LineCount(s)
  PROVE  /\ LineCount(Lines(s, i, j)) = j - i + 1
         /\ \A k \in 0 .. j - i + 1 : Cut(Lines(s, i, j), k) = Cut(s, i - 1 + k) - Cut(s, i - 1)
<1> DEFINE t == Lines(s, i, j)  n == j - i + 1  a == Cut(s, i - 1)  C(k) == Cut(s, k)  N == LineCount(s)
           f == [k \in 0 .. n |-> C(i - 1 + k) - a]
<1>1. N \in Nat \ {0} /\ i \in 1 .. N /\ j \in i .. N
  BY EndsAre
<1>2. n \in Nat \ {0} /\ \A k \in 0 .. n : i - 1 + k \in 0 .. N
  BY <1>1
<1>3. /\ \A k \in 0 .. N : C(k) \in 0 .. Len(s) + 1
      /\ \A k \in 1 .. N : C(k) \in LineEnds(s)
      /\ \A k, l \in 0 .. N : k < l => C(k) < C(l)
      /\ \A p \in LineEnds(s) : \E k \in 1 .. N : C(k) = p
  BY CutsAre
<1>4. /\ t \in Seq(T) /\ Len(t) = C(j) - a - 1
      /\ \A k \in 1 .. Len(t) : t[k] = s[a + k]
  <2>1. i \in 1 .. N + 1 /\ j \in i - 1 .. N /\ j # i - 1
    BY <1>1
  <2> QED
    BY <2>1, LinesAre
<1>5. a = C(i - 1) /\ a \in Nat /\ Len(s) \in Nat /\ Len(t) \in Nat /\ C(j) \in Nat
  <2>1. i - 1 \in 0 .. N /\ j \in 0 .. N
    BY <1>1
  <2> QED
    BY <1>3, <1>4, <2>1
<1> HIDE DEF t, n, a, C, N
<1>6. /\ \A p : p \in LineEnds(s) <=> p \in 1 .. Len(s) + 1 /\ (p <= Len(s) => s[p] = "nl")
      /\ \A p : p \in LineEnds(t) <=> p \in 1 .. Len(t) + 1 /\ (p <= Len(t) => t[p] = "nl")
  BY <1>4, EndsAre
<1>7. f \in [0 .. n -> Int] /\ f[0] = 0 /\ \A k \in 0 .. n : f[k] = C(i - 1 + k) - a
  <2>1. \A k \in 0 .. n : C(i - 1 + k) \in Int
    <3>1. \A k \in 0 .. N : C(k) \in Int
      BY <1>3, <1>5
    <3> QED
      BY <1>2, <3>1
  <2>2. 0 \in 0 .. n /\ i - 1 + 0 = i - 1
    BY <1>1, <1>2
  <2> QED
    BY <1>5, <2>1, <2>2
<1> HIDE DEF f
<1>8. C(i - 1 + n) = C(j) /\ n \in 0 .. n
  <2>1. i - 1 + n = j
    BY <1>1 DEF n
  <2> QED
    BY <1>2, <2>1
<1>9. \A k, l \in 0 .. n : k < l => f[k] < f[l]
  <2> SUFFICES ASSUME NEW k \in 0 .. n, NEW l \in 0 .. n, k < l PROVE f[k] < f[l]
    OBVIOUS
  <2>1. i - 1 + k \in 0 .. N /\ i - 1 + l \in 0 .. N /\ i - 1 + k < i - 1 + l
    BY <1>1, <1>2
  <2>2. C(i - 1 + k) < C(i - 1 + l) /\ C(i - 1 + k) \in Int /\ C(i - 1 + l) \in Int
    BY <1>3, <1>5, <2>1
  <2> QED
    BY <1>5, <1>7, <2>2
<1>10. \A k \in 1 .. n : f[k] \in LineEnds(t)
  <2> TAKE k \in 1 .. n
  <2>1. k \in 0 .. n /\ i - 1 + k \in 1 .. N /\ 0 \in 0 .. n /\ 0 < k /\ (k < n \/ k = n)
    BY <1>1, <1>2
  <2>2. f[k] \in Int /\ f[n] = Len(t) + 1 /\ f[0] = 0 /\ f[k] = C(i - 1 + k) - a /\ C(i - 1 + k) \in LineEnds(s)
    <3>1. f[k] = C(i - 1 + k) - a /\ f[n] = C(j) - a /\ f[k] \in Int
      BY <1>7, <1>8, <2>1
    <3>2. C(j) - a = Len(t) + 1
      BY <1>4, <1>5
    <3>3. C(i - 1 + k) \in LineEnds(s)
      BY <1>3, <2>1
    <3> QED
      BY <1>7, <3>1, <3>2, <3>3
  <2>3. 0 < f[k] /\ (k = n \/ f[k] < Len(t) + 1)
    BY <1>8, <1>9, <2>1, <2>2
  <2>4. f[k] \in 1 .. Len(t) + 1
    BY <1>5, <2>2, <2>3
  <2>5. ASSUME f[k] <= Len(t) PROVE t[f[k]] = "nl"
    <3>1. t[f[k]] = s[a + f[k]]
      BY <1>4, <1>5, <2>4, <2>5
    <3>2. a + f[k] = C(i - 1 + k)
      BY <1>3, <1>5, <2>1, <2>2
    <3>3. C(i - 1 + k) <= Len(s)
      <4>1. k # n
        BY <1>5, <2>2, <2>5
      <4>2. k < n /\ i - 1 + k < j /\ i - 1 + k \in 0 .. N /\ j \in 0 .. N
        BY <1>1, <2>1, <4>1 DEF n
      <4>3. C(i - 1 + k) < C(j) /\ C(j) \in 0 .. Len(s) + 1 /\ C(i - 1 + k) \in 0 .. Len(s) + 1
        BY <1>3, <4>2
      <4> QED
        BY <1>5, <4>3
    <3> QED
      BY <1>6, <2>2, <3>1, <3>2, <3>3
  <2> QED
    BY <1>6, <2>4, <2>5
<1>11. \A p \in LineEnds(t) : \E k \in 1 .. n : f[k] = p
  <2> TAKE p \in LineEnds(t)
  <2>1. p \in 1 .. Len(t) + 1 /\ (p <= Len(t) => t[p] = "nl")
    BY <1>6
  <2>2. CASE p = Len(t) + 1
    <3>1. n \in 0 .. n /\ n \in 1 .. n
      BY ONLY <1>2, <1>8
    <3>2. f[n] = C(i - 1 + n) - a
      BY ONLY <1>7, <3>1
    <3>3. C(j) - a = Len(t) + 1
      BY ONLY <1>4, <1>5
    <3>4. f[n] = p
      BY ONLY <1>8, <2>2, <3>2, <3>3
    <3> QED
      BY ONLY <3>1, <3>4
  <2>3. CASE p # Len(t) + 1
    <3>1. p \in 1 .. Len(t) /\ t[p] = "nl" /\ s[a + p] = "nl"
      BY <1>4, <1>5, <2>1, <2>3
    <3>2. C(j) \in 0 .. Len(s) + 1 /\ a + p \in 1 .. Len(s) + 1 /\ a < a + p /\ a + p < C(j)
      <4>1. j \in 0 .. N
        BY <1>1
      <4>2. C(j) \in 0 .. Len(s) + 1
        BY ONLY <1>3, <4>1
      <4>3. a \in Nat /\ Len(t) = C(j) - a - 1 /\ Len(s) \in Nat /\ Len(t) \in Nat
        BY <1>4, <1>5, LenProperties
      <4> DEFINE c == C(j)  l == Len(s)  m == Len(t)
      <4>4. c \in 0 .. l + 1 /\ a \in Nat /\ m = c - a - 1 /\ l \in Nat /\ p \in 1 .. m
        BY ONLY <3>1, <4>2, <4>3
      <4> HIDE DEF c, l, m
      <4>5. c \in 0 .. l + 1 /\ a + p \in 1 .. l + 1 /\ a < a + p /\ a + p < c
        BY ONLY <4>4
      <4> QED
        BY ONLY <4>5 DEF c, l
    <3>3. a + p \in LineEnds(s)
      BY <1>6, <3>1, <3>2
    <3>4. PICK k \in 1 .. N : C(k) = a + p
      BY <1>3, <3>3
    <3>5. i - 1 < k /\ k < j
      <4>1. k \in 0 .. N /\ j \in 0 .. N /\ i - 1 \in 0 .. N
        BY <1>1
      <4>2. ~(k < i - 1) /\ k # i - 1 /\ ~(j < k) /\ k # j
        BY <1>3, <1>5, <3>2, <3>4, <4>1
      <4> QED
        BY <1>1, <4>1, <4>2
    <3>6. k - i + 1 \in 1 .. n /\ i - 1 + (k - i + 1) = k /\ k - i + 1 \in 0 .. n
      BY <1>1, <3>5 DEF n
    <3>7. f[k - i + 1] = p
      BY <1>5, <1>7, <3>1, <3>4, <3>6
    <3> QED
      BY <3>6, <3>7
  <2> QED
    BY <2>2, <2>3
<1>12. LineCount(t) = n /\ \A k \in 0 .. n : Cut(t, k) = f[k]
  <2>1. t \in Seq(T) /\ n \in Nat \ {0} /\ f \in [0 .. n -> Int] /\ f[0] = 0
    BY <1>2, <1>4, <1>7
  <2>2. AreCuts(f, n, t)
    BY ONLY <2>1, <1>9, <1>10, <1>11 DEF AreCuts
  <2> QED
    BY ONLY <2>1, <2>2, CutsAreTheOnly
<1> QED
  BY <1>7, <1>12 DEF t, n, a, C

LEMMA LargestIs ==
  ASSUME NEW n \in Nat, NEW S \in SUBSET (0 .. n), S # {}
  PROVE  Max(S) \in S /\ \A x \in S : x <= Max(S)
<1> DEFINE A == {n - x : x \in S}
<1>1. A \in SUBSET Nat /\ A # {}
  OBVIOUS
<1>2. PICK d \in A : \A e \in A : d <= e
  <2> HIDE DEF A
  <2> QED
    BY <1>1, LeastNumber
<1>3. PICK m \in S : d = n - m
  OBVIOUS
<1>4. \A x \in S : m >= x
  <2> TAKE x \in S
  <2>1. n - x \in A
    OBVIOUS
  <2>2. d <= n - x
    BY <1>2, <2>1
  <2>3. x \in Int /\ m \in Int
    OBVIOUS
  <2> QED
    BY <1>3, <2>2, <2>3
<1> HIDE DEF A
<1>5. Max(S) \in S /\ \A x \in S : Max(S) >= x
  BY <1>4 DEF Max
<1>6. \A x \in S : x \in 0 .. n
  OBVIOUS
<1>7. Max(S) \in Int /\ \A x \in S : x \in Int
  <2>1. \A x \in S : x \in Int
    BY <1>6
  <2> QED
    BY <1>5, <2>1, Zenon
<1> QED
  BY <1>5, <1>7

LEMMA SmallestIs ==
  ASSUME NEW S \in SUBSET Nat, S # {}
  PROVE  Min(S) \in S /\ \A x \in S : Min(S) <= x
<1>1. PICK m \in S : \A x \in S : m <= x
  BY LeastNumber
<1> QED
  BY <1>1 DEF Min

LEMMA SmallerIs ==
  ASSUME NEW a \in Int, NEW b \in Int
  PROVE  Min({a, b}) = IF a <= b THEN a ELSE b
<1> DEFINE m == IF a <= b THEN a ELSE b
<1>1. m \in {a, b} /\ \A x \in {a, b} : m <= x
  OBVIOUS
<1>2. \A y \in {a, b} : (\A x \in {a, b} : y <= x) => y = m
  OBVIOUS
<1> HIDE DEF m
<1>3. Min({a, b}) = m
  BY <1>1, <1>2 DEF Min
<1> QED
  BY <1>3 DEF m

LEMMA WholeText ==
  ASSUME NEW T, NEW s \in Seq(T)
  PROVE  Lines(s, 1, LineCount(s)) = s
<1>1. LineCount(s) \in Nat \ {0} /\ Cut(s, 0) = 0 /\ Cut(s, LineCount(s)) = Len(s) + 1 /\ Len(s) \in Nat
  BY EndsAre, CutsAre
<1>2. Lines(s, 1, LineCount(s)) = SubSeq(s, 1, Len(s))
  <2>1. 1 - 1 = 0 /\ 0 + 1 = 1 /\ Len(s) + 1 - 1 = Len(s)
    BY <1>1
  <2> QED
    BY <1>1, <2>1 DEF Lines
<1> QED
  BY <1>2, SubSeqFull

LEMMA CountIs ==
  ASSUME NEW T, NEW s \in Seq(T)
  PROVE  /\ splitLinesForCounting(s) \in 0 .. LineCount(s)
         /\ s = <<>> => splitLinesForCounting(s) = 0 /\ LineCount(s) = 1
         /\ s # <<>> => /\ splitLinesForCounting(s) \in 1 .. LineCount(s)
                        /\ IF s[Len(s)] = "nl"
                           THEN splitLinesForCounting(s) = LineCount(s) - 1 /\ Cut(s, LineCount(s) - 1) = Len(s)
                           ELSE splitLinesForCounting(s) = LineCount(s)
<1> DEFINE N == LineCount(s)  n == splitLinesForCounting(s)
<1>1. N \in Nat \ {0} /\ Len(s) \in Nat
  BY EndsAre
<1>2. ASSUME s = <<>> PROVE n = 0 /\ N = 1
  <2>1. n = 0
    BY <1>2 DEF splitLinesForCounting
  <2>2. Len(s) = 0
    BY <1>2
  <2>3. N = 1
    <3>0. /\ Cut(s, 0) = 0 /\ Cut(s, N) = Len(s) + 1
          /\ \A i, j \in 0 .. N : i < j => Cut(s, i) < Cut(s, j)
          /\ \A k \in 0 .. N : Cut(s, k) \in 0 .. Len(s) + 1
      BY CutsAre
    <3>1. Cut(s, 0) = 0 /\ Cut(s, N) = 1 /\ \A i, j \in 0 .. N : i < j => Cut(s, i) < Cut(s, j)
      BY <2>2, <3>0
    <3>2. Cut(s, 1) \in 0 .. 1
      BY <1>1, <2>2, <3>0
    <3>3. N # 1 => 1 \in 0 .. N /\ N \in 0 .. N /\ 0 \in 0 .. N /\ 0 < 1 /\ 1 < N
      BY <1>1
    <3> HIDE DEF N
    <3> QED
      BY <3>1, <3>2, <3>3
  <2> QED
    BY <2>1, <2>3
<1>3. ASSUME s # <<>> PROVE Len(s) # 0
  BY <1>3
<1>4. ASSUME s # <<>>, s[Len(s)] = "nl" PROVE n = N - 1 /\ Cut(s, N - 1) = Len(s) /\ N - 1 \in 1 .. N
  <2>1. n = N - 1
    BY <1>4 DEF splitLinesForCounting, Last
  <2>2. Len(s) \in LineEnds(s)
    BY <1>1, <1>3, <1>4, EndsAre
  <2>3. PICK k \in 1 .. N : Cut(s, k) = Len(s)
    BY <2>2, CutsAre
  <2>4. Cut(s, N) = Len(s) + 1 /\ \A i, j \in 0 .. N : i < j => Cut(s, i) < Cut(s, j)
    BY CutsAre
  <2>5. k # N
    BY <1>1, <2>3, <2>4
  <2>6. k = N - 1
    <3> SUFFICES ASSUME k < N - 1 PROVE FALSE
      BY <1>1, <2>5
    <3>1. k \in 0 .. N /\ N - 1 \in 0 .. N /\ N \in 0 .. N /\ N - 1 < N
      BY <1>1
    <3>2. Cut(s, N - 1) \in 0 .. Len(s) + 1
      BY <3>1, CutsAre
    <3>3. Cut(s, k) < Cut(s, N - 1) /\ Cut(s, N - 1) < Cut(s, N)
      BY <2>4, <3>1
    <3> QED
      BY <1>1, <2>3, <2>4, <3>2, <3>3
  <2> QED
    BY <1>1, <2>1, <2>3, <2>6
<1>5. ASSUME s # <<>>, s[Len(s)] # "nl" PROVE n = N
  BY <1>5 DEF splitLinesForCounting, Last
<1> HIDE DEF N, n
<1> QED
  BY <1>1, <1>2, <1>4, <1>5 DEF N, n

\* What the truncation from the head keeps: the text, nothing, or as many whole lines as fit.
LEMMA HeadIs ==
  ASSUME NEW T, NEW s \in Seq(T), NEW maxLines \in Nat \ {0}, NEW maxBytes \in Nat
  PROVE  LET cut == truncateHead(s, maxLines, maxBytes)
             n   == splitLinesForCounting(s)
             k   == cut.outputLines
         IN  \/ /\ n <= maxLines /\ Len(s) <= maxBytes
                /\ cut.content = s /\ cut.truncated = FALSE /\ cut.firstLineExceedsLimit = FALSE /\ k = n
             \/ /\ Len(Lines(s, 1, 1)) > maxBytes /\ s # <<>>
                /\ cut.content = <<>> /\ cut.truncated = TRUE /\ cut.firstLineExceedsLimit = TRUE /\ k = 0
             \/ /\ s # <<>> /\ k \in 1 .. n /\ k <= maxLines
                /\ ~(n <= maxLines /\ Len(s) <= maxBytes) /\ Len(Lines(s, 1, k)) <= maxBytes
                /\ cut.content = Lines(s, 1, k) /\ cut.truncated = TRUE /\ cut.firstLineExceedsLimit = FALSE
                /\ \A j \in 1 .. n : j <= maxLines /\ Len(Lines(s, 1, j)) <= maxBytes => j <= k
<1> DEFINE n == splitLinesForCounting(s)
           A == {k \in Loop(s, maxLines) : Len(FirstLines(s, k)) <= maxBytes}
           kept == Max(A)
<1>1. n \in 0 .. LineCount(s) /\ LineCount(s) \in Nat /\ n \in Nat
  BY CountIs, EndsAre
<1>2. Loop(s, maxLines) = 0 .. (IF n <= maxLines THEN n ELSE maxLines)
  BY <1>1, SmallerIs DEF Loop
<1>3. CASE Fits(s, maxLines, maxBytes)
  <2>1. truncateHead(s, maxLines, maxBytes) = Truncation(s, "none", n, FALSE, FALSE)
    BY <1>3 DEF truncateHead
  <2> DEFINE cut == truncateHead(s, maxLines, maxBytes)
  <2>2. cut.content = s /\ cut.outputLines = n /\ cut.truncated = FALSE /\ cut.firstLineExceedsLimit = FALSE
    <3>1. cut = Truncation(s, "none", n, FALSE, FALSE)
      BY <2>1
    <3> HIDE DEF cut, n, A, kept
    <3> QED
      <4>1. cut.content = s /\ cut.outputLines = n
        BY ONLY <3>1 DEF Truncation
      <4>2. cut.truncated = FALSE
        BY ONLY <3>1 DEF Truncation
      <4>3. cut.firstLineExceedsLimit = FALSE
        BY ONLY <3>1 DEF Truncation
      <4> QED
        BY ONLY <4>1, <4>2, <4>3
  <2>4. n <= maxLines /\ Len(s) <= maxBytes
    BY <1>3 DEF Fits
  <2> HIDE DEF cut
  <2> QED
    BY <2>2, <2>4 DEF cut
<1>4. ASSUME ~Fits(s, maxLines, maxBytes) PROVE s # <<>> /\ n \in 1 .. LineCount(s)
  <2>1. s # <<>>
    <3> SUFFICES ASSUME s = <<>> PROVE FALSE
      OBVIOUS
    <3>1. n = 0 /\ Len(s) = 0
      BY CountIs
    <3> QED
      BY <1>4, <3>1 DEF Fits
  <2> QED
    BY <2>1, CountIs
<1>5. CASE ~Fits(s, maxLines, maxBytes) /\ Len(Lines(s, 1, 1)) > maxBytes
  <2>1. truncateHead(s, maxLines, maxBytes) = Truncation(<<>>, "bytes", 0, FALSE, TRUE)
    BY <1>5 DEF truncateHead, FirstLines
  <2> DEFINE cut == truncateHead(s, maxLines, maxBytes)
  <2>2. cut.content = <<>> /\ cut.outputLines = 0 /\ cut.truncated = TRUE /\ cut.firstLineExceedsLimit = TRUE
    <3>1. cut = Truncation(<<>>, "bytes", 0, FALSE, TRUE)
      BY <2>1
    <3> HIDE DEF cut, n, A, kept
    <3> QED
      <4>1. cut.content = <<>> /\ cut.outputLines = 0
        BY ONLY <3>1 DEF Truncation
      <4>2. cut.truncated = TRUE
        BY ONLY <3>1 DEF Truncation
      <4>3. cut.firstLineExceedsLimit = TRUE
        BY ONLY <3>1 DEF Truncation
      <4> QED
        BY ONLY <4>1, <4>2, <4>3
  <2> HIDE DEF cut
  <2> QED
    BY <1>4, <1>5, <2>2 DEF cut
<1>6. CASE ~Fits(s, maxLines, maxBytes) /\ ~(Len(Lines(s, 1, 1)) > maxBytes)
  <2>1. truncateHead(s, maxLines, maxBytes)
          = Truncation(FirstLines(s, kept), StoppedBy(s, kept, maxLines), kept, FALSE, FALSE)
    BY <1>6 DEF truncateHead, FirstLines
  <2>2. Len(Lines(s, 1, 1)) \in Nat
    <3>1. Lines(s, 1, 1) \in Seq(T)
      <4>1. 1 \in 1 .. LineCount(s) + 1 /\ 1 \in 1 - 1 .. LineCount(s)
        BY <1>1, <1>4, <1>6
      <4> QED
        BY <4>1, LinesAre
    <3> QED
      BY <3>1
  <2>3. 1 \in A
    <3>1. 1 \in Loop(s, maxLines)
      BY <1>1, <1>2, <1>4, <1>6
    <3> QED
      BY <1>6, <2>2, <3>1 DEF FirstLines
  <2>4. A \in SUBSET (0 .. n) /\ \A k \in A : k <= maxLines
    BY <1>1, <1>2
  <2>5. \A j \in 1 .. n : j <= maxLines /\ Len(Lines(s, 1, j)) <= maxBytes => j \in A
    BY <1>1, <1>2 DEF FirstLines
  <2>6. \A k \in A : Len(Lines(s, 1, k)) <= maxBytes
    BY DEF FirstLines
  <2> HIDE DEF A, n
  <2>7. kept \in A /\ \A x \in A : x <= kept
    BY <1>1, <2>3, <2>4, LargestIs
  <2>8. kept \in 1 .. n /\ kept <= maxLines
    <3>1. 1 <= kept /\ kept \in 0 .. n
      BY <2>3, <2>4, <2>7
    <3> QED
      BY <1>1, <2>4, <2>7, <3>1
  <2> HIDE DEF kept
  <2>9. StoppedBy(s, kept, maxLines) # "none"
    BY DEF StoppedBy
  <2> DEFINE cut == truncateHead(s, maxLines, maxBytes)
  <2>10. cut.content = Lines(s, 1, kept) /\ cut.truncated = TRUE /\ cut.firstLineExceedsLimit = FALSE /\ cut.outputLines = kept
    <3>1. cut = Truncation(FirstLines(s, kept), StoppedBy(s, kept, maxLines), kept, FALSE, FALSE)
      BY <2>1
    <3> DEFINE lines == FirstLines(s, kept)  by == StoppedBy(s, kept, maxLines)
    <3> HIDE DEF cut, by, lines
    <3>2. cut.content = lines /\ cut.truncated = TRUE /\ cut.firstLineExceedsLimit = FALSE /\ cut.outputLines = kept
      <4>1. cut = Truncation(lines, by, kept, FALSE, FALSE) /\ by # "none"
        BY <3>1, <2>9 DEF lines, by
      <4> QED
        <5>1. cut.content = lines /\ cut.outputLines = kept
          BY ONLY <4>1 DEF Truncation
        <5>2. cut.truncated = TRUE
          BY ONLY <4>1 DEF Truncation
        <5>3. cut.firstLineExceedsLimit = FALSE
          BY ONLY <4>1 DEF Truncation
        <5> QED
          BY ONLY <5>1, <5>2, <5>3
    <3> QED
      BY <3>2 DEF lines, FirstLines
  <2> HIDE DEF cut
  <2> QED
    BY <1>4, <1>6, <2>5, <2>6, <2>7, <2>8, <2>10 DEF n, cut, Fits
<1> QED
  BY <1>3, <1>5, <1>6

-----------------------------------------------------------------------------
(* Reading a file page by page.                                           *)

LEMMA LinesOfLines ==
  ASSUME NEW T, NEW s \in Seq(T), NEW i \in 1 .. LineCount(s), NEW j \in i .. LineCount(s),
         NEW a \in 1 .. j - i + 1, NEW b \in a .. j - i + 1
  PROVE  Lines(Lines(s, i, j), a, b) = Lines(s, i - 1 + a, i - 1 + b)
<1> DEFINE t == Lines(s, i, j)  u == Lines(s, i - 1 + a, i - 1 + b)  v == Lines(t, a, b)
           N == LineCount(s)  n == j - i + 1
<1>1. N \in Nat \ {0} /\ i \in 1 .. N /\ j \in i .. N /\ a \in 1 .. n /\ b \in a .. n /\ n \in Nat
  BY EndsAre
<1>2. /\ i \in 1 .. N + 1 /\ j \in i - 1 .. N /\ j # i - 1
      /\ i - 1 + a \in 1 .. N + 1 /\ i - 1 + b \in (i - 1 + a) - 1 .. N /\ i - 1 + b # (i - 1 + a) - 1
      /\ a \in 1 .. n + 1 /\ b \in a - 1 .. n /\ b # a - 1
      /\ a - 1 \in 0 .. n /\ b \in 0 .. n /\ i - 1 + (a - 1) = (i - 1 + a) - 1
      /\ i - 1 \in 0 .. N /\ i - 1 + b \in 0 .. N /\ (i - 1 + a) - 1 \in 0 .. N
  BY <1>1
<1>3. /\ t \in Seq(T) /\ LineCount(t) = n
      /\ \A k \in 0 .. n : Cut(t, k) = Cut(s, i - 1 + k) - Cut(s, i - 1)
      /\ \A k \in 1 .. Len(t) : t[k] = s[Cut(s, i - 1) + k]
  <2>1. t \in Seq(T) /\ \A k \in 1 .. Len(t) : t[k] = s[Cut(s, i - 1) + k]
    BY <1>2, LinesAre
  <2>2. LineCount(t) = n /\ \A k \in 0 .. n : Cut(t, k) = Cut(s, i - 1 + k) - Cut(s, i - 1)
    BY <1>1, CutsOfLines
  <2> QED
    BY <2>1, <2>2
<1>4. Cut(t, a - 1) = Cut(s, (i - 1 + a) - 1) - Cut(s, i - 1) /\ Cut(t, b) = Cut(s, i - 1 + b) - Cut(s, i - 1)
  <2>1. Cut(t, a - 1) = Cut(s, i - 1 + (a - 1)) - Cut(s, i - 1) /\ Cut(t, b) = Cut(s, i - 1 + b) - Cut(s, i - 1)
    BY <1>2, <1>3
  <2> QED
    BY <1>2, <2>1
<1>5. /\ Cut(s, i - 1) \in Int /\ Cut(s, (i - 1 + a) - 1) \in Int /\ Cut(s, i - 1 + b) \in Int
      /\ Len(s) \in Int
  <2>1. \A k \in 0 .. N : Cut(s, k) \in 0 .. Len(s) + 1
    BY CutsAre
  <2> QED
    BY <1>2, <2>1
<1> HIDE DEF t, N, n
<1>6. /\ u \in Seq(T) /\ Len(u) = Cut(s, i - 1 + b) - Cut(s, (i - 1 + a) - 1) - 1
      /\ \A k \in 1 .. Len(u) : u[k] = s[Cut(s, (i - 1 + a) - 1) + k]
  BY <1>2, LinesAre DEF N
<1>7. /\ v \in Seq(T) /\ Len(v) = Cut(t, b) - Cut(t, a - 1) - 1
      /\ \A k \in 1 .. Len(v) : v[k] = t[Cut(t, a - 1) + k] /\ Cut(t, a - 1) + k \in 1 .. Len(t)
  BY <1>2, <1>3, LinesAre
<1> HIDE DEF u, v
<1>8. Len(u) = Len(v)
  BY <1>4, <1>5, <1>6, <1>7
<1>9. \A k \in 1 .. Len(v) : v[k] = u[k]
  <2> TAKE k \in 1 .. Len(v)
  <2>1. v[k] = s[Cut(s, i - 1) + (Cut(t, a - 1) + k)]
    BY <1>3, <1>7
  <2>2. Cut(s, i - 1) + (Cut(t, a - 1) + k) = Cut(s, (i - 1 + a) - 1) + k
    <3>1. k \in Int
      BY <1>7
    <3> QED
      BY <1>4, <1>5, <3>1
  <2>3. u[k] = s[Cut(s, (i - 1 + a) - 1) + k]
    BY <1>6, <1>8
  <2> QED
    BY <2>1, <2>2, <2>3
<1>10. u = v
  BY <1>6, <1>7, <1>8, <1>9, SeqEqual
<1> QED
  BY <1>10 DEF u, v, t

\* Two runs of lines with a newline between them.
LEMMA LinesJoined ==
  ASSUME NEW T, "nl" \in T, NEW s \in Seq(T), NEW i \in 1 .. LineCount(s), NEW j \in i .. LineCount(s) - 1,
         NEW k \in j + 1 .. LineCount(s)
  PROVE  Lines(s, i, j) \o <<"nl">> \o Lines(s, j + 1, k) = Lines(s, i, k)
<1> DEFINE t == Lines(s, i, j)  u == Lines(s, j + 1, k)  w == Lines(s, i, k)  N == LineCount(s)
           a == Cut(s, i - 1)  b == Cut(s, j)  c == Cut(s, k)
<1>1. N \in Nat \ {0} /\ i \in 1 .. N /\ j \in i .. N - 1 /\ k \in j + 1 .. N
  BY EndsAre
<1>2. /\ i \in 1 .. N + 1 /\ j \in i - 1 .. N /\ j # i - 1 /\ k \in i - 1 .. N /\ k # i - 1
      /\ j + 1 \in 1 .. N + 1 /\ k \in (j + 1) - 1 .. N /\ k # (j + 1) - 1 /\ (j + 1) - 1 = j
      /\ i - 1 \in 0 .. N /\ j \in 1 .. N /\ k \in 0 .. N /\ j \in 0 .. N /\ i - 1 < j /\ j < k /\ j < N /\ N \in 0 .. N
  BY <1>1
<1>3. a \in 0 .. Len(s) + 1 /\ b \in 0 .. Len(s) + 1 /\ c \in 0 .. Len(s) + 1 /\ a < b /\ b < c /\ Len(s) \in Nat
  BY <1>2, CutsAre
<1>4. /\ t \in Seq(T) /\ Len(t) = b - a - 1 /\ \A p \in 1 .. Len(t) : t[p] = s[a + p]
  BY <1>2, LinesAre
<1>5. /\ u \in Seq(T) /\ Len(u) = c - b - 1 /\ \A p \in 1 .. Len(u) : u[p] = s[b + p]
  BY <1>2, LinesAre
<1>6. /\ w \in Seq(T) /\ Len(w) = c - a - 1 /\ \A p \in 1 .. Len(w) : w[p] = s[a + p]
  BY <1>2, LinesAre
<1>7. s[b] = "nl"
  <2>1. b \in LineEnds(s)
    BY <1>2, CutsAre
  <2>2. b <= Len(s)
    BY <1>3
  <2> QED
    BY <2>1, <2>2, EndsAre
<1> HIDE DEF t, u, w, N, a, b, c
<1> DEFINE x == t \o <<"nl">>  y == x \o u
<1>8. <<"nl">> \in Seq(T) /\ Len(<<"nl">>) = 1 /\ <<"nl">>[1] = "nl"
  OBVIOUS
<1>9. /\ x \in Seq(T) /\ Len(x) = b - a
      /\ \A p \in 1 .. Len(x) : x[p] = IF p <= Len(t) THEN t[p] ELSE "nl"
  <2>1. /\ x \in Seq(T) /\ Len(x) = Len(t) + 1
        /\ \A p \in 1 .. Len(t) + 1 : x[p] = IF p <= Len(t) THEN t[p] ELSE <<"nl">>[p - Len(t)]
    BY <1>4, <1>8, ConcatProperties
  <2>2. Len(x) = b - a
    BY <1>3, <1>4, <2>1
  <2>3. \A p \in 1 .. Len(x) : p > Len(t) => p - Len(t) = 1
    BY <1>3, <1>4, <2>1
  <2> HIDE DEF x
  <2> QED
    BY <1>3, <1>4, <1>8, <2>1, <2>2, <2>3
<1> HIDE DEF x
<1>10. /\ y \in Seq(T) /\ Len(y) = Len(x) + Len(u)
       /\ \A p \in 1 .. Len(x) + Len(u) : y[p] = IF p <= Len(x) THEN x[p] ELSE u[p - Len(x)]
  BY <1>5, <1>9, ConcatProperties
<1> HIDE DEF y
<1>11. Len(y) = Len(w)
  BY <1>3, <1>5, <1>6, <1>9, <1>10
<1>12. \A p \in 1 .. Len(y) : y[p] = w[p]
  <2> TAKE p \in 1 .. Len(y)
  <2> DEFINE lt == Len(t)  lx == Len(x)  lu == Len(u)
  <2>a. lt \in Nat /\ lx \in Nat /\ lu \in Nat /\ lt = b - a - 1 /\ lx = b - a /\ a \in Int /\ b \in Int /\ a < b
    BY <1>3, <1>4, <1>5, <1>9, LenProperties
  <2>b. p \in 1 .. lx + lu
    BY ONLY <1>10, p \in 1 .. Len(y) DEF lx, lu
  <2>1. w[p] = s[a + p] /\ p \in Nat /\ p >= 1 /\ p <= Len(x) + Len(u) /\ Len(u) \in Nat /\ Len(x) \in Nat /\ Len(t) \in Nat
    <3>1. w[p] = s[a + p]
      BY ONLY <1>6, <1>11, p \in 1 .. Len(y)
    <3>2. p \in Nat /\ p >= 1 /\ p <= lx + lu
      <4> HIDE DEF lx, lu
      <4> QED
        BY ONLY <2>a, <2>b
    <3> QED
      BY ONLY <2>a, <3>1, <3>2 DEF lt, lx, lu
  <2>2. CASE p <= Len(t)
    <3>1. p \in 1 .. lt /\ p \in 1 .. lx
      <4>1. p <= lt
        BY <2>2
      <4> HIDE DEF lt, lx, lu
      <4> QED
        BY ONLY <2>a, <2>b, <4>1
    <3>2. y[p] = x[p]
      BY ONLY <1>10, <2>b, <3>1 DEF lx, lu
    <3>3. x[p] = t[p]
      BY ONLY <1>9, <2>2, <3>1 DEF lx
    <3>4. t[p] = s[a + p]
      BY ONLY <1>4, <3>1 DEF lt
    <3> QED
      BY ONLY <2>1, <3>2, <3>3, <3>4
  <2>3. CASE p = Len(t) + 1
    <3>1. ~(p <= lt) /\ p \in 1 .. lx /\ a + p = b
      <4>1. p = lt + 1
        BY <2>3
      <4> HIDE DEF lt, lx, lu
      <4> QED
        BY ONLY <2>a, <2>b, <4>1
    <3>2. y[p] = x[p]
      BY ONLY <1>10, <2>b, <3>1 DEF lx, lu
    <3>3. x[p] = "nl"
      BY ONLY <1>9, <3>1 DEF lx, lt
    <3> QED
      BY ONLY <1>7, <2>1, <3>1, <3>2, <3>3
  <2>4. CASE p > Len(x)
    <3>1. ~(p <= lx) /\ p - lx \in 1 .. lu /\ b + (p - lx) = a + p
      <4>1. p > lx
        BY <2>4
      <4> HIDE DEF lt, lx, lu
      <4> QED
        BY ONLY <2>a, <2>b, <4>1
    <3>2. y[p] = u[p - lx]
      BY ONLY <1>10, <2>b, <3>1 DEF lx, lu
    <3>3. u[p - lx] = s[b + (p - lx)]
      BY ONLY <1>5, <3>1 DEF lu
    <3> QED
      BY ONLY <2>1, <3>1, <3>2, <3>3
  <2>5. p <= lt \/ p = lt + 1 \/ p > lx
    <3> HIDE DEF lt, lx, lu
    <3> QED
      BY ONLY <2>a, <2>b
  <2> QED
    BY ONLY <2>2, <2>3, <2>4, <2>5 DEF lt, lx
<1>13. y = w
  BY <1>6, <1>10, <1>11, <1>12, SeqEqual
<1> QED
  BY <1>13 DEF x, y, t, u, w

LEMMA ALineFits ==
  ASSUME NEW T, NEW s \in Seq(T), NEW i \in 1 .. LineCount(s), NEW j \in i .. LineCount(s), NEW k \in i .. j
  PROVE  Len(Lines(s, k, k)) <= Len(Lines(s, i, j))
<1> DEFINE N == LineCount(s)
<1>1. N \in Nat \ {0} /\ i \in 1 .. N /\ j \in i .. N /\ k \in i .. j
  BY EndsAre
<1>2. /\ i \in 1 .. N + 1 /\ j \in i - 1 .. N /\ j # i - 1 /\ k \in 1 .. N + 1 /\ k \in k - 1 .. N /\ k # k - 1
      /\ i - 1 \in 0 .. N /\ j \in 0 .. N /\ k \in 0 .. N /\ k - 1 \in 0 .. N
      /\ (k - 1 = i - 1 \/ i - 1 < k - 1) /\ (k = j \/ k < j)
  BY <1>1
<1>3. /\ Cut(s, i - 1) \in Int /\ Cut(s, j) \in Int /\ Cut(s, k) \in Int /\ Cut(s, k - 1) \in Int
      /\ Cut(s, i - 1) <= Cut(s, k - 1) /\ Cut(s, k) <= Cut(s, j)
  <2>1. /\ \A p \in 0 .. N : Cut(s, p) \in 0 .. Len(s) + 1
        /\ \A p, q \in 0 .. N : p < q => Cut(s, p) < Cut(s, q)
    BY CutsAre
  <2>2. Len(s) \in Nat
    OBVIOUS
  <2> QED
    BY <1>2, <2>1, <2>2
<1>4. /\ Len(Lines(s, i, j)) = Cut(s, j) - Cut(s, i - 1) - 1
      /\ Len(Lines(s, k, k)) = Cut(s, k) - Cut(s, k - 1) - 1
  BY <1>2, LinesAre
<1> QED
  BY <1>3, <1>4

\* What one page shows: the lines from the offset to some line e, and where to go on; or that
\* the line is too long.
PageShows(page, s, offset) ==
  /\ page.from = offset
  /\ \/ page.long = TRUE /\ LongLine(s, offset) /\ page.next = 0 /\ page.text = <<>>
     \/ /\ page.long = FALSE
        /\ \E e \in offset .. LineCount(s) :
             /\ page.text = Lines(s, offset, e) /\ Len(page.text) <= ReadBytes
             /\ page.next = IF e < LineCount(s) THEN e + 1 ELSE 0

\* What a reader may ask for: any limit, or none.
Limit == {NoLimit} \cup {<<n>> : n \in Nat}

LEMMA PageIs ==
  ASSUME NEW T, NEW s \in Seq(T), NEW offset \in 1 .. LineCount(s), NEW limit \in Limit, AsksForLines(limit)
  PROVE  PageShows(ReadPage(s, offset, limit), s, offset) /\ ReadPage(s, offset, limit).text \in Seq(T)
<1> DEFINE N == LineCount(s)
           last == IF limit = NoLimit THEN N ELSE Min({offset + limit[1] - 1, N})
           t == Lines(s, offset, last)
           cut == truncateHead(t, ReadLines, ReadBytes)
           n == splitLinesForCounting(t)
           page == ReadPage(s, offset, limit)
           next == IF cut.firstLineExceedsLimit THEN 0
                   ELSE IF cut.truncated THEN NextOffset(offset, cut.outputLines)
                   ELSE IF limit # NoLimit /\ last < N THEN NextOffset(offset, last - offset + 1)
                   ELSE 0
<1>1. N \in Nat \ {0} /\ offset \in 1 .. N /\ ReadBytes \in Nat /\ ReadLines \in Nat \ {0}
  BY EndsAre, FileAssumption
<1>2. last \in offset .. N /\ (last < N => limit # NoLimit)
  <2>1. CASE limit = NoLimit
    BY <1>1, <2>1
  <2>2. CASE limit # NoLimit
    <3>0. PICK n0 \in Nat : limit = <<n0>>
      BY <2>2 DEF Limit
    <3>1. limit[1] = n0 /\ n0 >= 1
      BY <2>2, <3>0 DEF AsksForLines
    <3>2. offset + n0 - 1 \in Int /\ N \in Int
      BY <1>1
    <3> DEFINE k == offset + n0 - 1
    <3>3. last = Min({k, N})
      BY <2>2, <3>1
    <3> HIDE DEF last
    <3>4. last = IF k <= N THEN k ELSE N
      BY <3>2, <3>3, SmallerIs
    <3> QED
      BY <1>1, <2>2, <3>1, <3>4
  <2> QED
    BY <2>1, <2>2
<1>3. page = [from |-> offset, text |-> cut.content, long |-> cut.firstLineExceedsLimit, next |-> next]
  BY DEF ReadPage
<1> HIDE DEF cut, last, next
<1>4. page.from = offset /\ page.text = cut.content /\ page.long = cut.firstLineExceedsLimit /\ page.next = next
  <2> HIDE DEF page
  <2>1. page.from = offset /\ page.text = cut.content
    BY <1>3
  <2>2. page.long = cut.firstLineExceedsLimit
    BY <1>3
  <2>3. page.next = next
    BY <1>3
  <2> QED
    BY <2>1, <2>2, <2>3
<1> HIDE DEF page
<1>5. t \in Seq(T) /\ LineCount(t) = last - offset + 1 /\ (t = <<>> => n = 0)
  <2>1. offset \in 1 .. N + 1 /\ last \in offset - 1 .. N
    BY <1>1, <1>2
  <2>2. t \in Seq(T)
    BY <2>1, LinesAre
  <2>3. LineCount(t) = last - offset + 1
    BY <1>2, CutsOfLines
  <2> HIDE DEF t
  <2> QED
    BY <2>2, <2>3, CountIs
<1>6. \A k \in 1 .. last - offset + 1 : Lines(t, 1, k) = Lines(s, offset, offset + k - 1)
  <2> TAKE k \in 1 .. last - offset + 1
  <2>1. last - offset + 1 \in Nat /\ 1 \in 1 .. last - offset + 1 /\ k \in 1 .. last - offset + 1
        /\ offset - 1 + 1 = offset /\ offset - 1 + k = offset + k - 1
    BY <1>1, <1>2
  <2> QED
    BY <1>2, <2>1, LinesOfLines
<1> HIDE DEF t, N, n
<1>7. Len(t) \in Nat /\ n \in 0 .. last - offset + 1
  BY <1>5, CountIs DEF n
<1>8. \/ /\ n <= ReadLines /\ Len(t) <= ReadBytes
         /\ cut.content = t /\ cut.truncated = FALSE /\ cut.firstLineExceedsLimit = FALSE
      \/ /\ Len(Lines(t, 1, 1)) > ReadBytes /\ t # <<>>
         /\ cut.content = <<>> /\ cut.truncated = TRUE /\ cut.firstLineExceedsLimit = TRUE
      \/ /\ t # <<>> /\ cut.outputLines \in 1 .. n /\ cut.outputLines <= ReadLines
         /\ Len(Lines(t, 1, cut.outputLines)) <= ReadBytes
         /\ cut.content = Lines(t, 1, cut.outputLines)
         /\ cut.truncated = TRUE /\ cut.firstLineExceedsLimit = FALSE
         /\ ~(n <= ReadLines /\ Len(t) <= ReadBytes)
  <2>1. t \in Seq(T) /\ ReadLines \in Nat \ {0} /\ ReadBytes \in Nat
    BY <1>1, <1>5
  <2> DEFINE h == truncateHead(t, ReadLines, ReadBytes)  m == splitLinesForCounting(t)
  <2>2. \/ /\ m <= ReadLines /\ Len(t) <= ReadBytes
           /\ h.content = t /\ h.truncated = FALSE /\ h.firstLineExceedsLimit = FALSE /\ h.outputLines = m
        \/ /\ Len(Lines(t, 1, 1)) > ReadBytes /\ t # <<>>
           /\ h.content = <<>> /\ h.truncated = TRUE /\ h.firstLineExceedsLimit = TRUE /\ h.outputLines = 0
        \/ /\ t # <<>> /\ h.outputLines \in 1 .. m /\ h.outputLines <= ReadLines
           /\ ~(m <= ReadLines /\ Len(t) <= ReadBytes) /\ Len(Lines(t, 1, h.outputLines)) <= ReadBytes
           /\ h.content = Lines(t, 1, h.outputLines) /\ h.truncated = TRUE /\ h.firstLineExceedsLimit = FALSE
           /\ \A j \in 1 .. m : j <= ReadLines /\ Len(Lines(t, 1, j)) <= ReadBytes => j <= h.outputLines
    BY <2>1, HeadIs, ZenonT(60)
  <2>3. h = cut /\ m = n
    BY DEF cut, n
  <2> HIDE DEF h, m
  <2> QED
    BY <2>2, <2>3
<1>9. CASE cut.content = t /\ Len(t) <= ReadBytes /\ cut.truncated = FALSE /\ cut.firstLineExceedsLimit = FALSE
  <2>1. next = IF last < N THEN last + 1 ELSE 0
    <3>1. offset + (last - offset + 1) = last + 1
      BY <1>1, <1>2
    <3> QED
      BY <1>2, <1>9, <3>1 DEF next, NextOffset
  <2>2. t = Lines(s, offset, last)
    BY DEF t
  <2>3. last \in offset .. N
    BY <1>2
  <2> QED
    BY <1>4, <1>5, <1>9, <2>1, <2>2, <2>3 DEF page, N, PageShows
<1>10. CASE Len(Lines(t, 1, 1)) > ReadBytes /\ cut.content = <<>> /\ cut.firstLineExceedsLimit = TRUE
  <2>1. Lines(t, 1, 1) = Lines(s, offset, offset)
    <3>1. 1 \in 1 .. last - offset + 1 /\ offset + 1 - 1 = offset
      BY <1>1, <1>2
    <3> QED
      BY <1>6, <3>1
  <2>2. next = 0 /\ <<>> \in Seq(T)
    BY <1>10, EmptySeq DEF next
  <2>3. page.long = TRUE /\ page.text = <<>> /\ page.text \in Seq(T) /\ page.next = 0 /\ page.from = offset
    BY <1>4, <1>10, <2>2
  <2>4. LongLine(s, offset)
    BY <1>10, <2>1 DEF LongLine
  <2> QED
    BY <2>3, <2>4 DEF page, PageShows
<1>11. CASE /\ t # <<>> /\ cut.outputLines \in 1 .. n /\ cut.outputLines <= ReadLines
            /\ Len(Lines(t, 1, cut.outputLines)) <= ReadBytes
            /\ cut.content = Lines(t, 1, cut.outputLines)
            /\ cut.truncated = TRUE /\ cut.firstLineExceedsLimit = FALSE
            /\ ~(n <= ReadLines /\ Len(t) <= ReadBytes)
  <2> DEFINE k == cut.outputLines
  <2>1. k # last - offset + 1
    <3> SUFFICES ASSUME k = last - offset + 1 PROVE FALSE
      OBVIOUS
    <3>1. n = k
      BY <1>1, <1>2, <1>7, <1>11
    <3>2. Lines(t, 1, k) = t
      BY <1>5, WholeText
    <3> QED
      BY <1>11, <3>1, <3>2
  <2>2. k \in 1 .. last - offset + 1 /\ k \in Int /\ k < last - offset + 1
    BY <1>1, <1>2, <1>7, <1>11, <2>1
  <2> DEFINE e == offset + k - 1
  <2>3. e \in offset .. N /\ e < N /\ offset + k = e + 1
    BY <1>1, <1>2, <2>2
  <2>4. next = IF e < N THEN e + 1 ELSE 0
    BY <1>11, <2>3 DEF next, NextOffset
  <2>5. cut.content = Lines(s, offset, e)
    BY <1>6, <1>11, <2>2
  <2>6. Lines(s, offset, e) \in Seq(T)
    <3>1. offset \in 1 .. N + 1 /\ e \in offset - 1 .. N
      BY <1>1, <2>3
    <3> QED
      BY <3>1, LinesAre DEF N
  <2>7. Len(cut.content) <= ReadBytes
    BY <1>11
  <2> HIDE DEF e
  <2> QED
    BY <1>4, <1>11, <2>3, <2>4, <2>5, <2>6, <2>7 DEF page, N, PageShows
<1> QED
  BY <1>8, <1>9, <1>10, <1>11

PageBytes == {"a", "nl"}
Page == [from : Nat, text : Seq(PageBytes), long : BOOLEAN, next : Nat]

\* The pages so far have shown the lines up to the e-th.
Shown(e) ==
  /\ e \in 0 .. LineCount(file)
  /\ reader.next = IF e < LineCount(file) THEN e + 1 ELSE 0
  /\ e = 0 => reader.pages = <<>>
  /\ e # 0 => reader.pages # <<>>
  /\ \A k \in 1 .. Len(reader.pages) : reader.pages[k].from \in 1 .. e
  /\ \A k \in 2 .. Len(reader.pages) : reader.pages[k].from > reader.pages[k - 1].from
  /\ e # 0 /\ (\A i \in 1 .. e : ~LongLine(file, i)) => reader.got = Lines(file, 1, e)
  /\ \A i \in 1 .. e : LongLine(file, i) =>
       \E k \in 1 .. Len(reader.pages) : reader.pages[k].from = i /\ reader.pages[k].long

Paging ==
  job = "paging" =>
    /\ file \in Seq(PageBytes)
    /\ reader = [next |-> reader.next, limit |-> reader.limit, pages |-> reader.pages, got |-> reader.got]
    /\ reader.limit \in Limit
    /\ AsksForLines(reader.limit) =>
         reader.pages \in Seq(Page) /\ \E e \in 0 .. LineCount(file) : Shown(e)

LEMMA PageIsAPage ==
  ASSUME NEW s \in Seq(PageBytes), NEW offset \in 1 .. LineCount(s), NEW limit \in Limit, AsksForLines(limit)
  PROVE  ReadPage(s, offset, limit) \in Page
<1> DEFINE page == ReadPage(s, offset, limit)
<1>1. page = [from |-> page.from, text |-> page.text, long |-> page.long, next |-> page.next]
  BY DEF ReadPage
<1>2. PageShows(page, s, offset) /\ page.text \in Seq(PageBytes)
  BY PageIs
<1> HIDE DEF page
<1>3. page.from \in Nat /\ page.next \in Nat /\ page.long \in BOOLEAN
  <2>1. LineCount(s) \in Nat
    BY EndsAre
  <2>2. page.long \in BOOLEAN
    BY <1>2, Zenon DEF PageShows
  <2>3. page.next \in Nat
    BY <1>2, <2>1 DEF PageShows
  <2>4. page.from \in Nat
    BY <1>2, <2>1 DEF PageShows
  <2> QED
    BY <2>2, <2>3, <2>4
<1> QED
  BY <1>1, <1>2, <1>3 DEF Page, page

LEMMA PagingStarts ==
  ASSUME StartPaging
  PROVE  Paging'
<1>1. PICK content \in PageFiles, limit \in {NoLimit, <<0>>, <<1>>, <<2>>} :
         /\ file' = content
         /\ reader' = [next |-> 1, limit |-> limit, pages |-> <<>>, got |-> <<>>]
  BY DEF StartPaging
<1>2. content \in Seq(PageBytes)
  BY <1>1 DEF PageFiles, PageBytes
<1>3. LineCount(content) \in Nat \ {0}
  BY <1>2, EndsAre
<1>4. /\ reader'.next = 1 /\ reader'.limit = limit /\ reader'.pages = <<>> /\ reader'.got = <<>>
      /\ limit \in Limit /\ <<>> \in Seq(Page) /\ Len(<<>>) = 0
  BY <1>1, EmptySeq DEF Limit
<1>5. Shown(0)'
  <2>1. 0 \in 0 .. LineCount(file') /\ 0 < LineCount(file')
    BY <1>1, <1>3
  <2>2. 1 .. Len(reader'.pages) = {} /\ 2 .. Len(reader'.pages) = {} /\ 1 .. 0 = {}
    BY <1>4
  <2> QED
    BY <1>4, <2>1, <2>2 DEF Shown
<1>6. 0 \in 0 .. LineCount(file')
  BY <1>1, <1>3
<1> QED
  BY <1>1, <1>2, <1>4, <1>5, <1>6 DEF Paging

LEMMA LinesGoOn ==
  ASSUME Paging, ReadNext, AsksForLines(reader.limit)
  PROVE  Paging'
<1> DEFINE N == LineCount(file)
           o == reader.next
           page == ReadPage(file, o, reader.limit)
           skip == IF page.long /\ o < N THEN o + 1 ELSE 0
           pages == reader.pages
           next == IF page.long THEN skip ELSE IF page.next > o THEN page.next ELSE 0
           got == IF pages = <<>> THEN page.text ELSE reader.got \o <<"nl">> \o page.text
<1>1. job = "paging" /\ job' = job /\ file' = file /\ o > 0
  BY DEF ReadNext
<1>2. /\ file \in Seq(PageBytes) /\ pages \in Seq(Page) /\ reader.limit \in Limit /\ N \in Nat \ {0}
      /\ reader = [next |-> reader.next, limit |-> reader.limit, pages |-> reader.pages, got |-> reader.got]
  BY <1>1, EndsAre DEF Paging
<1>3. PICK e \in 0 .. N : Shown(e)
  BY <1>1 DEF Paging
<1>4. e < N /\ o = e + 1 /\ o \in 1 .. N
  BY <1>1, <1>2, <1>3 DEF Shown
<1>5. reader' = [next |-> next, limit |-> reader.limit, pages |-> Append(pages, page), got |-> got]
  <2>1. reader' = [reader EXCEPT !.pages = Append(pages, page), !.got = got, !.next = next]
    BY DEF ReadNext
  <2> HIDE DEF page, next, got
  <2> QED
    BY <1>2, <2>1
<1>6. page \in Page
  BY <1>2, <1>4, PageIsAPage
<1>7. /\ page.from = o
      /\ \/ page.long = TRUE /\ LongLine(file, o)
         \/ /\ page.long = FALSE
            /\ \E x \in o .. N :
                 /\ page.text = Lines(file, o, x) /\ Len(page.text) <= ReadBytes
                 /\ page.next = IF x < N THEN x + 1 ELSE 0
  <2>1. PageShows(page, file, o)
    BY <1>2, <1>4, PageIs
  <2> HIDE DEF page
  <2> QED
    BY <2>1 DEF PageShows
<1> DEFINE L == Len(pages)  after == Append(pages, page)
<1>8. /\ after \in Seq(Page) /\ L \in Nat /\ Len(after) = L + 1 /\ after[L + 1] = page /\ after # <<>>
      /\ \A k \in 1 .. L : after[k] = pages[k]
  <2> HIDE DEF page, pages
  <2> QED
    BY <1>2, <1>6, AppendProperties
<1>9. reader'.next = next /\ reader'.limit = reader.limit /\ reader'.pages = after /\ reader'.got = got
  <2> HIDE DEF page, next, got, after
  <2> QED
    BY <1>5 DEF after
<1>10. /\ e = 0 => pages = <<>>
       /\ e # 0 => pages # <<>>
       /\ \A k \in 1 .. L : pages[k].from \in 1 .. e
       /\ \A k \in 2 .. L : pages[k].from > pages[k - 1].from
       /\ e # 0 /\ (\A i \in 1 .. e : ~LongLine(file, i)) => reader.got = Lines(file, 1, e)
       /\ \A i \in 1 .. e : LongLine(file, i) => \E k \in 1 .. L : pages[k].from = i /\ pages[k].long
  BY <1>3 DEF Shown
\* It is enough to name the last line now shown.
<1>11. ASSUME NEW x \in o .. N,
              next = IF x < N THEN x + 1 ELSE 0,
              (\A i \in 1 .. x : ~LongLine(file, i)) => got = Lines(file, 1, x),
              \A i \in o .. x : LongLine(file, i) => i = o /\ page.long
       PROVE  Shown(x)'
  <2>1. x \in 0 .. N /\ x # 0 /\ x >= e + 1 /\ x \in Int /\ e \in Int
    BY <1>2, <1>4
  <2> HIDE DEF next, got, after, page
  <2>2. \A k \in 1 .. L + 1 : after[k].from \in 1 .. x
    <3> TAKE k \in 1 .. L + 1
    <3>1. CASE k = L + 1
      <4>1. after[k].from = o
        BY ONLY <1>7, <1>8, <3>1
      <4>2. o \in 1 .. x
        BY ONLY <1>4, <2>1
      <4> QED
        BY ONLY <4>1, <4>2
    <3>2. CASE k # L + 1
      <4>1. k \in 1 .. L
        BY <1>8, <3>2
      <4>2. after[k].from \in 1 .. e
        BY <1>8, <1>10, <4>1
      <4> QED
        BY <2>1, <4>2
    <3> QED
      BY <3>1, <3>2
  <2>3. \A k \in 2 .. L + 1 : after[k].from > after[k - 1].from
    <3> TAKE k \in 2 .. L + 1
    <3>1. CASE k = L + 1
      <4>0. k - 1 \in 1 .. L
        BY ONLY <1>8, <3>1, k \in 2 .. L + 1
      <4>1. after[k].from = e + 1
        BY ONLY <1>4, <1>7, <1>8, <3>1
      <4>2. after[k - 1].from \in 1 .. e
        BY ONLY <1>8, <1>10, <4>0
      <4> QED
        BY <2>1, <4>1, <4>2
    <3>2. CASE k # L + 1
      <4>1. k \in 2 .. L /\ k \in 1 .. L /\ k - 1 \in 1 .. L
        BY <1>8, <3>2
      <4> QED
        BY <1>8, <1>10, <4>1
    <3> QED
      BY <3>1, <3>2
  <2>4. ASSUME NEW i \in 1 .. x, LongLine(file, i)
        PROVE  \E k \in 1 .. L + 1 : after[k].from = i /\ after[k].long
    <3>1. CASE i \in 1 .. e
      <4>1. PICK k \in 1 .. L : pages[k].from = i /\ pages[k].long
        BY <1>10, <2>4, <3>1
      <4>2. k \in 1 .. L + 1 /\ after[k] = pages[k]
        BY <1>8
      <4> QED
        BY <4>1, <4>2
    <3>2. CASE i \notin 1 .. e
      <4>1. i \in o .. x
        BY <1>4, <2>1, <3>2
      <4>2. i = o /\ page.long
        BY <1>11, <2>4, <4>1
      <4>3. L + 1 \in 1 .. L + 1
        BY <1>8
      <4> QED
        BY <1>7, <1>8, <4>2, <4>3
    <3> QED
      BY <3>1, <3>2
  <2> QED
    BY <1>1, <1>8, <1>9, <1>11, <2>1, <2>2, <2>3, <2>4 DEF Shown
<1>12. \E x \in o .. N : Shown(x)'
  <2>1. CASE page.long = TRUE /\ LongLine(file, o)
    <3>1. PICK x \in o .. N : x = o
      BY <1>4
    <3>2. next = IF x < N THEN x + 1 ELSE 0
      BY <2>1, <3>1
    <3>3. x \in 1 .. x /\ o .. x = {x}
      BY <1>4, <3>1
    <3> HIDE DEF next, got, page
    <3>4. Shown(x)'
      BY <1>11, <2>1, <3>1, <3>2, <3>3
    <3> QED
      BY <3>1, <3>4
  <2>2. ASSUME page.long = FALSE, NEW x \in o .. N, page.text = Lines(file, o, x), Len(page.text) <= ReadBytes,
               page.next = IF x < N THEN x + 1 ELSE 0
        PROVE  Shown(x)'
    <3>1. next = IF x < N THEN x + 1 ELSE 0
      <4>1. x \in Int /\ o \in Int /\ x >= o /\ o > 0
        BY <1>4
      <4> HIDE DEF page
      <4> QED
        BY <2>2, <4>1
    <3>2. \A i \in o .. x : ~LongLine(file, i)
      <4> TAKE i \in o .. x
      <4>1. Len(Lines(file, i, i)) <= Len(Lines(file, o, x))
        BY <1>2, <1>4, ALineFits
      <4>2. Len(Lines(file, i, i)) \in Int /\ Len(Lines(file, o, x)) \in Int /\ ReadBytes \in Int
        <5>1. i \in 1 .. N + 1 /\ i \in i - 1 .. N /\ o \in 1 .. N + 1 /\ x \in o - 1 .. N
          BY <1>2, <1>4
        <5>2. Lines(file, i, i) \in Seq(PageBytes) /\ Lines(file, o, x) \in Seq(PageBytes)
          BY <1>2, <5>1, LinesAre
        <5> QED
          BY <5>2, FileAssumption
      <4> QED
        BY <2>2, <4>1, <4>2 DEF LongLine
    <3>3. ASSUME \A i \in 1 .. x : ~LongLine(file, i) PROVE got = Lines(file, 1, x)
      <4>1. CASE e = 0
        <5>1. o = 1
          BY <1>4, <4>1
        <5>2. got = page.text
          BY <1>10, <4>1
        <5>3. page.text = Lines(file, 1, x)
          BY <2>2, <5>1, Zenon
        <5> HIDE DEF got, page
        <5> QED
          BY <5>2, <5>3
      <4>2. CASE e # 0
        <5>1. \A i \in 1 .. e : i \in 1 .. x
          BY <1>4
        <5>2. reader.got = Lines(file, 1, e)
          BY <1>10, <3>3, <4>2, <5>1
        <5>3. 1 \in 1 .. N /\ e \in 1 .. N - 1 /\ x \in e + 1 .. N
          BY <1>2, <1>4, <4>2
        <5>4. Lines(file, 1, e) \o <<"nl">> \o Lines(file, e + 1, x) = Lines(file, 1, x)
          BY <1>2, <5>3, LinesJoined DEF PageBytes
        <5>5. got = reader.got \o <<"nl">> \o page.text
          BY <1>10, <4>2
        <5>6. page.text = Lines(file, e + 1, x)
          BY <1>4, <2>2
        <5> HIDE DEF got, page
        <5> QED
          BY ONLY <5>2, <5>4, <5>5, <5>6, Zenon
      <4> QED
        BY <4>1, <4>2
    <3> HIDE DEF next, got, page
    <3> QED
      BY <1>11, <3>1, <3>2, <3>3
  <2> HIDE DEF page
  <2> QED
    BY <1>7, <2>1, <2>2
<1>13. \E x \in 0 .. N : Shown(x)'
  BY <1>4, <1>12
<1>14. reader' = [next |-> reader'.next, limit |-> reader'.limit, pages |-> reader'.pages, got |-> reader'.got]
  <2> HIDE DEF page, next, got, after
  <2> QED
    BY <1>5, <1>9 DEF after
<1> HIDE DEF page, next, got, after
<1> QED
  BY <1>1, <1>2, <1>8, <1>9, <1>13, <1>14 DEF Paging

LEMMA PagingGoesOn ==
  ASSUME Paging, ReadNext
  PROVE  Paging'
<1>0. CASE ~AsksForLines(reader.limit)
  <2> DEFINE page == ReadPage(file, reader.next, reader.limit)
             skip == IF page.long /\ reader.next < LineCount(file) THEN reader.next + 1 ELSE 0
             next == IF page.long THEN skip ELSE IF page.next > reader.next THEN page.next ELSE 0
             pages == Append(reader.pages, page)
             got == IF reader.pages = <<>> THEN page.text ELSE reader.got \o <<"nl">> \o page.text
  <2>1. /\ job = "paging" /\ job' = job /\ file' = file
        /\ reader' = [reader EXCEPT !.pages = pages, !.got = got, !.next = next]
    BY DEF ReadNext
  <2> HIDE DEF page, skip, next, pages, got
  <2>2. /\ file \in Seq(PageBytes) /\ reader.limit \in Limit
        /\ reader = [next |-> reader.next, limit |-> reader.limit, pages |-> reader.pages, got |-> reader.got]
    BY <2>1 DEF Paging
  <2>3. reader' = [next |-> next, limit |-> reader.limit, pages |-> pages, got |-> got]
    BY ONLY <2>1, <2>2
  <2>4. reader'.limit = reader.limit
    BY ONLY <2>3
  <2>5. reader' = [next |-> reader'.next, limit |-> reader'.limit, pages |-> reader'.pages, got |-> reader'.got]
    BY ONLY <2>3
  <2>6. ~AsksForLines(reader.limit)'
    BY <1>0, <2>4 DEF AsksForLines
  <2> QED
    BY ONLY <2>1, <2>2, <2>4, <2>5, <2>6 DEF Paging
<1>00. CASE AsksForLines(reader.limit)
  BY <1>00, LinesGoOn
<1> QED
  BY <1>0, <1>00

LEMMA PagingStays ==
  ASSUME Paging, UNCHANGED <<job, file, reader>>
  PROVE  Paging'
<1>1. \A e \in 0 .. LineCount(file) : Shown(e) => Shown(e)'
  BY DEF Shown
<1>2. AsksForLines(reader.limit)' <=> AsksForLines(reader.limit)
  BY DEF AsksForLines
<1> QED
  BY <1>1, <1>2 DEF Paging

LEMMA PagingKept ==
  ASSUME Paging, [FileNext]_fileVars
  PROVE  Paging'
<1>1. CASE StartPaging
  BY <1>1, PagingStarts
<1>2. CASE ReadNext
  BY <1>2, PagingGoesOn
<1>3. CASE StartEdit
  BY <1>3 DEF StartEdit, Paging
<1>4. CASE EditAccess \/ EditRead \/ EditTruncates \/ EditFills \/ OpenFails
  BY <1>4 DEF EditAccess, EditRead, EditTruncates, EditFills, OpenFails, Paging
<1>5. CASE WriteRefused \/ WriteTruncates \/ WriteFills
  BY <1>5 DEF WriteRefused, WriteTruncates, WriteFills, Paging
<1>6. CASE UNCHANGED fileVars
  BY <1>6, PagingStays DEF fileVars
<1> QED
  BY <1>1, <1>2, <1>3, <1>4, <1>5, <1>6 DEF FileNext

LEMMA PagingEnds ==
  ASSUME Paging
  PROVE  ReadPagesCoverTheFile
<1> DEFINE N == LineCount(file)
<1> SUFFICES ASSUME job = "paging", reader.next = 0, AsksForLines(reader.limit)
             PROVE  /\ \A k \in 2 .. Len(reader.pages) : reader.pages[k].from > reader.pages[k - 1].from
                    /\ (\A i \in 1 .. N : ~LongLine(file, i)) => reader.got = file
                    /\ \A i \in 1 .. N : LongLine(file, i) => \E k \in DOMAIN reader.pages :
                                           reader.pages[k].from = i /\ reader.pages[k].long
  BY DEF ReadPagesCoverTheFile
<1>1. file \in Seq(PageBytes) /\ reader.pages \in Seq(Page) /\ N \in Nat \ {0}
  BY EndsAre DEF Paging
<1>2. PICK e \in 0 .. N : Shown(e)
  BY DEF Paging
<1>3. e = N
  BY <1>1, <1>2 DEF Shown
<1>4. Shown(N)
  BY <1>2, <1>3
<1>5. Lines(file, 1, N) = file
  BY <1>1, WholeText
<1>6. DOMAIN reader.pages = 1 .. Len(reader.pages)
  BY <1>1
<1> QED
  BY <1>1, <1>4, <1>5, <1>6 DEF Shown

-----------------------------------------------------------------------------
(* The rows of an answer, and what the byte cap leaves of them.           *)

\* The rank goes up by one at each member of S.
RankCounts(S, m, c) ==
  /\ IsFiniteSet(S) /\ S \in SUBSET Nat /\ Cardinality(S) \in Nat
  /\ Rank(S, c) \in 0 .. Cardinality(S)
  /\ Rank(S, 0) = 0 /\ Rank(S, m) = Cardinality(S)
  /\ c < m => Rank(S, c + 1) = IF c + 1 \in S THEN Rank(S, c) + 1 ELSE Rank(S, c)

LEMMA RankSteps ==
  ASSUME NEW m \in Nat, NEW S \in SUBSET (1 .. m), NEW c \in 0 .. m
  PROVE  RankCounts(S, m, c)
<1> DEFINE A(x) == {j \in S : j <= x}
<1>1. IsFiniteSet(S) /\ S \in SUBSET Nat /\ Cardinality(S) \in Nat
  <2>1. IsFiniteSet(1 .. m)
    BY FS_Interval
  <2>2. IsFiniteSet(S)
    BY <2>1, FS_Subset
  <2> QED
    BY <2>2, FS_CardinalityType
<1>0. \A j \in S : j \in Nat /\ 1 <= j /\ j <= m
  OBVIOUS
<1>2. ASSUME NEW x \in 0 .. m PROVE IsFiniteSet(A(x)) /\ Cardinality(A(x)) \in 0 .. Cardinality(S)
  <2>1. A(x) \subseteq S
    OBVIOUS
  <2> HIDE DEF A
  <2>2. IsFiniteSet(A(x)) /\ Cardinality(A(x)) <= Cardinality(S)
    BY <1>1, <2>1, FS_Subset
  <2>3. Cardinality(A(x)) \in Nat
    BY <2>2, FS_CardinalityType
  <2> QED
    BY <1>1, <2>2, <2>3
<1>3. Rank(S, 0) = 0
  <2>1. A(0) = {}
    <3>1. \A j \in S : ~(j <= 0)
      BY <1>0
    <3> QED
      BY <3>1, Zenon
  <2> QED
    BY <2>1, FS_EmptySet DEF Rank
<1>4. Rank(S, m) = Cardinality(S)
  <2>1. A(m) = S
    BY <1>0
  <2> QED
    BY <2>1 DEF Rank
<1>5. ASSUME c < m PROVE Rank(S, c + 1) = IF c + 1 \in S THEN Rank(S, c) + 1 ELSE Rank(S, c)
  <2>1. CASE c + 1 \in S
    <3>1. A(c + 1) = A(c) \cup {c + 1} /\ c + 1 \notin A(c)
      <4>1. \A j \in S : j <= c + 1 <=> j <= c \/ j = c + 1
        BY <1>0
      <4>2. ~(c + 1 <= c)
        OBVIOUS
      <4>3. \A j : j \in A(c + 1) <=> j \in A(c) \cup {c + 1}
        BY <2>1, <4>1
      <4> QED
        BY <4>2, <4>3
    <3>2. IsFiniteSet(A(c))
      BY <1>2
    <3> HIDE DEF A
    <3>3. Cardinality(A(c) \cup {c + 1}) = Cardinality(A(c)) + 1
      BY <3>1, <3>2, FS_AddElement
    <3> QED
      BY <2>1, <3>1, <3>3 DEF Rank, A
  <2>2. CASE c + 1 \notin S
    <3>1. A(c + 1) = A(c)
      <4>1. \A j \in S : j <= c + 1 <=> j <= c \/ j = c + 1
        OBVIOUS
      <4> QED
        BY <2>2, <4>1
    <3> QED
      BY <2>2, <3>1 DEF Rank
  <2> QED
    BY <2>1, <2>2
<1>6. Rank(S, c) \in 0 .. Cardinality(S)
  BY <1>2 DEF Rank
<1> QED
  BY <1>1, <1>3, <1>4, <1>5, <1>6 DEF RankCounts

LEMMA NthOfRank ==
  ASSUME NEW S \in SUBSET Nat, IsFiniteSet(S), NEW x \in S
  PROVE  Rank(S, x) \in 1 .. Cardinality(S) /\ Nth(S, Rank(S, x)) = x
<1>1. PICK n \in 1 .. Cardinality(S) : Nth(S, n) = x
  BY NthReaches
<1>2. Rank(S, x) = n
  BY <1>1, NthIs
<1> QED
  BY <1>1, <1>2

LEMMA DigitIs ==
  Digit \in [1 .. SearchLines -> Rows] /\ SearchLines \in Nat /\ Rows \cap {"nl", "o", "end", "raw"} = {}
<1>1. \E f \in [1 .. SearchLines -> Rows] : IsInjective(f)
  BY SearchAssumption
<1> QED
  BY <1>1, SearchAssumption DEF Digit

\* A row and a newline after each but the last: the lines are the rows.
LEMMA CutsOfRows ==
  ASSUME NEW rows \in Seq(Rows), rows # <<>>
  PROVE  /\ RowText(rows) \in Seq(Rows \cup {"nl"}) /\ Len(RowText(rows)) = 2 * Len(rows) - 1
         /\ LineCount(RowText(rows)) = Len(rows)
         /\ \A k \in 0 .. Len(rows) : Cut(RowText(rows), k) = 2 * k
<1> DEFINE s == RowText(rows)  R == Len(rows)  T == Rows \cup {"nl"}  f == [k \in 0 .. R |-> 2 * k]
<1>1. R \in Nat \ {0}
  OBVIOUS
<1>2. /\ s \in Seq(T) /\ Len(s) = 2 * R - 1
      /\ \A i \in 1 .. 2 * R - 1 : s[i] = IF i % 2 = 1 THEN rows[(i + 1) \div 2] ELSE "nl"
  <2> DEFINE n == 2 * R - 1
  <2>1. n \in Nat
    BY <1>1
  <2>2. s = [i \in 1 .. n |-> IF i % 2 = 1 THEN rows[(i + 1) \div 2] ELSE "nl"]
    BY DEF RowText
  <2>3. ASSUME NEW i \in 1 .. n PROVE (IF i % 2 = 1 THEN rows[(i + 1) \div 2] ELSE "nl") \in T
    <3>1. (i + 1) \div 2 \in 1 .. R
      BY <1>1
    <3> QED
      BY <3>1
  <2> HIDE DEF n, s
  <2>4. s \in [1 .. n -> T]
    BY <2>2, <2>3
  <2>5. s \in Seq(T) /\ Len(s) = n
    BY <2>1, <2>4
  <2> QED
    BY <2>2, <2>5 DEF n
<1>3. f \in [0 .. R -> Int] /\ f[0] = 0 /\ \A k \in 0 .. R : f[k] = 2 * k
  BY <1>1
<1>4. \A i : i \in LineEnds(s) <=> i \in 1 .. 2 * R /\ (i <= 2 * R - 1 => s[i] = "nl")
  <2>1. Len(s) + 1 = 2 * R /\ (\A i : i \in LineEnds(s) <=> i \in 1 .. Len(s) + 1 /\ (i <= Len(s) => s[i] = "nl"))
    BY <1>1, <1>2, EndsAre
  <2> HIDE DEF s
  <2> QED
    BY <1>2, <2>1
<1> HIDE DEF s, f
<1>5. \A k \in 1 .. R : f[k] \in LineEnds(s)
  <2> TAKE k \in 1 .. R
  <2>1. f[k] = 2 * k /\ 2 * k \in 1 .. 2 * R /\ (2 * k) % 2 = 0
    BY <1>1, <1>3
  <2>2. 2 * k <= 2 * R - 1 => s[2 * k] = "nl"
    BY <1>1, <1>2, <2>1
  <2> QED
    BY <1>4, <2>1, <2>2
<1>6. \A p \in LineEnds(s) : \E k \in 1 .. R : f[k] = p
  <2> TAKE p \in LineEnds(s)
  <2>1. p \in 1 .. 2 * R /\ (p <= 2 * R - 1 => s[p] = "nl")
    BY <1>4
  <2>2. p % 2 = 0
    <3> SUFFICES ASSUME p % 2 = 1 PROVE FALSE
      BY <2>1
    <3>1. p <= 2 * R - 1
      BY <1>1, <2>1
    <3>2. s[p] = rows[(p + 1) \div 2]
      BY <1>2, <2>1, <3>1
    <3>3. (p + 1) \div 2 \in 1 .. R
      BY <1>1, <2>1, <3>1
    <3>4. rows[(p + 1) \div 2] \in Rows
      BY <3>3
    <3> QED
      BY <2>1, <3>1, <3>2, <3>4, SearchAssumption
  <2>3. p \div 2 \in 1 .. R /\ 2 * (p \div 2) = p
    BY <1>1, <2>1, <2>2
  <2> QED
    BY <1>3, <2>3
<1>7. \A i, j \in 0 .. R : i < j => f[i] < f[j]
  BY <1>1, <1>3
<1> HIDE DEF R, T
<1>8. LineCount(s) = R /\ \A k \in 0 .. R : Cut(s, k) = f[k]
  <2>1. s \in Seq(T) /\ R \in Nat \ {0} /\ f \in [0 .. R -> Int] /\ f[0] = 0
    BY <1>1, <1>2, <1>3
  <2>2. AreCuts(f, R, s)
    BY ONLY <2>1, <1>5, <1>6, <1>7 DEF AreCuts
  <2> QED
    BY ONLY <2>1, <2>2, CutsAreTheOnly
<1> QED
  BY <1>2, <1>3, <1>8 DEF s, R, T

\* The rows that a text of k rows and the newlines between them shows.
LEMMA RowsShown ==
  ASSUME NEW rows \in Seq(Rows), NEW k \in 1 .. Len(rows), NEW v \in Seq(Rows \cup {"nl"}), Len(v) = 2 * k - 1,
         \A i \in 1 .. 2 * k - 1 : v[i] = IF i % 2 = 1 THEN rows[(i + 1) \div 2] ELSE "nl"
  PROVE  Picks(v, {i \in DOMAIN v : v[i] # "nl"}) = SubSeq(rows, 1, k)
<1> DEFINE S == {i \in DOMAIN v : v[i] # "nl"}  f == [i \in 1 .. k |-> 2 * i - 1]
<1>1. k \in Nat \ {0} /\ k <= Len(rows) /\ Len(rows) \in Nat /\ DOMAIN v = 1 .. 2 * k - 1
  OBVIOUS
<1>2. \A i : i \in S <=> i \in 1 .. 2 * k - 1 /\ i % 2 = 1
  <2> TAKE i
  <2>1. ASSUME i \in 1 .. 2 * k - 1, i % 2 = 1 PROVE v[i] # "nl"
    <3>1. (i + 1) \div 2 \in 1 .. Len(rows) /\ v[i] = rows[(i + 1) \div 2]
      BY <1>1, <2>1
    <3>2. rows[(i + 1) \div 2] \in Rows
      BY <3>1
    <3> QED
      BY <3>1, <3>2, SearchAssumption
  <2>2. ASSUME i \in 1 .. 2 * k - 1, i % 2 # 1 PROVE v[i] = "nl"
    BY <2>2
  <2> QED
    BY <1>1, <2>1, <2>2
<1>3. S \in SUBSET Nat
  BY <1>2
<1> HIDE DEF S
<1>4. f \in [1 .. k -> S] /\ \A i \in 1 .. k : f[i] = 2 * i - 1
  <2>1. \A i \in 1 .. k : 2 * i - 1 \in 1 .. 2 * k - 1 /\ (2 * i - 1) % 2 = 1
    BY <1>1
  <2> QED
    BY <1>2, <2>1
<1>5. \A i, j \in 1 .. k : i < j => f[i] < f[j]
  BY <1>1, <1>4
<1>6. \A x \in S : \E i \in 1 .. k : f[i] = x
  <2> TAKE x \in S
  <2>1. x \in 1 .. 2 * k - 1 /\ x % 2 = 1
    BY <1>2
  <2>2. (x + 1) \div 2 \in 1 .. k /\ 2 * ((x + 1) \div 2) - 1 = x
    <3>1. PICK q \in Int : x = 2 * q + 1
      <4>1. x \div 2 \in Int /\ x = 2 * (x \div 2) + 1
        BY <1>1, <2>1
      <4> QED
        BY <4>1
    <3>2. q + 1 \in 1 .. k /\ 2 * (q + 1) - 1 = x /\ x + 1 = 2 * (q + 1)
      BY <1>1, <2>1, <3>1
    <3>3. (2 * (q + 1)) \div 2 = q + 1
      BY <3>1
    <3> QED
      BY <3>2, <3>3
  <2> QED
    BY <1>4, <2>2
<1> HIDE DEF f
<1>7. Cardinality(S) = k /\ \A i \in 1 .. k : Nth(S, i) = f[i]
  <2>1. k \in Nat /\ f \in [1 .. k -> S]
    BY <1>1, <1>4
  <2>2. Enumerates(f, k, S)
    BY ONLY <2>1, <1>5, <1>6 DEF Enumerates
  <2> QED
    BY ONLY <1>3, <2>2, NthIsTheOnly
<1>8. Picks(v, S) = [i \in 1 .. k |-> v[Nth(S, i)]]
  BY <1>7 DEF Picks
<1>9. \A i \in 1 .. k : v[Nth(S, i)] = rows[i]
  <2> TAKE i \in 1 .. k
  <2>1. Nth(S, i) = 2 * i - 1
    BY <1>4, <1>7
  <2>2. 2 * i - 1 \in 1 .. 2 * k - 1 /\ (2 * i - 1) % 2 = 1 /\ (2 * i - 1 + 1) \div 2 = i
    BY <1>1
  <2> QED
    BY <2>1, <2>2
<1>10. SubSeq(rows, 1, k) = [i \in 1 .. k |-> rows[i]]
  BY <1>1
<1> QED
  BY <1>8, <1>9, <1>10 DEF S

\* An answer shows the first rows, and says so when the byte cap left out the others.
Answers(r, rows, limited) ==
  /\ r.ok = TRUE /\ r.limited = limited
  /\ \E k \in 0 .. Len(rows) : r.rows = SubSeq(rows, 1, k) /\ (k < Len(rows) => r.capped = TRUE)

LEMMA PartIs ==
  ASSUME NEW T, NEW s \in Seq(T), NEW i \in 1 .. Len(s) + 1, NEW j \in i - 1 .. Len(s)
  PROVE  /\ SubSeq(s, i, j) \in Seq(T) /\ Len(SubSeq(s, i, j)) = j - i + 1
         /\ \A k \in 1 .. j - i + 1 : SubSeq(s, i, j)[k] = s[i + k - 1]
<1>1. i \in Int /\ j \in Int /\ \A k \in i .. j : s[k] \in T
  OBVIOUS
<1>2. /\ SubSeq(s, i, j) \in Seq(T)
      /\ Len(SubSeq(s, i, j)) = IF i <= j THEN j - i + 1 ELSE 0
      /\ \A k \in 1 .. j - i + 1 : SubSeq(s, i, j)[k] = s[i + k - 1]
  BY <1>1, SubSeqProperties
<1> QED
  BY <1>2

\* Rows, and matches that have none among them.
RowBytes == Rows \cup {"raw"}

\* The rows of the first matches are the first rows.
Places(s) == {i \in DOMAIN s : s[i] # "raw"}

LEMMA RowsOfIs ==
  ASSUME NEW s \in Seq(RowBytes)
  PROVE  /\ IsFiniteSet(Places(s)) /\ Places(s) \in SUBSET (1 .. Len(s)) /\ Cardinality(Places(s)) \in Nat
         /\ Cardinality(Places(s)) <= Len(s)
         /\ RowsOf(s) = [i \in 1 .. Cardinality(Places(s)) |-> s[Nth(Places(s), i)]]
         /\ RowsOf(s) \in Seq(Rows) /\ Len(RowsOf(s)) = Cardinality(Places(s))
<1> DEFINE P == Places(s)  C == Cardinality(P)
<1>1. Len(s) \in Nat /\ DOMAIN s = 1 .. Len(s) /\ \A i \in 1 .. Len(s) : s[i] \in RowBytes
  OBVIOUS
<1>2. P \in SUBSET (1 .. Len(s)) /\ \A i \in P : s[i] # "raw"
  <2>1. \A i : i \in P <=> i \in DOMAIN s /\ s[i] # "raw"
    BY DEF Places
  <2> HIDE DEF P
  <2>2. P \subseteq DOMAIN s
    BY ONLY <2>1
  <2> QED
    BY ONLY <1>1, <2>1, <2>2
<1> HIDE DEF P
<1>3. IsFiniteSet(1 .. Len(s)) /\ Cardinality(1 .. Len(s)) = Len(s)
  <2> DEFINE L == Len(s)
  <2>1. L \in Nat
    BY <1>1
  <2> HIDE DEF L
  <2>2. IsFiniteSet(1 .. L) /\ Cardinality(1 .. L) = L
    BY ONLY <2>1, FS_Interval
  <2> QED
    BY <2>2 DEF L
<1>4. IsFiniteSet(P) /\ C <= Len(s)
  BY <1>2, <1>3, FS_Subset
<1>5. C \in Nat
  BY <1>4, FS_CardinalityType
<1>6. RowsOf(s) = [i \in 1 .. C |-> s[Nth(P, i)]]
  BY DEF RowsOf, Picks, Places, P
<1>7. \A i \in 1 .. C : s[Nth(P, i)] \in Rows
  <2> TAKE i \in 1 .. C
  <2>1. P \in SUBSET Nat
    BY <1>1, <1>2
  <2>2. Nth(P, i) \in P
    BY <1>4, <2>1, NthIs
  <2> QED
    BY <1>1, <1>2, <2>2 DEF RowBytes
<1> HIDE DEF C
<1>8. RowsOf(s) \in [1 .. C -> Rows]
  BY <1>6, <1>7
<1>9. RowsOf(s) \in Seq(Rows) /\ Len(RowsOf(s)) = C
  BY <1>5, <1>8
<1> QED
  BY <1>2, <1>4, <1>5, <1>6, <1>9 DEF P, C

LEMMA RowsOfPrefix ==
  ASSUME NEW s \in Seq(RowBytes), NEW n \in 0 .. Len(s)
  PROVE  \E m \in 0 .. Len(RowsOf(s)) : RowsOf(SubSeq(s, 1, n)) = SubSeq(RowsOf(s), 1, m)
<1> DEFINE u == SubSeq(s, 1, n)  P == Places(s)  Q == Places(u)  A == RowsOf(s)  B == RowsOf(u)
           m == Cardinality(Q)
<1>1. u \in Seq(RowBytes) /\ Len(u) = n /\ \A i \in 1 .. n : u[i] = s[i]
  <2>1. 1 \in 1 .. Len(s) + 1 /\ n \in 1 - 1 .. Len(s) /\ n - 1 + 1 = n /\ \A i \in 1 .. n : 1 + i - 1 = i
    OBVIOUS
  <2>2. /\ SubSeq(s, 1, n) \in Seq(RowBytes) /\ Len(SubSeq(s, 1, n)) = n - 1 + 1
        /\ \A i \in 1 .. n - 1 + 1 : SubSeq(s, 1, n)[i] = s[1 + i - 1]
    BY <2>1, PartIs
  <2> QED
    BY <2>1, <2>2
<1>2. DOMAIN s = 1 .. Len(s) /\ DOMAIN u = 1 .. n /\ Len(s) \in Nat
  <2> HIDE DEF u
  <2> QED
    BY <1>1
<1>3. Q \subseteq P /\ \A j \in P : j \in Q <=> j <= n
  <2> HIDE DEF u
  <2> QED
    BY <1>1, <1>2 DEF Places
<1>4. /\ IsFiniteSet(P) /\ P \in SUBSET (1 .. Len(s)) /\ Cardinality(P) \in Nat
      /\ A = [i \in 1 .. Cardinality(P) |-> s[Nth(P, i)]] /\ A \in Seq(Rows) /\ Len(A) = Cardinality(P)
  BY RowsOfIs
<1>5. /\ IsFiniteSet(Q) /\ Q \in SUBSET (1 .. n) /\ m \in Nat
      /\ B = [i \in 1 .. m |-> u[Nth(Q, i)]] /\ B \in Seq(Rows) /\ Len(B) = m
  <2> HIDE DEF u
  <2> QED
    BY <1>1, RowsOfIs
<1> HIDE DEF u, P, Q, A, B
<1>6. P \in SUBSET Nat /\ Q \in SUBSET Nat
  BY <1>2, <1>4, <1>5
<1>7. m <= Cardinality(P)
  BY <1>3, <1>4, FS_Subset
<1>8. \A i \in 1 .. m : Nth(Q, i) \in 1 .. n /\ Nth(P, i) = Nth(Q, i)
  <2> TAKE i \in 1 .. m
  <2> DEFINE y == Nth(Q, i)
  <2>1. y \in Q /\ Rank(Q, y) = i
    BY <1>5, <1>6, NthIs
  <2> HIDE DEF y
  <2>2. y \in P /\ y \in Nat /\ y <= n /\ y \in 1 .. n
    BY <1>3, <1>5, <1>6, <2>1
  <2>3. {j \in Q : j <= y} = {j \in P : j <= y}
    <3>1. \A j \in P : j <= y => j \in Q
      BY <1>3, <1>6, <2>2
    <3> QED
      BY <1>3, <3>1
  <2>4. Rank(P, y) = i
    BY <2>1, <2>3 DEF Rank
  <2>5. Nth(P, i) = y
    BY <1>4, <1>6, <2>2, <2>4, NthOfRank
  <2> QED
    BY <2>2, <2>5 DEF y
<1> HIDE DEF m
<1>9. m \in 0 .. Len(A) /\ 1 \in 1 .. Len(A) + 1 /\ m \in 1 - 1 .. Len(A) /\ m - 1 + 1 = m
      /\ \A i \in 1 .. m : 1 + i - 1 = i
  BY <1>4, <1>5, <1>7
<1>10. /\ SubSeq(A, 1, m) \in Seq(Rows) /\ Len(SubSeq(A, 1, m)) = m
       /\ \A i \in 1 .. m : SubSeq(A, 1, m)[i] = A[i]
  <2>1. /\ SubSeq(A, 1, m) \in Seq(Rows) /\ Len(SubSeq(A, 1, m)) = m - 1 + 1
        /\ \A i \in 1 .. m - 1 + 1 : SubSeq(A, 1, m)[i] = A[1 + i - 1]
    BY <1>4, <1>9, PartIs
  <2> QED
    BY <1>9, <2>1
<1>11. \A i \in 1 .. m : B[i] = A[i]
  <2> TAKE i \in 1 .. m
  <2>1. i \in 1 .. Cardinality(P)
    BY <1>4, <1>5, <1>7
  <2>2. A[i] = s[Nth(P, i)] /\ B[i] = u[Nth(Q, i)]
    BY <1>4, <1>5, <2>1
  <2> QED
    BY <1>1, <1>8, <2>2
<1> DEFINE V == SubSeq(A, 1, m)
<1>12. V \in Seq(Rows) /\ B \in Seq(Rows) /\ Len(V) = Len(B) /\ \A i \in 1 .. Len(V) : V[i] = B[i]
  BY <1>5, <1>10, <1>11
<1> HIDE DEF V
<1>13. B = V
  BY ONLY <1>12, SeqEqual
<1> QED
  BY <1>9, <1>13 DEF V, A, B, u

LEMMA FormatIs ==
  ASSUME NEW matches \in Seq(RowBytes), NEW limited
  PROVE  Answers(Format(matches, limited), RowsOf(matches), limited)
<1> DEFINE rows == RowsOf(matches)
<1>0. rows \in Seq(Rows)
  BY RowsOfIs
<1> HIDE DEF rows
<1> DEFINE s == RowText(rows)  R == Len(rows)  T == Rows \cup {"nl"}
           h == truncateHead(s, R + 1, SearchBytes)
           shown == Picks(h.content, {i \in DOMAIN h.content : h.content[i] # "nl"})
           r == Format(matches, limited)
<1>1. R \in Nat /\ R + 1 \in Nat \ {0} /\ SearchBytes \in Nat /\ R <= R
  BY <1>0, SearchAssumption
<1>2. /\ r.ok = TRUE /\ r.limited = limited /\ r.capped = h.truncated /\ r.rows = shown
  <2>1. r = [ok |-> TRUE, limited |-> limited, capped |-> h.truncated, rows |-> shown]
    BY DEF Format, rows
  <2> HIDE DEF r, h, shown
  <2>2. r.ok = TRUE
    BY <2>1
  <2>3. r.limited = limited
    BY <2>1
  <2>4. r.capped = h.truncated
    BY <2>1
  <2>5. r.rows = shown
    BY <2>1
  <2> QED
    BY <2>2, <2>3, <2>4, <2>5
<1>3. \A k \in 0 .. R : shown = SubSeq(rows, 1, k) /\ (k < R => h.truncated = TRUE)
        => Answers(r, rows, limited)
  BY <1>2, Zenon DEF Answers
<1>4. Picks(<<>>, {i \in DOMAIN <<>> : <<>>[i] # "nl"}) = <<>>
  <2>1. {i \in DOMAIN <<>> : <<>>[i] # "nl"} = {}
    OBVIOUS
  <2> QED
    BY <2>1, FS_EmptySet DEF Picks
<1>5. SubSeq(rows, 1, 0) = <<>>
  BY SubSeqEmpty
<1> SUFFICES Answers(r, rows, limited)
  BY DEF rows
<1> HIDE DEF r
<1>6. CASE rows = <<>>
  <2>1. s = <<>> /\ R = 0
    BY <1>6 DEF RowText
  <2>2. h.content = <<>>
    <3> DEFINE m == splitLinesForCounting(<<>>)  g == truncateHead(<<>>, R + 1, SearchBytes)
    <3>1. <<>> \in Seq(T) /\ m = 0
      BY EmptySeq, CountIs
    <3>2. m <= R + 1 /\ Len(<<>>) <= SearchBytes
      BY <1>1, <3>1
    <3>3. g = Truncation(<<>>, "none", m, FALSE, FALSE)
      BY <3>2 DEF truncateHead, Fits
    <3> HIDE DEF g, m
    <3>4. g.content = <<>>
      BY ONLY <3>3 DEF Truncation
    <3> QED
      BY <2>1, <3>4 DEF g, h
  <2>3. shown = SubSeq(rows, 1, 0)
    BY <1>4, <1>5, <2>2
  <2>4. 0 \in 0 .. R /\ ~(0 < R)
    BY <2>1
  <2> HIDE DEF h, shown, R
  <2> QED
    BY <1>3, <2>3, <2>4
<1>7. CASE rows # <<>>
  <2>1. /\ s \in Seq(T) /\ Len(s) = 2 * R - 1 /\ LineCount(s) = R
        /\ \A k \in 0 .. R : Cut(s, k) = 2 * k
    BY <1>0, <1>7, CutsOfRows
  <2>2. R \in Nat \ {0} /\ R \in 1 .. R
    BY <1>1, <1>7
  <2>3. \A i \in 1 .. 2 * R - 1 : s[i] = IF i % 2 = 1 THEN rows[(i + 1) \div 2] ELSE "nl"
    BY DEF RowText
  <2> HIDE DEF s
  <2> DEFINE m == splitLinesForCounting(s)
  <2>4. \/ h.content = s
        \/ h.content = <<>> /\ h.truncated = TRUE
        \/ /\ h.outputLines \in 1 .. m
           /\ h.content = Lines(s, 1, h.outputLines) /\ h.truncated = TRUE
    <3>1. \/ /\ m <= R + 1 /\ Len(s) <= SearchBytes
             /\ h.content = s /\ h.truncated = FALSE /\ h.firstLineExceedsLimit = FALSE /\ h.outputLines = m
          \/ /\ Len(Lines(s, 1, 1)) > SearchBytes /\ s # <<>>
             /\ h.content = <<>> /\ h.truncated = TRUE /\ h.firstLineExceedsLimit = TRUE /\ h.outputLines = 0
          \/ /\ s # <<>> /\ h.outputLines \in 1 .. m /\ h.outputLines <= R + 1
             /\ ~(m <= R + 1 /\ Len(s) <= SearchBytes) /\ Len(Lines(s, 1, h.outputLines)) <= SearchBytes
             /\ h.content = Lines(s, 1, h.outputLines) /\ h.truncated = TRUE /\ h.firstLineExceedsLimit = FALSE
             /\ \A j \in 1 .. m : j <= R + 1 /\ Len(Lines(s, 1, j)) <= SearchBytes => j <= h.outputLines
      <4>1. s \in Seq(T) /\ R + 1 \in Nat \ {0} /\ SearchBytes \in Nat
        BY <1>1, <2>1
      <4> HIDE DEF R, T
      <4> QED
        BY <4>1, HeadIs, ZenonT(60)
    <3> HIDE DEF h, m
    <3> QED
      BY <3>1
  <2>5. m \in 0 .. R
    BY <2>1, CountIs
  <2> HIDE DEF m
  <2>6. CASE h.content = s
    <3>1. shown = SubSeq(rows, 1, R)
      <4> HIDE DEF h
      <4>1. Picks(s, {i \in DOMAIN s : s[i] # "nl"}) = SubSeq(rows, 1, R)
        BY <1>0, <2>1, <2>2, <2>3, RowsShown
      <4> QED
        BY <2>6, <4>1
    <3>2. R \in 0 .. R /\ ~(R < R)
      BY <2>2
    <3> HIDE DEF h, shown, R
    <3> QED
      BY <1>3, <3>1, <3>2
  <2>7. CASE h.content = <<>> /\ h.truncated = TRUE
    <3>1. shown = SubSeq(rows, 1, 0)
      <4> DEFINE c == h.content
      <4>1. c = <<>>
        BY <2>7
      <4>2. shown = Picks(c, {i \in DOMAIN c : c[i] # "nl"})
        OBVIOUS
      <4> HIDE DEF c, shown, h
      <4> QED
        BY ONLY <1>4, <1>5, <4>1, <4>2
    <3>2. 0 \in 0 .. R
      BY <2>2
    <3> HIDE DEF h, shown, R
    <3> QED
      BY <1>3, <2>7, <3>1, <3>2
  <2>8. CASE h.outputLines \in 1 .. m /\ h.content = Lines(s, 1, h.outputLines) /\ h.truncated = TRUE
    <3>1. PICK k \in 1 .. R : k = h.outputLines
      BY <2>2, <2>5, <2>8
    <3> DEFINE v == Lines(s, 1, k)
    <3>2. k \in Nat \ {0} /\ 1 - 1 = 0 /\ 1 \in 1 .. R + 1 /\ k \in 1 - 1 .. R /\ k # 1 - 1 /\ 0 \in 0 .. R /\ k \in 0 .. R
      BY <2>2
    <3>3. /\ v \in Seq(T) /\ Len(v) = Cut(s, k) - Cut(s, 0) - 1
          /\ \A i \in 1 .. Len(v) : v[i] = s[Cut(s, 0) + i]
      <4>1. s \in Seq(T) /\ LineCount(s) = R
        BY ONLY <2>1
      <4> HIDE DEF R, T
      <4> QED
        BY ONLY <3>2, <4>1, LinesAre DEF v
    <3>4. Len(v) = 2 * k - 1 /\ Cut(s, 0) = 0
      BY <2>1, <3>2, <3>3
    <3> HIDE DEF v
    <3>5. \A i \in 1 .. 2 * k - 1 : v[i] = IF i % 2 = 1 THEN rows[(i + 1) \div 2] ELSE "nl"
      <4> TAKE i \in 1 .. 2 * k - 1
      <4>1. v[i] = s[i] /\ i \in 1 .. 2 * R - 1
        BY <2>2, <3>2, <3>3, <3>4
      <4> QED
        BY <2>3, <4>1
    <3>6. Picks(v, {i \in DOMAIN v : v[i] # "nl"}) = SubSeq(rows, 1, k)
      BY <1>0, <3>3, <3>4, <3>5, RowsShown
    <3>7. shown = SubSeq(rows, 1, k)
      <4>1. h.content = v
        BY <2>8, <3>1 DEF v
      <4> HIDE DEF h
      <4> QED
        BY <3>6, <4>1
    <3> HIDE DEF h, shown, R
    <3> QED
      BY <1>3, <2>8, <3>2, <3>7
  <2> QED
    BY <2>4, <2>6, <2>7, <2>8
<1> QED
  BY <1>6, <1>7

-----------------------------------------------------------------------------
(* The lines the process writes, however the pipe cuts them.              *)

LEMMA LargerIs ==
  ASSUME NEW a \in Int, NEW b \in Int
  PROVE  Max({a, b}) = IF a <= b THEN b ELSE a
<1> DEFINE m == IF a <= b THEN b ELSE a
<1>1. m \in {a, b} /\ \A x \in {a, b} : m >= x
  OBVIOUS
<1>2. \A y \in {a, b} : (\A x \in {a, b} : y >= x) => y = m
  OBVIOUS
<1> HIDE DEF m
<1>3. Max({a, b}) = m
  BY <1>1, <1>2 DEF Max
<1> QED
  BY <1>3 DEF m

LEMMA PartOfPart ==
  ASSUME NEW T, NEW s \in Seq(T), NEW i \in 1 .. Len(s) + 1, NEW j \in i - 1 .. Len(s),
         NEW p \in 1 .. j - i + 2, NEW q \in p - 1 .. j - i + 1
  PROVE  SubSeq(SubSeq(s, i, j), p, q) = SubSeq(s, i + p - 1, i + q - 1)
<1> DEFINE u == SubSeq(s, i, j)  v == SubSeq(u, p, q)  w == SubSeq(s, i + p - 1, i + q - 1)
<1>1. u \in Seq(T) /\ Len(u) = j - i + 1 /\ \A k \in 1 .. j - i + 1 : u[k] = s[i + k - 1]
  BY PartIs
<1>2. v \in Seq(T) /\ Len(v) = q - p + 1 /\ \A k \in 1 .. q - p + 1 : v[k] = u[p + k - 1]
  <2>1. p \in 1 .. Len(u) + 1 /\ q \in p - 1 .. Len(u)
    BY <1>1
  <2> HIDE DEF u
  <2> QED
    BY <1>1, <2>1, PartIs
<1>3. w \in Seq(T) /\ Len(w) = q - p + 1 /\ \A k \in 1 .. q - p + 1 : w[k] = s[i + p - 1 + k - 1]
  <2> DEFINE a == i + p - 1  b == i + q - 1
  <2>1. a \in 1 .. Len(s) + 1 /\ b \in a - 1 .. Len(s) /\ b - a + 1 = q - p + 1
    OBVIOUS
  <2> HIDE DEF a, b
  <2>2. SubSeq(s, a, b) \in Seq(T) /\ Len(SubSeq(s, a, b)) = q - p + 1
        /\ \A k \in 1 .. q - p + 1 : SubSeq(s, a, b)[k] = s[a + k - 1]
    BY <2>1, PartIs
  <2> QED
    BY <2>2 DEF a, b
<1>4. \A k \in 1 .. q - p + 1 : v[k] = w[k]
  <2> TAKE k \in 1 .. q - p + 1
  <2>1. p + k - 1 \in 1 .. j - i + 1 /\ i + (p + k - 1) - 1 = i + p - 1 + k - 1
    OBVIOUS
  <2> HIDE DEF u, v, w
  <2> QED
    BY <1>1, <1>2, <1>3, <2>1
<1> HIDE DEF u, v, w
<1>5. v = w
  BY <1>2, <1>3, <1>4, SeqEqual
<1> QED
  BY <1>5 DEF u, v, w

-----------------------------------------------------------------------------
Tags == {"match", "raw", "other"}
Alphabet == Rows \cup {"nl", "o", "end", "raw"}

\* What stands for a line: its row, or that it has none, or that it is no match.
LEMMA TagByteIs ==
  ASSUME NEW tags \in Seq(Tags), Len(tags) <= SearchLines, NEW k \in 1 .. Len(tags)
  PROVE  /\ TagByte(tags, k) \in Alphabet /\ TagByte(tags, k) # "nl"
         /\ tags[k] = "other" => TagByte(tags, k) = "o"
         /\ tags[k] # "other" => TagByte(tags, k) \in RowBytes /\ TagByte(tags, k) # "o"
         /\ tags[k] = "match" => TagByte(tags, k) = Digit[k]
<1>1. k \in 1 .. SearchLines
  BY DigitIs
<1>2. Digit[k] \in Rows /\ Digit[k] # "nl" /\ Digit[k] # "o"
  BY <1>1, DigitIs
<1>3. tags[k] \in Tags
  OBVIOUS
<1>4. CASE tags[k] = "match"
  <2>1. TagByte(tags, k) = Digit[k]
    BY <1>4 DEF TagByte
  <2> QED
    BY <1>2, <1>4, <2>1 DEF Alphabet, RowBytes
<1>5. CASE tags[k] = "raw"
  <2>1. TagByte(tags, k) = "raw"
    BY <1>5 DEF TagByte
  <2> QED
    BY <1>5, <2>1 DEF Alphabet, RowBytes
<1>6. CASE tags[k] = "other"
  <2>1. TagByte(tags, k) = "o"
    BY <1>6 DEF TagByte
  <2> QED
    BY <1>6, <2>1 DEF Alphabet, RowBytes
<1> QED
  BY <1>3, <1>4, <1>5, <1>6 DEF Tags

\* The process writes three bytes for a line: the tag, the end and the newline.
LEMMA WrittenIs ==
  ASSUME NEW tags \in Seq(Tags), Len(tags) <= SearchLines
  PROVE  /\ Written(tags) \in Seq(Alphabet) /\ Len(Written(tags)) = 3 * Len(tags)
         /\ \A c \in 0 .. Len(tags) - 1 :
              /\ Written(tags)[3 * c + 1] = TagByte(tags, c + 1)
              /\ Written(tags)[3 * c + 2] = "end"
              /\ Written(tags)[3 * c + 3] = "nl"
              /\ Written(tags)[3 * c + 1] # "nl"
<1> DEFINE W == Written(tags)  n == 3 * Len(tags)
<1>1. Len(tags) \in Nat /\ n \in Nat /\ DOMAIN tags = 1 .. Len(tags)
  OBVIOUS
<1>2. W = [i \in 1 .. n |-> LineByte(tags, (i + 2) \div 3, (i + 2) % 3)]
  BY DEF Written
<1>3. ASSUME NEW i \in 1 .. n PROVE LineByte(tags, (i + 2) \div 3, (i + 2) % 3) \in Alphabet
  <2>1. (i + 2) \div 3 \in 1 .. Len(tags)
    BY <1>1
  <2>2. TagByte(tags, (i + 2) \div 3) \in Alphabet
    BY <2>1, TagByteIs
  <2> QED
    BY <2>2 DEF LineByte, Alphabet
<1> HIDE DEF n, W
<1>4. W \in Seq(Alphabet) /\ Len(W) = n
  <2>1. W \in [1 .. n -> Alphabet]
    BY <1>2, <1>3
  <2> QED
    BY <1>1, <2>1
<1>5. ASSUME NEW c \in 0 .. Len(tags) - 1
      PROVE  /\ W[3 * c + 1] = TagByte(tags, c + 1)
             /\ W[3 * c + 2] = "end" /\ W[3 * c + 3] = "nl" /\ W[3 * c + 1] # "nl"
  <2>1. /\ 3 * c + 1 \in 1 .. n /\ 3 * c + 2 \in 1 .. n /\ 3 * c + 3 \in 1 .. n
        /\ (3 * c + 1 + 2) \div 3 = c + 1 /\ (3 * c + 1 + 2) % 3 = 0
        /\ (3 * c + 2 + 2) % 3 = 1 /\ (3 * c + 3 + 2) % 3 = 2
    BY <1>1 DEF n
  <2>2. W[3 * c + 1] = LineByte(tags, c + 1, 0)
    BY <1>2, <2>1
  <2>3. W[3 * c + 2] = LineByte(tags, (3 * c + 2 + 2) \div 3, 1)
    BY <1>2, <2>1
  <2>4. W[3 * c + 3] = LineByte(tags, (3 * c + 3 + 2) \div 3, 2)
    BY <1>2, <2>1
  <2>5. c + 1 \in 1 .. Len(tags)
    BY <1>1
  <2>6. TagByte(tags, c + 1) # "nl"
    BY <2>5, TagByteIs
  <2> QED
    BY <2>2, <2>3, <2>4, <2>6 DEF LineByte
<1> QED
  BY <1>4, <1>5 DEF W, n

\* A text without a newline is one line, a text with one is two.
LEMMA OneLine ==
  ASSUME NEW T, NEW s \in Seq(T), \A p : p \in LineEnds(s) <=> p = Len(s) + 1
  PROVE  LineCount(s) = 1
<1>1. LineEnds(s) = {Len(s) + 1}
  OBVIOUS
<1> QED
  BY <1>1, FS_Singleton DEF LineCount

LEMMA TwoLines ==
  ASSUME NEW T, NEW s \in Seq(T), NEW e \in 1 .. Len(s),
         \A p : p \in LineEnds(s) <=> p = e \/ p = Len(s) + 1
  PROVE  /\ LineCount(s) = 2
         /\ Len(Lines(s, 1, 1)) = e - 1 /\ (e > 1 => Lines(s, 1, 1)[1] = s[1])
         /\ Lines(s, 2, 2) = SubSeq(s, e + 1, Len(s))
<1> DEFINE first == {e}  last == Len(s) + 1
<1>1. LineEnds(s) = first \cup {last} /\ last \notin first
  OBVIOUS
<1>2. IsFiniteSet(first) /\ Cardinality(first) = 1
  BY FS_Singleton
<1>3. LineCount(s) = 2
  <2> HIDE DEF first, last
  <2>1. Cardinality(first \cup {last}) = Cardinality(first) + 1
    BY ONLY <1>1, <1>2, FS_AddElement, Zenon
  <2>2. LineCount(s) = Cardinality(first \cup {last})
    BY ONLY <1>1 DEF LineCount
  <2> QED
    BY ONLY <1>2, <2>1, <2>2
<1>4. /\ Cut(s, 0) = 0
      /\ \A k \in 1 .. LineCount(s) : Cut(s, k) \in LineEnds(s)
      /\ \A i, j \in 0 .. LineCount(s) : i < j => Cut(s, i) < Cut(s, j)
      /\ Cut(s, LineCount(s)) = Len(s) + 1
  BY CutsAre
<1>5. Cut(s, 1) \in LineEnds(s) /\ Cut(s, 1) < Cut(s, 2) /\ Cut(s, 2) = Len(s) + 1
  BY <1>3, <1>4
<1>6. Cut(s, 1) = e
  BY <1>1, <1>5
<1>7. Lines(s, 1, 1) = SubSeq(s, 1, e - 1)
  <2>1. Lines(s, 1, 1) = SubSeq(s, Cut(s, 0) + 1, Cut(s, 1) - 1)
    BY DEF Lines
  <2> QED
    BY <1>4, <1>6, <2>1
<1>8. Len(Lines(s, 1, 1)) = e - 1 /\ (e > 1 => Lines(s, 1, 1)[1] = s[1])
  <2>1. 1 \in 1 .. Len(s) + 1 /\ e - 1 \in 1 - 1 .. Len(s)
    OBVIOUS
  <2>2. /\ Len(SubSeq(s, 1, e - 1)) = (e - 1) - 1 + 1
        /\ \A k \in 1 .. (e - 1) - 1 + 1 : SubSeq(s, 1, e - 1)[k] = s[1 + k - 1]
    BY <2>1, PartIs
  <2>3. (e - 1) - 1 + 1 = e - 1 /\ (e > 1 => 1 \in 1 .. e - 1)
    OBVIOUS
  <2> QED
    BY <1>7, <2>2, <2>3
<1>9. Lines(s, 2, 2) = SubSeq(s, e + 1, Len(s))
  <2>1. Lines(s, 2, 2) = SubSeq(s, Cut(s, 1) + 1, Cut(s, 2) - 1)
    BY DEF Lines
  <2>2. Cut(s, 1) + 1 = e + 1
    BY <1>6
  <2>3. Cut(s, 2) - 1 = Len(s)
    BY <1>5
  <2> QED
    BY ONLY <2>1, <2>2, <2>3, Zenon
<1> QED
  BY <1>3, <1>8, <1>9

\* What a chunk of at most three bytes makes of the rest of a line and the bytes after it.
\* The lines of a chunk that begins r bytes after the c-th line: one is complete, or none is.
ChunkSplits(tags, c, r, n, text) ==
  /\ r + n < 3 => Carry(text).complete = 0 /\ Carry(text).rest = text
  /\ r + n >= 3 => /\ Carry(text).complete = 1
                   /\ Carry(text).rest = SubSeq(Written(tags), 3 * c + 4, 3 * c + r + n)
                   /\ Len(Lines(text, 1, 1)) = 2
                   /\ Lines(text, 1, 1)[1] = Written(tags)[3 * c + 1]

LEMMA ChunkIs ==
  ASSUME NEW tags \in Seq(Tags), Len(tags) <= SearchLines,
         NEW c \in 0 .. Len(tags), NEW r \in 0 .. 2, NEW n \in 1 .. 3, 3 * c + r + n <= 3 * Len(tags),
         NEW text, text = SubSeq(Written(tags), 3 * c + 1, 3 * c + r + n)
  PROVE  ChunkSplits(tags, c, r, n, text)
<1> SUFFICES /\ r + n < 3 => Carry(text).complete = 0 /\ Carry(text).rest = text
             /\ r + n >= 3 => /\ Carry(text).complete = 1
                              /\ Carry(text).rest = SubSeq(Written(tags), 3 * c + 4, 3 * c + r + n)
                              /\ Len(Lines(text, 1, 1)) = 2
                              /\ Lines(text, 1, 1)[1] = Written(tags)[3 * c + 1]
  BY DEF ChunkSplits
<1> DEFINE W == Written(tags)  L == r + n
<1>1. /\ W \in Seq(Alphabet) /\ Len(W) = 3 * Len(tags) /\ Len(tags) \in Nat /\ c < Len(tags)
      /\ \A d \in 0 .. Len(tags) - 1 : W[3 * d + 2] = "end" /\ W[3 * d + 3] = "nl" /\ W[3 * d + 1] # "nl"
  BY WrittenIs
<1> HIDE DEF W
<1>2. 3 * c + 1 \in 1 .. Len(W) + 1 /\ 3 * c + L \in 3 * c + 1 - 1 .. Len(W) /\ L \in 1 .. 5
      /\ 3 * c + L - (3 * c + 1) + 1 = L /\ \A k \in 1 .. L : 3 * c + 1 + k - 1 = 3 * c + k
  BY <1>1
<1>3. text \in Seq(Alphabet) /\ Len(text) = L /\ \A k \in 1 .. L : text[k] = W[3 * c + k]
  <2>1. text = SubSeq(W, 3 * c + 1, 3 * c + L)
    BY DEF W
  <2> DEFINE a == 3 * c + 1  b == 3 * c + L
  <2>2. a \in 1 .. Len(W) + 1 /\ b \in a - 1 .. Len(W) /\ b - a + 1 = L /\ \A k \in 1 .. L : a + k - 1 = 3 * c + k
    BY <1>2
  <2> HIDE DEF L, a, b
  <2>3. /\ SubSeq(W, a, b) \in Seq(Alphabet) /\ Len(SubSeq(W, a, b)) = b - a + 1
        /\ \A k \in 1 .. b - a + 1 : SubSeq(W, a, b)[k] = W[a + k - 1]
    BY <1>1, <2>2, PartIs
  <2>4. text = SubSeq(W, a, b)
    BY <2>1 DEF a, b
  <2> QED
    BY <2>2, <2>3, <2>4
<1>4. \A k \in 1 .. L : text[k] = "nl" <=> k = 3
  <2>1. c \in 0 .. Len(tags) - 1
    BY <1>1
  <2>2. W[3 * c + 1] # "nl" /\ W[3 * c + 2] # "nl" /\ W[3 * c + 3] = "nl"
    BY <1>1, <2>1
  <2>3. ASSUME L > 3 PROVE W[3 * c + 4] # "nl" /\ (L > 4 => W[3 * c + 5] # "nl")
    <3>1. c + 1 \in 0 .. Len(tags) - 1 /\ 3 * (c + 1) + 1 = 3 * c + 4 /\ 3 * (c + 1) + 2 = 3 * c + 5
      BY <1>1, <2>3
    <3> QED
      BY <1>1, <3>1
  <2> TAKE k \in 1 .. L
  <2>4. k \in {1, 2, 3, 4, 5} /\ k <= L
    BY <1>2
  <2> HIDE DEF L
  <2>5. text[k] = W[3 * c + k]
    BY ONLY <1>2, <1>3, <2>4
  <2>6. CASE k = 3
    BY ONLY <2>2, <2>5, <2>6
  <2>7. CASE k = 1 \/ k = 2
    BY ONLY <2>2, <2>5, <2>7
  <2>8. CASE k = 4 \/ k = 5
    <3>1. L \in Int /\ L > 3 /\ (k = 5 => L > 4)
      BY ONLY <1>2, <2>4, <2>8
    <3> QED
      BY ONLY <2>3, <2>5, <2>8, <3>1
  <2> QED
    BY ONLY <2>4, <2>6, <2>7, <2>8
<1>5. \A i : i \in LineEnds(text) <=> i \in 1 .. L + 1 /\ (i <= L => i = 3)
  <2>1. \A i : i \in LineEnds(text) <=> i \in 1 .. Len(text) + 1 /\ (i <= Len(text) => text[i] = "nl")
    BY <1>3, EndsAre
  <2> HIDE DEF L
  <2> QED
    BY ONLY <1>2, <1>3, <1>4, <2>1
<1>6. Carry(text).complete = LineCount(text) - 1 /\ Carry(text).rest = Lines(text, LineCount(text), LineCount(text))
  BY DEF Carry
<1>7. ASSUME L < 3 PROVE Carry(text).complete = 0 /\ Carry(text).rest = text
  <2>1. \A p : p \in LineEnds(text) <=> p = Len(text) + 1
    BY <1>2, <1>3, <1>5, <1>7
  <2>6. LineCount(text) = 1
    BY <1>3, <2>1, OneLine
  <2>7. Lines(text, 1, 1) = text
    BY <1>3, <2>6, WholeText
  <2> QED
    BY <1>6, <2>6, <2>7
<1>8. ASSUME L >= 3
      PROVE  /\ Carry(text).complete = 1 /\ Carry(text).rest = SubSeq(W, 3 * c + 4, 3 * c + L)
             /\ Len(Lines(text, 1, 1)) = 2 /\ Lines(text, 1, 1)[1] = W[3 * c + 1]
  <2>1. 3 \in 1 .. Len(text)
    BY <1>2, <1>3, <1>8
  <2>2. \A p : p \in LineEnds(text) <=> p = 3 \/ p = Len(text) + 1
    <3> HIDE DEF L
    <3>1. \A p : p \in LineEnds(text) => p = 3 \/ p = L + 1
      BY ONLY <1>2, <1>5
    <3>2. 3 \in LineEnds(text) /\ L + 1 \in LineEnds(text)
      BY ONLY <1>2, <1>5, <1>8
    <3> QED
      BY <1>3, <3>1, <3>2
  <2>7. LineCount(text) = 2
        /\ Len(Lines(text, 1, 1)) = 3 - 1 /\ (3 > 1 => Lines(text, 1, 1)[1] = text[1])
        /\ Lines(text, 2, 2) = SubSeq(text, 3 + 1, Len(text))
    <3> HIDE DEF L
    <3> QED
      BY <1>3, <2>1, <2>2, TwoLines
  <2>8. Len(Lines(text, 1, 1)) = 2 /\ Lines(text, 1, 1)[1] = text[1]
    BY ONLY <2>7
  <2>9. Lines(text, 2, 2) = SubSeq(text, 4, L)
    <3> HIDE DEF L
    <3> QED
      BY ONLY <1>3, <2>7
  <2>10. SubSeq(text, 4, L) = SubSeq(W, 3 * c + 4, 3 * c + L)
    <3>1. /\ 4 \in 1 .. 3 * c + L - (3 * c + 1) + 2 /\ L \in 4 - 1 .. 3 * c + L - (3 * c + 1) + 1
          /\ 3 * c + 1 + 4 - 1 = 3 * c + 4 /\ 3 * c + 1 + L - 1 = 3 * c + L
      BY <1>2, <1>8
    <3>2. text = SubSeq(W, 3 * c + 1, 3 * c + L)
      BY DEF W
    <3> DEFINE a == 3 * c + 1  b == 3 * c + L
    <3>3. a \in 1 .. Len(W) + 1 /\ b \in a - 1 .. Len(W) /\ 4 \in 1 .. b - a + 2 /\ L \in 4 - 1 .. b - a + 1
      BY <1>2, <3>1
    <3> HIDE DEF a, b, L
    <3>4. SubSeq(SubSeq(W, a, b), 4, L) = SubSeq(W, a + 4 - 1, a + L - 1)
      BY <1>1, <3>3, PartOfPart
    <3> QED
      BY <3>1, <3>2, <3>4 DEF a, b
  <2>11. Carry(text).complete = 1
    BY <1>6, <2>7
  <2>12. Carry(text).rest = Lines(text, 2, 2)
    BY <1>6, <2>7
  <2>13. text[1] = W[3 * c + 1]
    <3>1. 1 \in 1 .. L
      BY <1>2
    <3> HIDE DEF L
    <3> QED
      BY <1>3, <3>1
  <2> HIDE DEF L
  <2> QED
    BY <2>8, <2>9, <2>10, <2>11, <2>12, <2>13
<1> QED
  BY <1>7, <1>8 DEF W

-----------------------------------------------------------------------------
(* One call of grep, find or ls.                                          *)

\* The arguments of a call: what init gives them.
Query ==
  /\ query.tool \in {"grep", "find", "ls"} /\ query.limit \in Int
  /\ query.tags \in Seq(Tags) /\ Len(query.tags) <= SearchLines
  /\ query.tool # "grep" => \A k \in 1 .. Len(query.tags) : query.tags[k] # "raw"

\* The lines the process writes, and the matches among them.
Sent ==
  IF query.tool = "find" THEN [k \in 1 .. Min({Len(query.tags), EffectiveLimit}) |-> "match"]
  ELSE query.tags
Hits == {k \in DOMAIN Sent : Sent[k] # "other"}

Capped(n) == IF n <= EffectiveLimit THEN n ELSE EffectiveLimit

\* Rows that are the first matches.
FirstHits(rows) ==
  /\ rows \in Seq(RowBytes) /\ Len(rows) <= Cardinality(Hits)
  /\ \A i \in 1 .. Len(rows) : rows[i] = TagByte(Sent, Nth(Hits, i))

LEMMA LimitIs ==
  ASSUME Query
  PROVE  EffectiveLimit \in Int /\ (query.tool # "ls" => EffectiveLimit >= 1)
<1>1. query.limit \in Int
  BY DEF Query
<1>2. CASE query.tool = "ls"
  BY <1>1, <1>2 DEF EffectiveLimit
<1>3. CASE query.tool # "ls"
  <2>1. Max({1, query.limit}) = IF 1 <= query.limit THEN query.limit ELSE 1
    BY <1>1, LargerIs
  <2> QED
    BY <1>1, <1>3, <2>1 DEF EffectiveLimit
<1> QED
  BY <1>2, <1>3

LEMMA SentIs ==
  ASSUME Query
  PROVE  /\ Sent \in Seq(Tags) /\ Len(Sent) <= SearchLines /\ Len(Sent) \in Nat
         /\ Hits \in SUBSET (1 .. Len(Sent))
         /\ \A k \in 1 .. Len(Sent) : k \in Hits <=> Sent[k] # "other"
         /\ query.tool # "find" => Sent = query.tags
         /\ query.tool = "find" => /\ Len(Sent) = Capped(Len(query.tags))
                                   /\ Hits = 1 .. Len(Sent)
                                   /\ \A k \in 1 .. Len(Sent) : Sent[k] = "match"
<1>1. query.tags \in Seq(Tags) /\ Len(query.tags) \in Nat /\ Len(query.tags) <= SearchLines /\ SearchLines \in Nat
  BY DigitIs DEF Query
<1>2. CASE query.tool = "find"
  <2> DEFINE n == Min({Len(query.tags), EffectiveLimit})
  <2>1. EffectiveLimit \in Int /\ EffectiveLimit >= 1
    BY <1>2, LimitIs
  <2>2. n = Capped(Len(query.tags))
    BY <1>1, <2>1, SmallerIs DEF Capped
  <2>3. n \in Nat /\ n <= SearchLines
    BY <1>1, <2>1, <2>2 DEF Capped
  <2>4. Sent = [k \in 1 .. n |-> "match"]
    BY <1>2 DEF Sent
  <2> HIDE DEF n
  <2>5. Sent \in Seq(Tags) /\ Len(Sent) = n /\ DOMAIN Sent = 1 .. n
    <3>1. Sent \in [1 .. n -> Tags]
      BY <2>4 DEF Tags
    <3> QED
      BY <2>3, <3>1
  <2>6. \A k : k \in Hits <=> k \in 1 .. n
    BY <2>4, <2>5 DEF Hits
  <2>7. Hits = 1 .. n
    BY <2>6
  <2> QED
    BY <1>2, <2>2, <2>3, <2>4, <2>5, <2>7
<1>3. CASE query.tool # "find"
  <2>1. Sent = query.tags
    BY <1>3 DEF Sent
  <2>2. DOMAIN Sent = 1 .. Len(Sent)
    BY <1>1, <2>1
  <2>3. \A k : k \in Hits <=> k \in 1 .. Len(Sent) /\ Sent[k] # "other"
    BY <2>2 DEF Hits
  <2> QED
    BY <1>1, <1>3, <2>1, <2>3
<1> QED
  BY <1>2, <1>3

LEMMA HitsAre ==
  ASSUME Query, NEW c \in 0 .. Len(Sent)
  PROVE  /\ IsFiniteSet(Hits) /\ Hits \in SUBSET Nat /\ Cardinality(Hits) \in Nat
         /\ Rank(Hits, c) \in 0 .. Cardinality(Hits)
         /\ Rank(Hits, 0) = 0 /\ Rank(Hits, Len(Sent)) = Cardinality(Hits)
         /\ c < Len(Sent) => Rank(Hits, c + 1) = IF c + 1 \in Hits THEN Rank(Hits, c) + 1 ELSE Rank(Hits, c)
<1>1. Len(Sent) \in Nat /\ Hits \in SUBSET (1 .. Len(Sent))
  BY SentIs
<1> DEFINE m == Len(Sent)  S == Hits
<1>2. m \in Nat /\ S \in SUBSET (1 .. m) /\ c \in 0 .. m
  BY <1>1
<1> HIDE DEF m, S
<1>3. RankCounts(S, m, c)
  BY ONLY <1>2, RankSteps
<1> QED
  BY <1>3 DEF m, S, RankCounts

\* The next match, put after the ones before it.
LEMMA HitAdded ==
  ASSUME Query, NEW rows, FirstHits(rows), NEW c \in 0 .. Len(Sent) - 1, c + 1 \in Hits,
         Len(rows) = Rank(Hits, c)
  PROVE  FirstHits(Append(rows, TagByte(Sent, c + 1))) /\ Len(Append(rows, TagByte(Sent, c + 1))) = Rank(Hits, c + 1)
<1> DEFINE d == TagByte(Sent, c + 1)  L == Len(rows)  after == Append(rows, d)
<1>1. /\ Hits \in SUBSET Nat /\ IsFiniteSet(Hits) /\ Cardinality(Hits) \in Nat
      /\ Rank(Hits, c + 1) = L + 1 /\ Rank(Hits, c + 1) \in 0 .. Cardinality(Hits)
  <2>1. c \in 0 .. Len(Sent) /\ c < Len(Sent) /\ c + 1 \in 0 .. Len(Sent)
    BY SentIs
  <2> QED
    BY <2>1, HitsAre
<1>2. d \in RowBytes
  <2>1. /\ Sent \in Seq(Tags) /\ Len(Sent) <= SearchLines /\ c + 1 \in 1 .. Len(Sent)
        /\ Sent[c + 1] # "other"
    BY SentIs
  <2> QED
    BY <2>1, TagByteIs
<1>3. rows \in Seq(RowBytes) /\ L \in Nat /\ \A i \in 1 .. L : rows[i] = TagByte(Sent, Nth(Hits, i))
  BY DEF FirstHits
<1>4. after \in Seq(RowBytes) /\ Len(after) = L + 1 /\ after[L + 1] = d /\ \A i \in 1 .. L : after[i] = rows[i]
  <2> HIDE DEF d
  <2> QED
    BY <1>2, <1>3, AppendProperties
<1>5. Nth(Hits, L + 1) = c + 1
  BY <1>1, NthOfRank
<1> HIDE DEF after
<1>6. \A i \in 1 .. L + 1 : after[i] = TagByte(Sent, Nth(Hits, i))
  <2> TAKE i \in 1 .. L + 1
  <2>1. CASE i = L + 1
    BY <1>4, <1>5, <2>1
  <2>2. CASE i # L + 1
    <3>1. i \in 1 .. L
      BY <1>3, <2>2
    <3> QED
      BY <1>3, <1>4, <3>1
  <2> QED
    BY <2>1, <2>2
<1>7. FirstHits(after) /\ Len(after) = Rank(Hits, c + 1)
  BY <1>1, <1>4, <1>6 DEF FirstHits
<1> QED
  BY <1>7 DEF after

\* A complete line: a match is taken up to the limit, anything else is not.
LEMMA LineTaken ==
  ASSUME Query, query.tool # "ls", NEW rows, FirstHits(rows), NEW c \in 0 .. Len(Sent) - 1,
         Len(rows) = Capped(Rank(Hits, c)),
         NEW line, Len(line) = 2, line[1] = Written(Sent)[3 * c + 1]
  PROVE  /\ FirstHits(handleLine(rows, line)) /\ Len(handleLine(rows, line)) = Capped(Rank(Hits, c + 1))
         /\ query.tool = "grep" /\ Len(rows) >= EffectiveLimit => handleLine(rows, line) = rows
<1> DEFINE R(k) == Rank(Hits, k)
<1>1. /\ EffectiveLimit \in Int /\ EffectiveLimit >= 1 /\ query.tool \in {"grep", "find"}
  BY LimitIs DEF Query
<1>2. /\ Len(Sent) \in Nat /\ c \in 0 .. Len(Sent) /\ c < Len(Sent) /\ c + 1 \in 1 .. Len(Sent) /\ c + 1 \in 0 .. Len(Sent)
  BY SentIs
<1>3. /\ R(c) \in Nat /\ R(c + 1) = IF c + 1 \in Hits THEN R(c) + 1 ELSE R(c)
      /\ R(c + 1) <= Cardinality(Hits) /\ Cardinality(Hits) \in Nat
  BY <1>2, HitsAre
<1>4. line # <<>>
  <2> SUFFICES ASSUME line = <<>> PROVE FALSE
    OBVIOUS
  <2>1. Len(line) = 0
    BY ONLY line = <<>>
  <2> QED
    BY <2>1
<1>5. line[1] = TagByte(Sent, c + 1)
  <2>1. Sent \in Seq(Tags) /\ Len(Sent) <= SearchLines
    BY SentIs
  <2> QED
    BY <2>1, WrittenIs
<1>6. query.tool = "grep" /\ Len(rows) >= EffectiveLimit => handleLine(rows, line) = rows
  BY DEF handleLine
<1>7. CASE c + 1 \in Hits
  <2>1. line[1] # "o"
    <3>1. Sent \in Seq(Tags) /\ Len(Sent) <= SearchLines /\ Sent[c + 1] # "other"
      BY <1>2, <1>7, SentIs
    <3> QED
      BY <1>2, <1>5, <3>1, TagByteIs
  <2>2. CASE R(c) >= EffectiveLimit
    <3>1. query.tool = "grep"
      <4> SUFFICES ASSUME query.tool = "find" PROVE FALSE
        BY <1>1
      <4>1. Hits = 1 .. Len(Sent) /\ Len(Sent) = Capped(Len(query.tags)) /\ Len(query.tags) \in Nat
        BY SentIs DEF Query
      <4>2. Len(Sent) <= EffectiveLimit
        BY <1>1, <4>1 DEF Capped
      <4>3. Cardinality(Hits) = Len(Sent)
        BY <1>2, <4>1, FS_Interval
      <4> HIDE DEF R
      <4> QED
        BY <1>1, <1>2, <1>3, <1>7, <2>2, <4>2, <4>3
    <3>2. Len(rows) = EffectiveLimit
      BY <1>1, <1>3, <2>2 DEF Capped
    <3>3. handleLine(rows, line) = rows
      BY <1>1, <1>6, <3>1, <3>2
    <3>4. Capped(R(c + 1)) = EffectiveLimit
      BY <1>1, <1>3, <1>7, <2>2 DEF Capped
    <3> QED
      BY <1>6, <3>2, <3>3, <3>4
  <2>3. CASE R(c) < EffectiveLimit
    <3>1. Len(rows) = R(c) /\ Capped(R(c + 1)) = R(c + 1)
      BY <1>1, <1>3, <1>7, <2>3 DEF Capped
    <3>2. ~(Len(rows) >= EffectiveLimit) /\ ~(Len(line) < 2)
      BY <1>1, <1>3, <2>3, <3>1
    <3>3. handleLine(rows, line) = Append(rows, TagByte(Sent, c + 1))
      BY <1>4, <1>5, <2>1, <3>2 DEF handleLine
    <3>4. FirstHits(Append(rows, TagByte(Sent, c + 1))) /\ Len(Append(rows, TagByte(Sent, c + 1))) = R(c + 1)
      BY <1>7, <3>1, HitAdded
    <3> QED
      BY <1>6, <3>1, <3>3, <3>4
  <2> QED
    BY <1>1, <1>3, <2>2, <2>3
<1>8. CASE c + 1 \notin Hits
  <2>1. query.tool = "grep"
    BY <1>1, <1>2, <1>8, SentIs
  <2>2. line[1] = "o"
    <3>1. Sent \in Seq(Tags) /\ Len(Sent) <= SearchLines /\ Sent[c + 1] = "other"
      BY <1>2, <1>8, SentIs
    <3> QED
      BY <1>2, <1>5, <3>1, TagByteIs
  <2>3. handleLine(rows, line) = rows
    BY <2>1, <2>2 DEF handleLine
  <2> QED
    BY <1>3, <1>6, <1>8, <2>3
<1> QED
  BY <1>7, <1>8

\* All the matches there are begin with those among the lines.
LEMMA AllMatchesAre ==
  ASSUME Query
  PROVE  /\ AllMatches \in Seq(RowBytes) /\ Len(AllMatches) >= Cardinality(Hits) /\ Cardinality(Hits) \in Nat
         /\ \A i \in 1 .. Cardinality(Hits) : AllMatches[i] = TagByte(Sent, Nth(Hits, i))
         /\ query.tool # "find" => Len(AllMatches) = Cardinality(Hits)
         /\ query.tool = "find" /\ Cardinality(Hits) < EffectiveLimit => Len(AllMatches) = Cardinality(Hits)
<1> DEFINE C == Cardinality(Hits)
<1>1. C \in Nat /\ IsFiniteSet(Hits) /\ Hits \in SUBSET Nat /\ Hits \in SUBSET (1 .. SearchLines)
  <2>1. 0 \in 0 .. Len(Sent) /\ Hits \in SUBSET (1 .. Len(Sent)) /\ Len(Sent) \in Nat /\ Len(Sent) <= SearchLines
    BY SentIs
  <2> QED
    BY <2>1, HitsAre, DigitIs
<1>2. CASE query.tool # "find"
  <2> DEFINE marks == [k \in DOMAIN Sent |-> TagByte(Sent, k)]
  <2>0. /\ Sent = query.tags /\ Sent \in Seq(Tags) /\ Len(Sent) <= SearchLines /\ DOMAIN Sent = 1 .. Len(Sent)
        /\ \A k \in Hits : k \in 1 .. Len(Sent) /\ Sent[k] # "other"
    BY <1>2, SentIs DEF Hits
  <2>1. AllMatches = Picks(marks, Hits)
    BY <1>2, <2>0 DEF AllMatches, MatchesOf, Hits
  <2>3. \A i \in 1 .. C : Nth(Hits, i) \in DOMAIN Sent /\ TagByte(Sent, Nth(Hits, i)) \in RowBytes
    <3> TAKE i \in 1 .. C
    <3>1. Nth(Hits, i) \in Hits
      BY <1>1, NthIs
    <3>2. Nth(Hits, i) \in 1 .. Len(Sent) /\ Sent[Nth(Hits, i)] # "other"
      BY <2>0, <3>1
    <3> QED
      BY <2>0, <3>2, TagByteIs
  <2>2. AllMatches = [i \in 1 .. C |-> TagByte(Sent, Nth(Hits, i))]
    <3>1. AllMatches = [i \in 1 .. C |-> marks[Nth(Hits, i)]]
      BY <2>1 DEF Picks
    <3>2. \A i \in 1 .. C : marks[Nth(Hits, i)] = TagByte(Sent, Nth(Hits, i))
      BY <2>3
    <3> HIDE DEF marks, C
    <3> QED
      BY <3>1, <3>2
  <2> HIDE DEF marks
  <2> HIDE DEF C
  <2>4. AllMatches \in [1 .. C -> RowBytes]
    BY <2>2, <2>3
  <2>5. AllMatches \in Seq(RowBytes) /\ Len(AllMatches) = C
    BY <1>1, <2>4
  <2> QED
    BY <1>1, <1>2, <2>2, <2>5 DEF C
<1>3. CASE query.tool = "find"
  <2> DEFINE n == Len(query.tags)
  <2>1. n \in Nat /\ n <= SearchLines /\ Len(Sent) \in Nat /\ Len(Sent) = Capped(n) /\ Hits = 1 .. Len(Sent)
        /\ EffectiveLimit \in Int /\ EffectiveLimit >= 1
    BY <1>3, SentIs, LimitIs DEF Query
  <2>2. C = Len(Sent)
    BY <2>1, FS_Interval
  <2>3. C <= n /\ (C < EffectiveLimit => C = n)
    BY <2>1, <2>2 DEF Capped
  <2>4. Digit \in Seq(Rows) /\ Len(Digit) = SearchLines
    BY DigitIs
  <2>5. /\ AllMatches \in Seq(RowBytes) /\ Len(AllMatches) = n
        /\ \A i \in 1 .. n : AllMatches[i] = Digit[i]
    <3>1. 1 \in 1 .. Len(Digit) + 1 /\ n \in 1 - 1 .. Len(Digit)
      BY <2>1, <2>4
    <3>2. /\ SubSeq(Digit, 1, n) \in Seq(Rows) /\ Len(SubSeq(Digit, 1, n)) = n - 1 + 1
          /\ \A i \in 1 .. n - 1 + 1 : SubSeq(Digit, 1, n)[i] = Digit[1 + i - 1]
      <4> HIDE DEF n
      <4> QED
        BY <2>4, <3>1, PartIs
    <3>3. AllMatches = SubSeq(Digit, 1, n)
      BY <1>3 DEF AllMatches
    <3>4. n - 1 + 1 = n /\ \A i \in 1 .. n : 1 + i - 1 = i
      BY <2>1
    <3> HIDE DEF n
    <3>5. AllMatches \in Seq(Rows) /\ Len(AllMatches) = n /\ \A i \in 1 .. n : AllMatches[i] = Digit[i]
      BY <3>2, <3>3, <3>4
    <3>6. AllMatches \in Seq(RowBytes)
      BY <3>5 DEF RowBytes
    <3> QED
      BY <3>5, <3>6
  <2>6. \A i \in 1 .. C : Nth(Hits, i) = i
    <3> DEFINE f == [i \in 1 .. C |-> i]
    <3>1. Hits = 1 .. C
      BY <2>1, <2>2
    <3>2. f \in [1 .. C -> Hits] /\ \A i \in 1 .. C : f[i] = i
      <4> HIDE DEF C
      <4> QED
        BY <3>1
    <3>3. \A i, j \in 1 .. C : i < j => f[i] < f[j]
      BY <3>2
    <3>4. \A x \in Hits : \E i \in 1 .. C : f[i] = x
      BY <3>1, <3>2
    <3> HIDE DEF C, f
    <3>5. \A i \in 1 .. C : Nth(Hits, i) = f[i]
      <4>1. C \in Nat /\ Hits \in SUBSET Nat
        BY <1>1
      <4>2. Enumerates(f, C, Hits)
        BY ONLY <4>1, <3>2, <3>3, <3>4 DEF Enumerates
      <4> QED
        BY ONLY <4>1, <4>2, NthIsTheOnly
    <3> QED
      BY <3>2, <3>5
  <2>8. \A i \in 1 .. C : TagByte(Sent, i) = Digit[i]
    <3> TAKE i \in 1 .. C
    <3>1. Sent \in Seq(Tags) /\ Len(Sent) <= SearchLines /\ i \in 1 .. Len(Sent) /\ Sent[i] = "match"
      BY <1>3, <2>2, SentIs
    <3> QED
      BY <3>1, TagByteIs
  <2> HIDE DEF n, C
  <2>7. \A i \in 1 .. C : AllMatches[i] = TagByte(Sent, Nth(Hits, i))
    <3> TAKE i \in 1 .. C
    <3>1. i \in 1 .. n
      BY <1>1, <2>1, <2>3
    <3> QED
      BY <2>5, <2>6, <2>8, <3>1
  <2> QED
    BY <1>1, <1>3, <2>1, <2>3, <2>5, <2>7 DEF C
<1> QED
  BY <1>2, <1>3

\* c lines have been taken and r bytes of the next one wait.
Reading(c, r) ==
  /\ c \in 0 .. Len(Sent) /\ r \in 0 .. 2 /\ 3 * c + r <= 3 * Len(Sent)
  /\ pending = SubSeq(Written(Sent), 3 * c + 1, 3 * c + r)
  /\ rg.out = SubSeq(Written(Sent), 3 * c + r + 1, 3 * Len(Sent))
  /\ FirstHits(found) /\ Len(found) = Capped(Rank(Hits, c))

Running ==
  /\ query.tool \in {"grep", "find"}
  /\ rg = [out |-> rg.out, alive |-> rg.alive, code |-> rg.code]
  /\ aborted \in BOOLEAN
  /\ aborted = TRUE => query.tool = "grep" /\ Len(found) >= EffectiveLimit
  /\ aborted = FALSE => rg.code = 0
  /\ \E c, r \in Nat : Reading(c, r)

\* Rows that are all the matches, or as many as the limit asks for.
Enough(rows) ==
  /\ FirstHits(rows) /\ Len(rows) <= EffectiveLimit
  /\ Len(rows) = Cardinality(Hits) \/ Len(rows) >= EffectiveLimit

Flushing ==
  /\ query.tool \in {"grep", "find"} /\ aborted \in BOOLEAN
  /\ (query.tool = "grep" => aborted = TRUE \/ rg.code \in {0, 1}) /\ (query.tool = "find" => rg.code # 2)
       => Enough(handleLine(found, pending))

\* ls: the entries before the next one have been listed.
Listing ==
  /\ query.tool = "ls"
  /\ ended = [next |-> ended.next, limited |-> ended.limited]
  /\ ended.next \in 1 .. Len(Sent) + 1 /\ ended.limited \in BOOLEAN
  /\ FirstHits(found) /\ Len(found) = Rank(Hits, ended.next - 1)
  /\ EffectiveLimit > 0 => Len(found) <= EffectiveLimit
  /\ ended.limited = TRUE => Len(found) >= EffectiveLimit

SearchInv ==
  /\ Query
  /\ search = "idle" => /\ found = <<>> /\ pending = <<>> /\ aborted = FALSE
                        /\ ended = [next |-> 1, limited |-> FALSE]
  /\ search = "running" => Running
  /\ search = "flushing" => Flushing
  /\ search = "listing" => Listing
  /\ NothingIsDroppedSilently

LEMMA NoHitsYet ==
  ASSUME Query
  PROVE  FirstHits(<<>>) /\ Len(<<>>) = 0 /\ Rank(Hits, 0) = 0
<1>1. 0 \in 0 .. Len(Sent)
  BY SentIs
<1>2. Rank(Hits, 0) = 0 /\ Cardinality(Hits) \in Nat
  BY <1>1, HitsAre
<1>3. <<>> \in Seq(RowBytes) /\ Len(<<>>) = 0
  BY EmptySeq
<1> QED
  BY <1>2, <1>3 DEF FirstHits

LEMMA SentStays ==
  ASSUME Query, query' = query
  PROVE  /\ Query' /\ Sent' = Sent /\ Hits' = Hits /\ EffectiveLimit' = EffectiveLimit
         /\ \A n : Capped(n)' = Capped(n)
         /\ \A rows : FirstHits(rows)' <=> FirstHits(rows)
         /\ \A rows, line : handleLine(rows, line)' = handleLine(rows, line)
<1>1. EffectiveLimit' = EffectiveLimit
  BY DEF EffectiveLimit
<1>2. Sent' = Sent
  BY <1>1 DEF Sent
<1>3. Hits' = Hits
  BY <1>2 DEF Hits
<1>4. \A n : Capped(n)' = Capped(n)
  BY <1>1 DEF Capped
<1>5. \A rows : FirstHits(rows)' <=> FirstHits(rows)
  BY <1>2, <1>3 DEF FirstHits
<1>6. \A rows, line : handleLine(rows, line)' = handleLine(rows, line)
  BY <1>1 DEF handleLine
<1> QED
  BY <1>1, <1>2, <1>3, <1>4, <1>5, <1>6 DEF Query

LEMMA SearchStarts == SearchInit => SearchInv
<1> SUFFICES ASSUME SearchInit PROVE SearchInv
  OBVIOUS
<1>1. Query
  <2>1. PICK tool \in {"grep", "find", "ls"}, backend \in {"local", "vm"}, limit \in SearchLimits,
             n \in 0 .. SearchLines : \E tags \in [1 .. n -> TagsOf(tool)] :
          query = [tool |-> tool, backend |-> backend, limit |-> limit, tags |-> tags]
    BY DEF SearchInit
  <2>2. PICK tags \in [1 .. n -> TagsOf(tool)] :
          query = [tool |-> tool, backend |-> backend, limit |-> limit, tags |-> tags]
    BY <2>1
  <2>3. n \in Nat /\ n <= SearchLines /\ limit \in Int
    BY SearchAssumption
  <2>4. tags \in Seq(Tags) /\ Len(tags) = n
    <3>1. tags \in [1 .. n -> Tags]
      BY DEF Tags, TagsOf
    <3> QED
      BY <2>3, <3>1
  <2>5. tool # "grep" => \A k \in 1 .. n : tags[k] # "raw"
    BY DEF TagsOf
  <2>6. query.tool = tool /\ query.limit = limit /\ query.tags = tags
    BY <2>2
  <2> QED
    BY <2>3, <2>4, <2>5, <2>6 DEF Query
<1>2. search = "idle" /\ found = <<>> /\ pending = <<>> /\ aborted = FALSE /\ ended = [next |-> 1, limited |-> FALSE]
  BY DEF SearchInit
<1> QED
  BY <1>1, <1>2 DEF SearchInv, NothingIsDroppedSilently

LEMMA SearchRests == SearchInv /\ UNCHANGED searchVars => SearchInv'
<1> SUFFICES ASSUME SearchInv, UNCHANGED searchVars PROVE SearchInv'
  OBVIOUS
<1>1. /\ search' = search /\ query' = query /\ rg' = rg /\ pending' = pending /\ found' = found
      /\ aborted' = aborted /\ ended' = ended /\ reply' = reply
  BY DEF searchVars
<1>2. Query /\ Query'
  BY <1>1, SentStays DEF SearchInv
<1>3. Running => Running'
  <2>1. Sent' = Sent /\ EffectiveLimit' = EffectiveLimit
    BY ONLY <1>1 DEF Sent, EffectiveLimit
  <2>2. Hits' = Hits
    BY ONLY <2>1 DEF Hits
  <2>3. \A c, r : Reading(c, r)' <=> Reading(c, r)
    BY ONLY <1>1, <2>1, <2>2 DEF Reading, FirstHits, Capped
  <2> QED
    BY ONLY <1>1, <2>1, <2>3 DEF Running
<1>4. Flushing => Flushing'
  <2>1. Sent' = Sent /\ EffectiveLimit' = EffectiveLimit
    BY ONLY <1>1 DEF Sent, EffectiveLimit
  <2>2. Hits' = Hits
    BY ONLY <2>1 DEF Hits
  <2>3. handleLine(found, pending)' = handleLine(found, pending)
    BY ONLY <1>1, <2>1 DEF handleLine, EffectiveLimit
  <2>4. Enough(handleLine(found, pending))' <=> Enough(handleLine(found, pending))
    BY ONLY <2>1, <2>2, <2>3 DEF Enough, FirstHits
  <2> QED
    BY ONLY <1>1, <2>4 DEF Flushing
<1>5. Listing => Listing'
  BY <1>1 DEF Listing, Sent, Hits, EffectiveLimit, FirstHits
<1>6. NothingIsDroppedSilently => NothingIsDroppedSilently'
  BY <1>1 DEF NothingIsDroppedSilently, Everything, AllMatches, EffectiveLimit, MatchesOf
<1> QED
  BY <1>1, <1>2, <1>3, <1>4, <1>5, <1>6 DEF SearchInv

\* An answer made of the first matches: it shows what there is or says that it does not.
LEMMA AnswerIsHonest ==
  ASSUME Query, EffectiveLimit > 0, NEW rows, FirstHits(rows), Len(rows) <= EffectiveLimit,
         NEW limited,
         limited = TRUE \/ (Len(rows) = Cardinality(Hits) /\ (query.tool = "find" => Len(rows) < EffectiveLimit)),
         NEW r, Answers(r, RowsOf(rows), limited)
  PROVE  /\ IsPrefix(r.rows, Everything)
         /\ r.rows # Everything => r.limited = TRUE \/ r.capped = TRUE
         /\ Len(r.rows) <= EffectiveLimit
<1> DEFINE C == Cardinality(Hits)  A == AllMatches  E == Everything  L == Len(rows)  B == RowsOf(rows)
<1>1. /\ A \in Seq(RowBytes) /\ Len(A) >= C /\ C \in Nat /\ \A i \in 1 .. C : A[i] = TagByte(Sent, Nth(Hits, i))
      /\ query.tool # "find" => Len(A) = C
      /\ query.tool = "find" /\ C < EffectiveLimit => Len(A) = C
  BY AllMatchesAre
<1>2. rows \in Seq(RowBytes) /\ L \in Nat /\ L <= C /\ \A i \in 1 .. L : rows[i] = TagByte(Sent, Nth(Hits, i))
  BY DEF FirstHits
<1>3. E = RowsOf(A)
  BY DEF Everything
<1> HIDE DEF A, C, E
<1>4. EffectiveLimit \in Int
  BY LimitIs
<1>5. PICK k \in 0 .. Len(B) : r.rows = SubSeq(B, 1, k) /\ (k < Len(B) => r.capped = TRUE)
  BY DEF Answers
<1>6. r.limited = limited
  BY DEF Answers
\* What was counted begins the matches, so its rows begin the rows.
<1>7. rows = SubSeq(A, 1, L) /\ L \in 0 .. Len(A)
  <2> DEFINE v == SubSeq(A, 1, L)
  <2>1. /\ 1 \in 1 .. Len(A) + 1 /\ L \in 1 - 1 .. Len(A) /\ L - 1 + 1 = L /\ \A i \in 1 .. L : 1 + i - 1 = i
        /\ L \in 0 .. Len(A)
    BY <1>1, <1>2
  <2>2. /\ SubSeq(A, 1, L) \in Seq(RowBytes) /\ Len(SubSeq(A, 1, L)) = L - 1 + 1
        /\ \A i \in 1 .. L - 1 + 1 : SubSeq(A, 1, L)[i] = A[1 + i - 1]
    <3> HIDE DEF L
    <3> QED
      BY <1>1, <2>1, PartIs
  <2>3. v \in Seq(RowBytes) /\ Len(v) = L /\ \A i \in 1 .. L : v[i] = A[i]
    BY ONLY <2>1, <2>2 DEF v
  <2> HIDE DEF v
  <2>4. \A i \in 1 .. L : rows[i] = v[i]
    BY <1>1, <1>2, <2>3
  <2>5. rows = v
    BY ONLY <1>2, <2>3, <2>4, SeqEqual DEF L
  <2> QED
    BY <2>1, <2>5 DEF v
<1>8. /\ B \in Seq(Rows) /\ Len(B) \in Nat /\ Len(B) <= L /\ E \in Seq(Rows) /\ Len(E) \in Nat
  <2>1. /\ Cardinality(Places(rows)) \in Nat /\ Cardinality(Places(rows)) <= Len(rows)
        /\ B \in Seq(Rows) /\ Len(B) = Cardinality(Places(rows))
    BY <1>2, RowsOfIs
  <2>2. RowsOf(A) \in Seq(Rows)
    BY <1>1, RowsOfIs
  <2> QED
    BY <1>3, <2>1, <2>2
<1> HIDE DEF B
<1>9. PICK m \in 0 .. Len(E) : B = SubSeq(E, 1, m)
  <2>1. \E m \in 0 .. Len(RowsOf(A)) : RowsOf(SubSeq(A, 1, L)) = SubSeq(RowsOf(A), 1, m)
    <3> HIDE DEF L
    <3> QED
      BY <1>1, <1>7, RowsOfPrefix
  <2> QED
    BY <1>3, <1>7, <2>1 DEF B
<1>10. Len(B) = m /\ k \in 0 .. m /\ k \in 0 .. Len(E) /\ k <= L
  <2>1. 1 \in 1 .. Len(E) + 1 /\ m \in 1 - 1 .. Len(E) /\ m - 1 + 1 = m
    BY <1>8
  <2>2. Len(SubSeq(E, 1, m)) = m - 1 + 1
    BY <1>8, <2>1, PartIs
  <2>3. Len(B) = m
    BY <1>9, <2>1, <2>2
  <2> QED
    BY <1>2, <1>8, <2>3
<1>11. r.rows = SubSeq(E, 1, k)
  <2>1. /\ 1 \in 1 .. Len(E) + 1 /\ m \in 1 - 1 .. Len(E) /\ 1 \in 1 .. m - 1 + 2 /\ k \in 1 - 1 .. m - 1 + 1
        /\ 1 + 1 - 1 = 1 /\ 1 + k - 1 = k
    BY <1>8, <1>10
  <2>2. SubSeq(SubSeq(E, 1, m), 1, k) = SubSeq(E, 1 + 1 - 1, 1 + k - 1)
    BY <1>8, <2>1, PartOfPart
  <2> QED
    BY <1>5, <1>9, <2>1, <2>2
<1>12. r.rows \in Seq(Rows) /\ Len(r.rows) = k
  <2>1. 1 \in 1 .. Len(E) + 1 /\ k \in 1 - 1 .. Len(E) /\ k - 1 + 1 = k
    BY <1>8, <1>10
  <2>2. SubSeq(E, 1, k) \in Seq(Rows) /\ Len(SubSeq(E, 1, k)) = k - 1 + 1
    BY <1>8, <2>1, PartIs
  <2> QED
    BY <1>11, <2>1, <2>2
<1>13. IsPrefix(r.rows, Everything)
  <2> DEFINE u == r.rows
  <2>1. u \in Seq(Rows) /\ Len(u) = k /\ u = SubSeq(E, 1, k) /\ k <= Len(E)
    BY <1>10, <1>11, <1>12
  <2> HIDE DEF u
  <2>2. SubSeq(u, 1, Len(u)) = u
    BY ONLY <2>1, SubSeqFull
  <2>3. Len(u) <= Len(E) /\ SubSeq(u, 1, Len(u)) = SubSeq(E, 1, Len(u))
    BY ONLY <2>1, <2>2
  <2> QED
    BY <2>1, <2>3 DEF IsPrefix, E, u
<1>14. Len(r.rows) <= EffectiveLimit
  BY <1>2, <1>4, <1>10, <1>12
<1>15. ASSUME limited # TRUE, ~(k < Len(B)) PROVE r.rows = Everything
  <2>1. L = C
    BY <1>15, Zenon DEF C
  <2>2. Len(A) = L
    BY <1>1, <1>2, <1>4, <1>15, <2>1 DEF C
  <2>3. SubSeq(A, 1, Len(A)) = A
    BY <1>1, SubSeqFull
  <2>4. rows = A
    BY <1>7, <2>2, <2>3
  <2>5. B = E
    BY <1>3, <2>4 DEF B
  <2>6. k = Len(B)
    BY <1>8, <1>10, <1>15
  <2>7. SubSeq(B, 1, Len(B)) = B
    BY <1>8, SubSeqFull
  <2> QED
    BY <1>5, <2>5, <2>6, <2>7 DEF E
<1> QED
  BY <1>5, <1>6, <1>13, <1>14, <1>15

LEMMA SearchBegins ==
  ASSUME SearchInv, SearchPrecheck \/ StartRg \/ StartFd \/ ListDirectory \/ RunFails
  PROVE  SearchInv'
<1>0. Query
  BY DEF SearchInv
<1>1. query' = query
  BY DEF SearchPrecheck, StartRg, StartFd, Starts, ListDirectory, RunFails
<1>2. /\ Query' /\ Sent' = Sent /\ Hits' = Hits /\ EffectiveLimit' = EffectiveLimit
      /\ \A n : Capped(n)' = Capped(n)
      /\ \A rows : FirstHits(rows)' <=> FirstHits(rows)
  BY <1>0, <1>1, SentStays
<1>3. CASE SearchPrecheck \/ RunFails
  <2>1. search' = "done" /\ reply' = NoReply
    BY <1>3 DEF SearchPrecheck, RunFails, Failure
  <2>2. ~reply'.ok
    BY <2>1 DEF NoReply
  <2>3. NothingIsDroppedSilently'
    BY <2>2 DEF NothingIsDroppedSilently
  <2> QED
    BY <1>2, <2>1, <2>3 DEF SearchInv
<1>4. CASE StartRg \/ StartFd
  <2>1. search = "idle" /\ search' = "running" /\ query.tool \in {"grep", "find"}
    BY <1>4 DEF StartRg, StartFd, Starts
  <2>2. found = <<>> /\ pending = <<>> /\ aborted = FALSE
    BY <2>1 DEF SearchInv
  <2>3. found' = <<>> /\ pending' = <<>> /\ aborted' = FALSE
    BY <1>4, <2>2 DEF StartRg, StartFd, Starts
  <2>4. rg' = [out |-> Written(Sent), alive |-> TRUE, code |-> 0]
    <3>1. CASE StartRg
      BY <3>1 DEF StartRg, Starts, Sent
    <3>2. CASE StartFd
      BY <3>2 DEF StartFd, Starts, Sent
    <3> QED
      BY <1>4, <3>1, <3>2
  <2>5. rg' = [out |-> rg'.out, alive |-> rg'.alive, code |-> rg'.code] /\ rg'.out = Written(Sent) /\ rg'.code = 0
    BY <2>4
  <2>6. /\ Sent \in Seq(Tags) /\ Len(Sent) <= SearchLines /\ Len(Sent) \in Nat
        /\ Written(Sent) \in Seq(Alphabet) /\ Len(Written(Sent)) = 3 * Len(Sent)
    BY <1>0, SentIs, WrittenIs
  <2>7. FirstHits(<<>>) /\ Len(<<>>) = Capped(Rank(Hits, 0))
    BY <1>0, <2>1, NoHitsYet, LimitIs DEF Capped
  <2>8. Reading(0, 0)'
    <3>1. 0 \in 0 .. Len(Sent) /\ 0 \in 0 .. 2 /\ 3 * 0 + 0 <= 3 * Len(Sent) /\ 3 * 0 + 1 = 1 /\ 3 * 0 + 0 = 0 /\ 0 + 1 = 1
      BY <2>6
    <3>2. pending' = SubSeq(Written(Sent), 3 * 0 + 1, 3 * 0 + 0)
      <4>1. SubSeq(Written(Sent), 1, 0) = <<>>
        BY SubSeqEmpty
      <4> QED
        BY <2>3, <3>1, <4>1
    <3>3. rg'.out = SubSeq(Written(Sent), 3 * 0 + 0 + 1, 3 * Len(Sent))
      <4>1. SubSeq(Written(Sent), 1, Len(Written(Sent))) = Written(Sent)
        BY <2>6, SubSeqFull
      <4> QED
        BY <2>5, <2>6, <3>1, <4>1
    <3>4. FirstHits(found)' /\ Len(found') = Capped(Rank(Hits, 0))'
      BY <1>2, <2>3, <2>7
    <3> QED
      BY <1>2, <3>1, <3>2, <3>3, <3>4 DEF Reading
  <2>9. Running'
    <3>1. \E c, r \in Nat : Reading(c, r)'
      <4>1. 0 \in Nat
        OBVIOUS
      <4> QED
        BY ONLY <2>8, <4>1, Zenon
    <3>2. aborted' \in BOOLEAN /\ ~(aborted' = TRUE)
      BY <2>3
    <3>3. query'.tool \in {"grep", "find"}
      BY <1>1, <2>1
    <3> QED
      BY ONLY <2>5, <3>1, <3>2, <3>3 DEF Running
  <2>10. NothingIsDroppedSilently'
    BY <2>1 DEF NothingIsDroppedSilently
  <2> QED
    BY <1>2, <2>1, <2>9, <2>10 DEF SearchInv
<1>5. CASE ListDirectory
  <2>1. search = "idle" /\ search' = "listing" /\ query.tool = "ls" /\ found' = found /\ ended' = ended
    BY <1>5 DEF ListDirectory
  <2>2. found' = <<>> /\ ended' = [next |-> 1, limited |-> FALSE]
    BY <2>1 DEF SearchInv
  <2>3. ended'.next = 1 /\ ended'.limited = FALSE
    BY <2>2
  <2>4. FirstHits(found)' /\ Len(found') = 0 /\ Rank(Hits, 0) = 0
    BY <1>0, <1>2, <2>2, NoHitsYet
  <2>5. EffectiveLimit \in Int /\ Len(Sent) \in Nat
    BY <1>0, LimitIs, SentIs
  <2>6. Listing'
    <3>1. 1 \in 1 .. Len(Sent) + 1 /\ 1 - 1 = 0
      BY <2>5
    <3> QED
      BY <1>1, <1>2, <2>1, <2>2, <2>3, <2>4, <2>5, <3>1 DEF Listing
  <2>7. NothingIsDroppedSilently'
    BY <2>1 DEF NothingIsDroppedSilently
  <2> QED
    BY <1>2, <2>1, <2>6, <2>7 DEF SearchInv
<1> QED
  BY <1>3, <1>4, <1>5

LEMMA ProcessEnds ==
  ASSUME SearchInv, Killed \/ Close
  PROVE  SearchInv'
<1>0. Query /\ Running
  BY DEF SearchInv, Killed, Close
<1>1. query' = query /\ pending' = pending /\ found' = found /\ aborted' = aborted /\ search' = "flushing"
  BY DEF Killed, Close
<1>2. /\ Query' /\ Hits' = Hits /\ EffectiveLimit' = EffectiveLimit
      /\ \A rows : FirstHits(rows)' <=> FirstHits(rows)
      /\ \A rows, line : handleLine(rows, line)' = handleLine(rows, line)
  BY <1>0, <1>1, SentStays
<1>3. PICK c, r \in Nat : Reading(c, r)
  BY <1>0 DEF Running
<1>4. /\ EffectiveLimit \in Int /\ EffectiveLimit >= 1 /\ query.tool \in {"grep", "find"}
  BY <1>0, LimitIs DEF Running
<1>5. /\ c \in 0 .. Len(Sent) /\ r \in 0 .. 2 /\ 3 * c + r <= 3 * Len(Sent) /\ Len(Sent) \in Nat
      /\ FirstHits(found) /\ Len(found) = Capped(Rank(Hits, c))
  BY <1>0, <1>3, SentIs DEF Reading
<1>6. Rank(Hits, c) \in 0 .. Cardinality(Hits) /\ Cardinality(Hits) \in Nat /\ Rank(Hits, Len(Sent)) = Cardinality(Hits)
  BY <1>0, <1>5, HitsAre
<1>7. Len(found) <= EffectiveLimit
  BY <1>4, <1>5, <1>6 DEF Capped
<1>8. ASSUME aborted = TRUE PROVE Enough(handleLine(found, pending))
  <2>1. query.tool = "grep" /\ Len(found) >= EffectiveLimit
    BY <1>0, <1>8 DEF Running
  <2>2. handleLine(found, pending) = found
    BY <2>1 DEF handleLine
  <2> QED
    BY <1>5, <1>7, <2>1, <2>2 DEF Enough
<1>9. ASSUME rg.out = <<>> PROVE Enough(handleLine(found, pending))
  <2> DEFINE W == Written(Sent)
  <2>1. W \in Seq(Alphabet) /\ Len(W) = 3 * Len(Sent)
    BY <1>0, SentIs, WrittenIs
  <2>2. Len(rg.out) = 3 * Len(Sent) - (3 * c + r)
    <3> DEFINE a == 3 * c + r + 1  b == 3 * Len(Sent)
    <3>1. a \in 1 .. Len(W) + 1 /\ b \in a - 1 .. Len(W) /\ b - a + 1 = 3 * Len(Sent) - (3 * c + r)
      BY <1>5, <2>1
    <3> HIDE DEF a, b, W
    <3>2. Len(SubSeq(W, a, b)) = b - a + 1
      BY <2>1, <3>1, PartIs
    <3>3. rg.out = SubSeq(W, a, b)
      BY <1>3 DEF Reading, W, a, b
    <3> QED
      BY <3>1, <3>2, <3>3
  <2>3. Len(rg.out) = 0
    BY <1>9
  <2>4. c = Len(Sent) /\ r = 0
    <3>1. \A m, d \in Nat, q \in 0 .. 2 : 3 * m - (3 * d + q) = 0 => d = m /\ q = 0
      OBVIOUS
    <3>2. 3 * Len(Sent) - (3 * c + r) = 0
      BY <2>2, <2>3
    <3> QED
      BY <1>5, <3>1, <3>2
  <2>5. pending = <<>>
    <3>1. 3 * c + 1 \in Int /\ 3 * c + r \in Int /\ 3 * c + r < 3 * c + 1
      BY <1>5, <2>4
    <3>2. SubSeq(W, 3 * c + 1, 3 * c + r) = <<>>
      BY <3>1, SubSeqEmpty
    <3> QED
      BY <1>3, <3>2 DEF Reading
  <2>6. handleLine(found, pending) = found
    <3>1. Len(pending) = 0
      BY <2>5
    <3> QED
      BY <1>4, <2>5, <3>1 DEF handleLine
  <2>7. Len(found) = Cardinality(Hits) \/ Len(found) >= EffectiveLimit
    BY <1>4, <1>5, <1>6, <2>4 DEF Capped
  <2> QED
    BY <1>5, <1>7, <2>6, <2>7 DEF Enough
<1>10. ASSUME aborted = FALSE, rg'.code = 2 PROVE ~((query.tool = "grep" => aborted = TRUE \/ rg'.code \in {0, 1}) /\ (query.tool = "find" => rg'.code # 2))
  BY <1>4, <1>10
<1>11. aborted = TRUE \/ rg.out = <<>> \/ (aborted = FALSE /\ rg'.code = 2)
  <2>1. CASE Killed
    BY <1>0, <2>1 DEF Killed, Running
  <2>2. CASE Close
    <3>1. aborted = FALSE
      BY <1>0, <2>2 DEF Close, Running
    <3>2. rg.out = <<>> \/ rg' = [rg EXCEPT !.alive = FALSE, !.out = <<>>, !.code = 2]
      BY <2>2 DEF Close
    <3>3. rg' = [rg EXCEPT !.alive = FALSE, !.out = <<>>, !.code = 2] => rg'.code = 2
      BY <1>0 DEF Running
    <3> QED
      BY <3>1, <3>2, <3>3
  <2> QED
    BY <2>1, <2>2
<1>12. (query.tool = "grep" => aborted = TRUE \/ rg'.code \in {0, 1}) /\ (query.tool = "find" => rg'.code # 2)
         => Enough(handleLine(found, pending))
  BY <1>8, <1>9, <1>10, <1>11
<1>13. Flushing'
  <2>1. Enough(handleLine(found, pending)) => Enough(handleLine(found, pending))'
    <3> DEFINE rows == handleLine(found, pending)
    <3>1. rows' = rows
      BY <1>1, <1>2
    <3>2. FirstHits(rows)' <=> FirstHits(rows)
      BY <1>2, <3>1 DEF FirstHits
    <3> HIDE DEF rows
    <3>3. Enough(rows) => Enough(rows)'
      BY <1>2, <3>1, <3>2 DEF Enough
    <3> QED
      BY <3>3 DEF rows
  <2> QED
    BY <1>0, <1>1, <1>4, <1>12, <2>1 DEF Flushing, Running
<1>14. NothingIsDroppedSilently'
  BY <1>1 DEF NothingIsDroppedSilently
<1> QED
  BY <1>1, <1>2, <1>13, <1>14 DEF SearchInv

\* What the lines of a chunk do to the rows: the recursion of Chunk, written out.
RowsAfter(text) ==
  LET taken[k \in 0 .. Carry(text).complete] ==
        IF k = 0 THEN found ELSE handleLine(taken[k - 1], Lines(text, k, k))
  IN  taken[Carry(text).complete]

LEMMA RowsTaken ==
  ASSUME NEW text, Carry(text).complete \in {0, 1}
  PROVE  RowsAfter(text) = IF Carry(text).complete = 0 THEN found ELSE handleLine(found, Lines(text, 1, 1))
<1> DEFINE n == Carry(text).complete
           line == Lines(text, 1, 1)
           taken[k \in 0 .. n] == IF k = 0 THEN found ELSE handleLine(taken[k - 1], Lines(text, k, k))
           F(h) == [k \in 0 .. n |-> IF k = 0 THEN found ELSE handleLine(h[k - 1], Lines(text, k, k))]
           g == [k \in 0 .. n |-> IF k = 0 THEN found ELSE handleLine(found, line)]
<1>1. n \in {0, 1} /\ \A k \in 0 .. n : k = 0 \/ (k = 1 /\ k - 1 = 0)
  OBVIOUS
<1>2. taken = CHOOSE h : h = F(h)
  OBVIOUS
<1>3. g = F(g)
  <2> DEFINE H(a, b) == handleLine(a, b)  M(k) == Lines(text, k, k)
  <2>1. ASSUME NEW k \in 0 .. n, k # 0 PROVE H(found, line) = H(g[k - 1], M(k))
    <3>1. k = 1 /\ k - 1 = 0 /\ 0 \in 0 .. n
      BY <1>1, <2>1
    <3>2. g[0] = found
      BY <3>1
    <3>3. M(k) = line /\ g[k - 1] = found
      BY <3>1, <3>2
    <3> HIDE DEF H, M, g, line
    <3> QED
      BY <3>3
  <2>2. \A k \in 0 .. n : (IF k = 0 THEN found ELSE H(found, line)) = IF k = 0 THEN found ELSE H(g[k - 1], M(k))
    <3> HIDE DEF H, M, g, line, n
    <3> QED
      BY <2>1
  <2>3. F(g) = [k \in 0 .. n |-> IF k = 0 THEN found ELSE H(g[k - 1], M(k))]
    OBVIOUS
  <2>4. g = [k \in 0 .. n |-> IF k = 0 THEN found ELSE H(found, line)]
    OBVIOUS
  <2> HIDE DEF H, M, g, F, line, n
  <2> QED
    BY <2>2, <2>3, <2>4
<1>4. taken = F(taken)
  <2> HIDE DEF taken, F, g
  <2> QED
    BY <1>2, <1>3
<1>5. taken[n] = IF n = 0 THEN found ELSE handleLine(found, line)
  <2>1. 0 \in 0 .. n /\ n \in 0 .. n
    BY <1>1
  <2>2. taken[0] = found
    <3> HIDE DEF taken, n
    <3> QED
      BY <1>4, <2>1
  <2>3. n = 1 => taken[1] = handleLine(taken[0], line)
    <3>1. taken[n] = IF n = 0 THEN found ELSE handleLine(taken[n - 1], Lines(text, n, n))
      <4> HIDE DEF taken, n
      <4> QED
        BY <1>4, <2>1
    <3> HIDE DEF taken, n
    <3> QED
      BY <3>1 DEF line
  <2> HIDE DEF taken, line
  <2> QED
    BY <1>1, <2>2, <2>3
<1>6. RowsAfter(text) = taken[n]
  BY DEF RowsAfter
<1> QED
  BY <1>5, <1>6

LEMMA ChunkTaken ==
  ASSUME SearchInv, Chunk
  PROVE  SearchInv'
<1>0. Query /\ Running /\ search = "running"
  BY DEF SearchInv, Chunk
<1>1. query' = query
  BY DEF Chunk
<1>2. /\ Query' /\ Sent' = Sent /\ Hits' = Hits /\ EffectiveLimit' = EffectiveLimit
      /\ \A n : Capped(n)' = Capped(n)
      /\ \A rows : FirstHits(rows)' <=> FirstHits(rows)
      /\ \A rows, line : handleLine(rows, line)' = handleLine(rows, line)
  BY <1>0, <1>1, SentStays
<1>3. PICK n \in 1 .. Min({3, Len(rg.out)}) :
       LET text  == pending \o SubSeq(rg.out, 1, n)
           taken[k \in 0 .. Carry(text).complete] ==
             IF k = 0 THEN found ELSE handleLine(taken[k - 1], Lines(text, k, k))
           rows  == taken[Carry(text).complete]
       IN  /\ found' = rows
           /\ pending' = Carry(text).rest
           /\ aborted' = (aborted \/ ReachesLimit(rows))
           /\ rg' = [rg EXCEPT !.out = SubSeq(@, n + 1, Len(@)),
                               !.alive = ~(ReachesLimit(rows) /\ query.backend = "vm"),
                               !.code = IF ReachesLimit(rows) THEN -1 ELSE @]
           /\ search' = IF ReachesLimit(rows) /\ query.backend = "vm" THEN "flushing" ELSE "running"
  BY ONLY Chunk, Zenon DEF Chunk
<1>4. PICK c, r \in Nat : Reading(c, r)
  BY <1>0 DEF Running
<1> DEFINE W == Written(Sent)  m == Len(Sent)  text == pending \o SubSeq(rg.out, 1, n)  S == Carry(text)
<1>5. /\ Sent \in Seq(Tags) /\ m \in Nat /\ m <= SearchLines
      /\ W \in Seq(Alphabet) /\ Len(W) = 3 * m
  BY <1>0, SentIs, WrittenIs
<1>6. /\ c \in 0 .. m /\ r \in 0 .. 2 /\ 3 * c + r <= 3 * m
      /\ pending = SubSeq(W, 3 * c + 1, 3 * c + r) /\ rg.out = SubSeq(W, 3 * c + r + 1, 3 * m)
      /\ FirstHits(found) /\ Len(found) = Capped(Rank(Hits, c))
  BY <1>4 DEF Reading
<1> HIDE DEF W, m
<1>7. Len(rg.out) = 3 * m - (3 * c + r) /\ n \in 1 .. 3 /\ 3 * c + r + n <= 3 * m
  <2> DEFINE a == 3 * c + r + 1  b == 3 * m
  <2>1. a \in 1 .. Len(W) + 1 /\ b \in a - 1 .. Len(W) /\ b - a + 1 = 3 * m - (3 * c + r)
    BY <1>5, <1>6
  <2>2. rg.out = SubSeq(W, a, b)
    BY <1>6
  <2> HIDE DEF a, b
  <2>3. Len(rg.out) = b - a + 1
    BY <1>5, <2>1, <2>2, PartIs
  <2>4. Len(rg.out) = 3 * m - (3 * c + r)
    BY <2>1, <2>3
  <2>5. Len(rg.out) \in Int
    BY <1>5, <1>6, <2>4
  <2>6. Min({3, Len(rg.out)}) = IF 3 <= Len(rg.out) THEN 3 ELSE Len(rg.out)
    BY <2>5, SmallerIs
  <2> QED
    BY <1>5, <1>6, <2>4, <2>6
<1>8. text = SubSeq(W, 3 * c + 1, 3 * c + r + n)
  <2> DEFINE a == 3 * c + 1  b == 3 * c + r  d == 3 * c + r + n  e == 3 * m
  <2>1. /\ a \in 1 .. Len(W) + 1 /\ b \in a - 1 .. Len(W) /\ d \in b .. Len(W) /\ b + 1 \in 1 .. Len(W) + 1
        /\ e \in (b + 1) - 1 .. Len(W) /\ 1 \in 1 .. e - (b + 1) + 2 /\ n \in 1 - 1 .. e - (b + 1) + 1
        /\ b + 1 + 1 - 1 = b + 1 /\ b + 1 + n - 1 = d
    BY <1>5, <1>6, <1>7
  <2>2. pending = SubSeq(W, a, b) /\ rg.out = SubSeq(W, b + 1, e)
    BY <1>6
  <2> HIDE DEF a, b, d, e
  <2>3. SubSeq(SubSeq(W, b + 1, e), 1, n) = SubSeq(W, b + 1 + 1 - 1, b + 1 + n - 1)
    BY <1>5, <2>1, PartOfPart
  <2>4. SubSeq(rg.out, 1, n) = SubSeq(W, b + 1, d)
    BY <2>1, <2>2, <2>3
  <2>5. SubSeq(W, a, b) \o SubSeq(W, b + 1, d) = SubSeq(W, a, d)
    BY <1>5, <2>1, ConcatAdjacentSubSeq
  <2>6. text = SubSeq(W, a, d)
    BY <2>2, <2>4, <2>5
  <2> QED
    BY <2>6 DEF a, d
<1>9. SubSeq(rg.out, n + 1, Len(rg.out)) = SubSeq(W, 3 * c + r + n + 1, 3 * m)
  <2> DEFINE a == 3 * c + r + 1  e == 3 * m  L == Len(rg.out)
  <2>1. /\ a \in 1 .. Len(W) + 1 /\ e \in a - 1 .. Len(W) /\ n + 1 \in 1 .. e - a + 2
        /\ L \in n + 1 - 1 .. e - a + 1 /\ a + (n + 1) - 1 = 3 * c + r + n + 1 /\ a + L - 1 = e
    BY <1>5, <1>6, <1>7
  <2>2. rg.out = SubSeq(W, a, e)
    BY <1>6
  <2> HIDE DEF a, e, L
  <2>3. SubSeq(SubSeq(W, a, e), n + 1, L) = SubSeq(W, a + (n + 1) - 1, a + L - 1)
    BY <1>5, <2>1, PartOfPart
  <2> QED
    BY <2>1, <2>2, <2>3 DEF e, L
<1>10. /\ r + n < 3 => S.complete = 0 /\ S.rest = text
       /\ r + n >= 3 => /\ S.complete = 1
                        /\ S.rest = SubSeq(W, 3 * c + 4, 3 * c + r + n)
                        /\ Len(Lines(text, 1, 1)) = 2
                        /\ Lines(text, 1, 1)[1] = W[3 * c + 1]
  <2> HIDE DEF text
  <2>1. Len(Sent) <= SearchLines /\ c \in 0 .. Len(Sent) /\ 3 * c + r + n <= 3 * Len(Sent)
    BY <1>5, <1>6, <1>7 DEF m
  <2>2. text = SubSeq(Written(Sent), 3 * c + 1, 3 * c + r + n)
    BY <1>8 DEF W
  <2>3. Sent \in Seq(Tags) /\ r \in 0 .. 2 /\ n \in 1 .. 3
    BY <1>5, <1>6, <1>7
  <2>4. ChunkSplits(Sent, c, r, n, text)
    BY ONLY <2>1, <2>2, <2>3, ChunkIs, ZenonT(60)
  <2> QED
    BY <2>4 DEF ChunkSplits, W
<1> DEFINE rows == IF S.complete = 0 THEN found ELSE handleLine(found, Lines(text, 1, 1))
           reached == ReachesLimit(rows)
<1>11. /\ found' = rows /\ pending' = S.rest /\ aborted' = (aborted \/ reached)
       /\ rg' = [rg EXCEPT !.out = SubSeq(rg.out, n + 1, Len(rg.out)),
                           !.alive = ~(reached /\ query.backend = "vm"),
                           !.code = IF reached THEN -1 ELSE rg.code]
       /\ search' = IF reached /\ query.backend = "vm" THEN "flushing" ELSE "running"
  <2> DEFINE taken[k \in 0 .. S.complete] == IF k = 0 THEN found ELSE handleLine(taken[k - 1], Lines(text, k, k))
             last == taken[S.complete]
  <2>1. S.complete \in {0, 1}
    BY <1>6, <1>7, <1>10
  <2>2. last = rows
    <3>1. last = RowsAfter(text)
      BY DEF RowsAfter
    <3>2. RowsAfter(text) = rows
      <4> HIDE DEF text
      <4> QED
        BY ONLY <2>1, RowsTaken DEF rows, S
    <3> HIDE DEF last, rows
    <3> QED
      BY ONLY <3>1, <3>2
  <2>3. /\ found' = last /\ pending' = S.rest /\ aborted' = (aborted \/ ReachesLimit(last))
        /\ rg' = [rg EXCEPT !.out = SubSeq(@, n + 1, Len(@)),
                            !.alive = ~(ReachesLimit(last) /\ query.backend = "vm"),
                            !.code = IF ReachesLimit(last) THEN -1 ELSE @]
        /\ search' = IF ReachesLimit(last) /\ query.backend = "vm" THEN "flushing" ELSE "running"
    BY <1>3
  <2> HIDE DEF last, rows, text
  <2> QED
    BY <2>2, <2>3
<1> HIDE DEF text, S
<1>12. /\ rg'.out = SubSeq(rg.out, n + 1, Len(rg.out)) /\ rg'.code = IF reached THEN -1 ELSE rg.code
       /\ rg' = [out |-> rg'.out, alive |-> rg'.alive, code |-> rg'.code]
  <2> DEFINE out == SubSeq(rg.out, n + 1, Len(rg.out))  alive == ~(reached /\ query.backend = "vm")
             code == IF reached THEN -1 ELSE rg.code
  <2>1. rg' = [rg EXCEPT !.out = out, !.alive = alive, !.code = code]
    BY <1>11
  <2>2. rg = [out |-> rg.out, alive |-> rg.alive, code |-> rg.code]
    BY <1>0 DEF Running
  <2> HIDE DEF out, alive, code, rows, reached
  <2>3. rg' = [out |-> out, alive |-> alive, code |-> code]
    BY ONLY <2>1, <2>2
  <2>4. rg'.out = out /\ rg'.code = code
    BY ONLY <2>3
  <2>5. rg' = [out |-> rg'.out, alive |-> rg'.alive, code |-> rg'.code]
    BY ONLY <2>3
  <2> QED
    BY <2>4, <2>5 DEF out, code
<1>13. /\ EffectiveLimit \in Int /\ EffectiveLimit >= 1 /\ query.tool \in {"grep", "find"} /\ query.tool # "ls"
  BY <1>0, LimitIs DEF Running
\* The lines taken and the bytes waiting after the chunk.
<1>14. ASSUME r + n < 3
       PROVE  rows = found /\ Reading(c, r + n)'
  <2>1. rows = found /\ pending' = SubSeq(W, 3 * c + 1, 3 * c + r + n)
    BY <1>8, <1>10, <1>11, <1>14
  <2>2. rg'.out = SubSeq(W, 3 * c + r + n + 1, 3 * m)
    BY <1>9, <1>12
  <2>3. found' = found
    BY <1>11, <2>1
  <2>4. c \in 0 .. m /\ r + n \in 0 .. 2 /\ 3 * c + (r + n) <= 3 * m /\ 3 * c + (r + n) = 3 * c + r + n
    BY <1>5, <1>6, <1>7, <1>14
  <2> DEFINE q == r + n
  <2>5. q \in 0 .. 2 /\ 3 * c + q <= 3 * m /\ 3 * c + q = 3 * c + r + n
    BY <2>4
  <2>6. q' = q
    OBVIOUS
  <2> HIDE DEF q, rows
  <2>7. Reading(c, q)'
    <3>1. FirstHits(found)' /\ Len(found') = Capped(Rank(Hits, c))'
      BY <1>2, <1>6, <2>3
    <3>2. pending' = SubSeq(Written(Sent'), 3 * c + 1, 3 * c + q) /\ rg'.out = SubSeq(Written(Sent'), 3 * c + q + 1, 3 * Len(Sent'))
      BY <1>2, <2>1, <2>2, <2>5 DEF W, m
    <3> QED
      BY <1>2, <2>4, <2>5, <2>6, <3>1, <3>2 DEF Reading, m
  <2> QED
    BY <2>1, <2>7 DEF q
<1>15. ASSUME r + n >= 3
       PROVE  /\ \E q \in 0 .. 2 : Reading(c + 1, q)'
              /\ FirstHits(rows) /\ (aborted = TRUE => rows = found)
  <2> DEFINE q == r + n - 3  d == c + 1  line == Lines(text, 1, 1)
  <2>1. /\ q \in 0 .. 2 /\ d \in 0 .. m /\ c \in 0 .. m - 1 /\ 3 * d + q <= 3 * m
        /\ 3 * d + 1 = 3 * c + 4 /\ 3 * d + q = 3 * c + r + n
    BY <1>5, <1>6, <1>7, <1>15
  <2>2. rows = handleLine(found, line) /\ pending' = SubSeq(W, 3 * c + 4, 3 * c + r + n)
        /\ Len(line) = 2 /\ line[1] = W[3 * c + 1]
    BY <1>10, <1>11, <1>15
  <2>3. rg'.out = SubSeq(W, 3 * c + r + n + 1, 3 * m)
    BY <1>9, <1>12
  <2> HIDE DEF line
  <2>4. /\ FirstHits(handleLine(found, line)) /\ Len(handleLine(found, line)) = Capped(Rank(Hits, c + 1))
        /\ query.tool = "grep" /\ Len(found) >= EffectiveLimit => handleLine(found, line) = found
    <3>1. c \in 0 .. Len(Sent) - 1 /\ line[1] = Written(Sent)[3 * c + 1] /\ FirstHits(found)
          /\ Len(found) = Capped(Rank(Hits, c)) /\ Len(line) = 2
      BY <1>6, <2>1, <2>2 DEF m, W
    <3> QED
      BY <1>0, <1>13, <3>1, LineTaken
  <2>5. aborted = TRUE => rows = found
    BY <1>0, <2>2, <2>4 DEF Running
  <2>6. found' = handleLine(found, line)
    BY <1>11, <2>2
  <2>7. d' = d /\ q' = q
    OBVIOUS
  <2>8. FirstHits(found)' /\ Len(found') = Capped(Rank(Hits, d))'
    BY <1>2, <2>4, <2>6 
  <2> HIDE DEF q, d, rows
  <2>9. pending' = SubSeq(W, 3 * d + 1, 3 * d + q) /\ rg'.out = SubSeq(W, 3 * d + q + 1, 3 * m)
    BY <2>1, <2>2, <2>3
  <2>10. Reading(d, q)'
    BY <1>2, <2>1, <2>7, <2>8, <2>9 DEF Reading, m, W
  <2>11. Reading(c + 1, q)'
    BY <2>10 DEF d
  <2>12. \E x \in 0 .. 2 : Reading(c + 1, x)'
    BY ONLY <2>1, <2>7, <2>11, Zenon
  <2> QED
    BY <2>2, <2>4, <2>5, <2>12
<1>16. FirstHits(rows) /\ (aborted = TRUE => rows = found) /\ found' = rows
  <2> HIDE DEF rows, reached
  <2>1. r + n < 3 \/ r + n >= 3
    BY <1>6, <1>7
  <2> QED
    BY <1>6, <1>11, <1>14, <1>15, <2>1
<1>17. \E d, q \in Nat : Reading(d, q)'
  <2>1. CASE r + n < 3
    BY <1>6, <1>7, <1>14, <2>1
  <2>2. CASE ~(r + n < 3)
    <3>1. r + n >= 3 /\ c + 1 \in Nat /\ 0 .. 2 \subseteq Nat
      BY <1>6, <1>7, <2>2
    <3> QED
      BY <1>15, <3>1
  <2> QED
    BY <2>1, <2>2
<1>18. aborted \in BOOLEAN /\ (aborted = TRUE => query.tool = "grep" /\ Len(found) >= EffectiveLimit)
       /\ (aborted = FALSE => rg.code = 0)
  BY <1>0 DEF Running
<1>19. reached \in BOOLEAN /\ (reached => query.tool = "grep" /\ Len(rows) >= EffectiveLimit)
  BY DEF ReachesLimit
<1> HIDE DEF rows, reached
<1>20. aborted' \in BOOLEAN /\ (aborted' = TRUE => query'.tool = "grep" /\ Len(found') >= EffectiveLimit')
  <2>1. aborted' \in BOOLEAN
    BY <1>11, <1>18, <1>19
  <2>2. ASSUME aborted' = TRUE PROVE query.tool = "grep" /\ Len(rows) >= EffectiveLimit
    <3>1. aborted = TRUE \/ reached
      BY <1>11, <1>18, <2>2
    <3> QED
      BY <1>16, <1>18, <1>19, <3>1
  <2> QED
    BY <1>1, <1>2, <1>16, <2>1, <2>2
<1>21. aborted' = FALSE => rg'.code = 0
  <2> SUFFICES ASSUME aborted' = FALSE PROVE rg'.code = 0
    OBVIOUS
  <2>1. aborted = FALSE /\ ~reached
    BY <1>11, <1>18, <1>19
  <2> QED
    BY <1>12, <1>18, <2>1
<1>22. Running'
  <2>1. query'.tool \in {"grep", "find"}
    BY <1>1, <1>13
  <2> QED
    BY ONLY <1>12, <1>17, <1>20, <1>21, <2>1 DEF Running
<1>23. ASSUME reached PROVE Flushing'
  <2>1. query.tool = "grep" /\ Len(rows) >= EffectiveLimit
    BY <1>19, <1>23
  <2>2. PICK d, q \in Nat : Reading(d, q)'
    BY <1>17
  <2>3. handleLine(found, pending)' = rows
    <3>1. handleLine(found, pending)' = handleLine(rows, pending')
      BY <1>2, <1>16
    <3>2. handleLine(rows, pending') = rows
      BY <2>1 DEF handleLine
    <3> QED
      BY <3>1, <3>2
  <2>4. Len(rows) <= EffectiveLimit
    <3>1. d \in 0 .. Len(Sent) /\ Len(found') = Capped(Rank(Hits, d))
      <4>1. d' = d
        OBVIOUS
      <4> QED
        BY <1>2, <2>2, <4>1 DEF Reading
    <3>2. Rank(Hits, d) \in Int
      BY <1>0, <3>1, HitsAre
    <3> QED
      BY <1>13, <1>16, <3>1, <3>2 DEF Capped
  <2>5. FirstHits(found)'
    BY <2>2 DEF Reading
  <2>6. Enough(handleLine(found, pending))'
    <3>1. handleLine(found, pending)' = found' /\ Len(found') <= EffectiveLimit' /\ Len(found') >= EffectiveLimit'
      BY <1>2, <1>16, <2>1, <2>3, <2>4
    <3> QED
      BY <2>5, <3>1 DEF Enough, FirstHits
  <2>7. query'.tool \in {"grep", "find"} /\ aborted' \in BOOLEAN
    BY <1>1, <1>13, <1>20
  <2> QED
    BY <2>6, <2>7 DEF Flushing
<1>24. search' \in {"running", "flushing"} /\ (search' = "flushing" => reached)
  BY <1>11
<1>25. NothingIsDroppedSilently'
  BY <1>24 DEF NothingIsDroppedSilently
<1> QED
  BY <1>2, <1>22, <1>23, <1>24, <1>25 DEF SearchInv

LEMMA HonestReply ==
  ASSUME Query, query' = query, NEW rows, Enough(rows), EffectiveLimit > 0,
         reply' = Format(rows, Len(rows) >= EffectiveLimit)
  PROVE  NothingIsDroppedSilently'
<1> DEFINE limited == Len(rows) >= EffectiveLimit  r == Format(rows, limited)
<1>1. rows \in Seq(RowBytes) /\ FirstHits(rows) /\ Len(rows) <= EffectiveLimit
  BY DEF Enough, FirstHits
<1>2. limited \in BOOLEAN
  OBVIOUS
<1>3. limited = TRUE \/ (Len(rows) = Cardinality(Hits) /\ (query.tool = "find" => Len(rows) < EffectiveLimit))
  <2>1. EffectiveLimit \in Int /\ Len(rows) \in Nat
    BY <1>1, LimitIs
  <2> QED
    BY <2>1 DEF Enough
<1> HIDE DEF limited
<1>4. Answers(r, RowsOf(rows), limited)
  BY <1>1, FormatIs
<1> HIDE DEF r
<1>5. /\ IsPrefix(r.rows, Everything)
      /\ r.rows # Everything => r.limited = TRUE \/ r.capped = TRUE
      /\ Len(r.rows) <= EffectiveLimit
  BY <1>1, <1>3, <1>4, AnswerIsHonest
<1>6. Everything' = Everything /\ EffectiveLimit' = EffectiveLimit
  BY DEF Everything, AllMatches, EffectiveLimit, MatchesOf
<1>7. reply' = r
  BY DEF r, limited
<1> QED
  BY <1>5, <1>6, <1>7 DEF NothingIsDroppedSilently

LEMMA SearchFinishes ==
  ASSUME SearchInv, FinishGrep \/ FinishFind
  PROVE  SearchInv'
<1>0. Query /\ Flushing
  BY DEF SearchInv, FinishGrep, FinishFind, Finishes
<1> DEFINE rows == handleLine(found, pending)
<1>1. query' = query /\ rg' = rg /\ search' = "done"
  BY DEF FinishGrep, FinishFind, Finishes
<1>2. Query' /\ EffectiveLimit' = EffectiveLimit
  BY <1>0, <1>1, SentStays
<1>3. \/ reply' = NoReply
      \/ reply' = Format(rows, Len(rows) >= EffectiveLimit) /\ ((query.tool = "find" /\ rg.code = 2) \/ Enough(rows))
  <2>1. CASE FinishGrep
    <3>1. query.tool = "grep"
          /\ reply' = IF ~aborted /\ rg.code \notin {0, 1} THEN NoReply ELSE Format(rows, Len(rows) >= EffectiveLimit)
      BY <2>1 DEF FinishGrep, Finishes, Failure
    <3>2. CASE ~aborted /\ rg.code \notin {0, 1}
      BY <3>1, <3>2
    <3>3. CASE ~(~aborted /\ rg.code \notin {0, 1})
      <4>1. aborted = TRUE \/ rg.code \in {0, 1}
        BY <1>0, <3>3 DEF Flushing
      <4> HIDE DEF rows
      <4> QED
        BY <1>0, <3>1, <3>3, <4>1 DEF Flushing, rows
    <3> QED
      BY <3>2, <3>3
  <2>2. CASE FinishFind
    <3>1. query.tool = "find"
          /\ reply' = IF rg.code # 0 /\ rows = <<>> THEN NoReply ELSE Format(rows, Len(rows) >= EffectiveLimit)
      BY <2>2 DEF FinishFind, Finishes, Failure
    <3>2. rg.code = 2 \/ Enough(rows)
      BY <1>0, <3>1 DEF Flushing
    <3> HIDE DEF rows
    <3> QED
      BY <3>1, <3>2
  <2> QED
    BY <2>1, <2>2
<1> HIDE DEF rows
<1>4. NothingIsDroppedSilently'
  <2>1. CASE reply' = NoReply
    <3>1. ~reply'.ok
      BY <2>1 DEF NoReply
    <3> QED
      BY <3>1 DEF NothingIsDroppedSilently
  <2>2. CASE query.tool = "find" /\ rg.code = 2
    BY <1>1, <2>2 DEF NothingIsDroppedSilently
  <2>3. CASE reply' = Format(rows, Len(rows) >= EffectiveLimit) /\ Enough(rows)
    <3>1. CASE EffectiveLimit > 0
      BY <1>0, <1>1, <2>3, <3>1, HonestReply
    <3>2. CASE ~(EffectiveLimit > 0)
      BY <1>2, <3>2 DEF NothingIsDroppedSilently
    <3> QED
      BY <3>1, <3>2
  <2> QED
    BY <1>3, <2>1, <2>2, <2>3
<1> QED
  BY <1>1, <1>2, <1>4 DEF SearchInv

LEMMA EntryListed ==
  ASSUME SearchInv, StatEntry
  PROVE  SearchInv'
<1>0. Query /\ Listing
  BY DEF SearchInv, StatEntry
<1>1. query' = query /\ search' = search /\ search = "listing"
  BY DEF StatEntry
<1>2. /\ Query' /\ Sent' = Sent /\ Hits' = Hits /\ EffectiveLimit' = EffectiveLimit
      /\ \A rows : FirstHits(rows)' <=> FirstHits(rows)
  BY <1>0, <1>1, SentStays
<1> DEFINE c == ended.next - 1
<1>3. /\ query.tool = "ls" /\ Sent = query.tags /\ Len(Sent) \in Nat /\ EffectiveLimit \in Int
      /\ ended.next \in 1 .. Len(Sent) /\ FirstHits(found) /\ Len(found) = Rank(Hits, ended.next - 1)
      /\ ended.limited \in BOOLEAN /\ (EffectiveLimit > 0 => Len(found) <= EffectiveLimit)
  BY <1>0, SentIs, LimitIs DEF Listing, StatEntry
<1>4. Len(found) \in Nat
  BY <1>3 DEF FirstHits
<1>5. CASE Len(found) >= EffectiveLimit
  <2>1. found' = found /\ ended' = [ended EXCEPT !.limited = TRUE]
    BY <1>5 DEF StatEntry
  <2>2. ended' = [next |-> ended.next, limited |-> TRUE]
    BY <1>0, <2>1 DEF Listing
  <2>3. ended'.next = ended.next /\ ended'.limited = TRUE
    BY <2>2
  <2>4. ended'.next \in 1 .. Len(Sent') + 1 /\ FirstHits(found)' /\ Len(found') = Rank(Hits', ended'.next - 1)
    BY <1>2, <1>3, <2>1, <2>3
  <2>5. Listing'
    BY <1>1, <1>2, <1>3, <1>5, <2>1, <2>2, <2>3, <2>4 DEF Listing
  <2> QED
    BY <1>1, <1>2, <2>5 DEF SearchInv, NothingIsDroppedSilently
<1>6. CASE ~(Len(found) >= EffectiveLimit)
  <2>1. /\ ended' = [ended EXCEPT !.next = @ + 1]
        /\ found' = IF query.tags[ended.next] = "match" THEN Append(found, Digit[ended.next]) ELSE found
    BY <1>6 DEF StatEntry
  <2>2. ended' = [next |-> ended.next + 1, limited |-> ended.limited]
    BY <1>0, <2>1 DEF Listing
  <2>3. ended'.next = ended.next + 1 /\ ended'.limited = ended.limited
    BY <2>2
  <2>4. c \in 0 .. Len(Sent) - 1 /\ c + 1 = ended.next /\ c \in 0 .. Len(Sent) /\ c < Len(Sent) /\ c + 1 \in 1 .. Len(Sent)
    BY <1>3
  <2>5. /\ Rank(Hits, c) \in Nat
        /\ Rank(Hits, c + 1) = IF c + 1 \in Hits THEN Rank(Hits, c) + 1 ELSE Rank(Hits, c)
        /\ (c + 1 \in Hits <=> Sent[c + 1] = "match")
        /\ (Sent[c + 1] = "match" => TagByte(Sent, c + 1) = Digit[c + 1])
    <3> HIDE DEF c
    <3>1. Sent \in Seq(Tags) /\ Len(Sent) <= SearchLines /\ Sent[c + 1] \in Tags /\ Sent[c + 1] # "raw"
      BY <1>0, <1>3, <2>4, SentIs DEF Query
    <3>2. Sent[c + 1] = "match" => TagByte(Sent, c + 1) = Digit[c + 1]
      BY <2>4, <3>1, TagByteIs
    <3> QED
      BY <1>0, <2>4, <3>1, <3>2, HitsAre, SentIs DEF Tags
  <2>6. FirstHits(found') /\ Len(found') = Rank(Hits, c + 1) /\ Len(found') <= Len(found) + 1
    <3>1. CASE c + 1 \in Hits
      <4>1. found' = Append(found, TagByte(Sent, c + 1))
        BY <1>3, <2>1, <2>4, <2>5, <3>1
      <4>2. Len(found) = Rank(Hits, c)
        BY <1>3
      <4> HIDE DEF c
      <4>3. /\ FirstHits(Append(found, TagByte(Sent, c + 1)))
            /\ Len(Append(found, TagByte(Sent, c + 1))) = Rank(Hits, c + 1)
        BY <1>0, <1>3, <2>4, <3>1, <4>2, HitAdded
      <4> QED
        BY <1>4, <2>5, <3>1, <4>1, <4>2, <4>3
    <3>2. CASE c + 1 \notin Hits
      <4>1. found' = found
        BY <1>3, <2>1, <2>4, <2>5, <3>2
      <4> QED
        BY <1>3, <1>4, <2>5, <3>2, <4>1
    <3> QED
      BY <3>1, <3>2
  <2>7. ended'.next \in 1 .. Len(Sent') + 1 /\ ended'.next - 1 = c + 1 /\ ended'.limited = FALSE
    BY <1>2, <1>3, <2>3 DEF StatEntry
  <2>8. FirstHits(found)' /\ Len(found') = Rank(Hits', ended'.next - 1)
    BY <1>2, <2>6, <2>7
  <2>9. EffectiveLimit' > 0 => Len(found') <= EffectiveLimit'
    BY <1>2, <1>3, <1>4, <1>6, <2>5, <2>6
  <2>10. Listing'
    <3>1. ended' = [next |-> ended'.next, limited |-> ended'.limited]
      BY <2>2, <2>3
    <3>2. query'.tool = "ls"
      BY <1>1, <1>3
    <3> QED
      BY ONLY <2>7, <2>8, <2>9, <3>1, <3>2 DEF Listing
  <2> QED
    BY <1>1, <1>2, <2>10 DEF SearchInv, NothingIsDroppedSilently
<1> QED
  BY <1>5, <1>6

LEMMA ListingFinishes ==
  ASSUME SearchInv, FinishListing
  PROVE  SearchInv'
<1>0. Query /\ Listing
  BY DEF SearchInv, FinishListing
<1>1. query' = query /\ search' = "done" /\ reply' = Format(found, ended.limited /\ found # <<>>)
  BY DEF FinishListing
<1>2. Query' /\ EffectiveLimit' = EffectiveLimit
  BY <1>0, <1>1, SentStays
<1>3. /\ query.tool = "ls" /\ Sent = query.tags /\ Len(Sent) \in Nat /\ EffectiveLimit \in Int
      /\ ended.next \in 1 .. Len(Sent) + 1 /\ FirstHits(found) /\ Len(found) = Rank(Hits, ended.next - 1)
      /\ ended.limited \in BOOLEAN /\ (EffectiveLimit > 0 => Len(found) <= EffectiveLimit)
      /\ (ended.limited = TRUE => Len(found) >= EffectiveLimit)
      /\ (ended.next > Len(Sent) \/ ended.limited = TRUE)
  BY <1>0, SentIs, LimitIs DEF Listing, FinishListing
<1>4. found \in Seq(RowBytes) /\ Len(found) \in Nat
  BY <1>3 DEF FirstHits
<1>5. CASE ~(EffectiveLimit > 0)
  BY <1>1, <1>2, <1>5 DEF SearchInv, NothingIsDroppedSilently
<1>6. CASE EffectiveLimit > 0
  <2> DEFINE limited == ended.limited /\ found # <<>>  r == Format(found, limited)
  <2>1. limited = TRUE \/ Len(found) = Cardinality(Hits)
    <3>1. CASE ended.limited = TRUE
      <4>1. Len(found) # 0
        BY <1>3, <1>4, <1>6, <3>1
      <4>2. found # <<>>
        <5> SUFFICES ASSUME found = <<>> PROVE FALSE
          OBVIOUS
        <5>1. Len(found) = 0
          BY ONLY found = <<>>
        <5> QED
          BY <4>1, <5>1
      <4> QED
        BY <3>1, <4>2
    <3>2. CASE ended.limited # TRUE
      <4>1. ended.next - 1 = Len(Sent)
        <5>1. \A x, n \in Int : x \in 1 .. n + 1 /\ x > n => x - 1 = n
          OBVIOUS
        <5>2. ended.next > Len(Sent) /\ Len(Sent) \in Int /\ ended.next \in Int /\ ended.next \in 1 .. Len(Sent) + 1
          <6>1. ended.next > Len(Sent)
            BY <1>3, <3>2
          <6>2. \A x, n \in Int : x \in 1 .. n + 1 => x \in Int
            OBVIOUS
          <6> QED
            BY <1>3, <6>1
        <5> QED
          BY <5>1, <5>2
      <4>2. Len(Sent) \in 0 .. Len(Sent)
        BY <1>3
      <4> QED
        BY <1>0, <1>3, <4>1, <4>2, HitsAre
    <3> QED
      BY <3>1, <3>2
  <2> HIDE DEF limited
  <2>2. Answers(r, RowsOf(found), limited)
    BY <1>4, FormatIs
  <2> HIDE DEF r
  <2>3. /\ IsPrefix(r.rows, Everything)
        /\ r.rows # Everything => r.limited = TRUE \/ r.capped = TRUE
        /\ Len(r.rows) <= EffectiveLimit
    BY <1>0, <1>3, <1>6, <2>1, <2>2, AnswerIsHonest
  <2>4. Everything' = Everything
    BY <1>1 DEF Everything, AllMatches, EffectiveLimit, MatchesOf
  <2>5. reply' = r
    BY <1>1 DEF r, limited
  <2>6. NothingIsDroppedSilently'
    BY <1>2, <2>3, <2>4, <2>5 DEF NothingIsDroppedSilently
  <2> QED
    BY <1>1, <1>2, <2>6 DEF SearchInv
<1> QED
  BY <1>5, <1>6

LEMMA SearchKeeps == SearchInv /\ [SearchNext]_searchVars => SearchInv'
<1> SUFFICES ASSUME SearchInv, [SearchNext]_searchVars PROVE SearchInv'
  OBVIOUS
<1>1. CASE SearchPrecheck \/ StartRg \/ StartFd \/ ListDirectory \/ RunFails
  BY <1>1, SearchBegins
<1>2. CASE Chunk
  BY <1>2, ChunkTaken
<1>3. CASE Killed \/ Close
  BY <1>3, ProcessEnds
<1>4. CASE FinishGrep \/ FinishFind
  BY <1>4, SearchFinishes
<1>5. CASE StatEntry
  BY <1>5, EntryListed
<1>6. CASE FinishListing
  BY <1>6, ListingFinishes
<1>7. CASE UNCHANGED searchVars
  BY <1>7, SearchRests
<1> QED
  BY <1>1, <1>2, <1>3, <1>4, <1>5, <1>6, <1>7 DEF SearchNext

-----------------------------------------------------------------------------
(* What truncating a text from the tail keeps, and that an end of the text  *)
(* that is long enough is truncated to the same lines.                      *)

\* The numbers of lines at the end of a text that fit the limits.
EndsThatFit(s, maxLines, maxBytes) == {k \in Loop(s, maxLines) : Len(LastLines(s, k)) <= maxBytes}

\* A text without a line over the limit on bytes is cut between lines.
TailShows(cut, s, maxLines, maxBytes) ==
  /\ cut.lastLinePartial = FALSE
  /\ Fits(s, maxLines, maxBytes) =>
       cut.content = s /\ cut.truncated = FALSE /\ cut.outputLines = splitLinesForCounting(s)
  /\ ~Fits(s, maxLines, maxBytes) =>
       /\ cut.truncated = TRUE
       /\ cut.outputLines = Max(EndsThatFit(s, maxLines, maxBytes))
       /\ cut.content = LastLines(s, Max(EndsThatFit(s, maxLines, maxBytes)))

\* kept is the largest of them.
IsEnd(s, maxLines, maxBytes, kept) ==
  /\ kept \in EndsThatFit(s, maxLines, maxBytes)
  /\ kept \in 1 .. splitLinesForCounting(s)
  /\ kept <= maxLines
  /\ \A k \in EndsThatFit(s, maxLines, maxBytes) : k <= kept
  /\ \A k : k \in EndsThatFit(s, maxLines, maxBytes)
            <=> k \in 0 .. splitLinesForCounting(s) /\ k <= maxLines /\ Len(LastLines(s, k)) <= maxBytes

LEMMA EndIs ==
  ASSUME NEW T, NEW s \in Seq(T), NEW maxLines \in Nat \ {0}, NEW maxBytes \in Nat,
         \A i \in 1 .. LineCount(s) : Len(Lines(s, i, i)) <= maxBytes, s # <<>>
  PROVE  IsEnd(s, maxLines, maxBytes, Max(EndsThatFit(s, maxLines, maxBytes)))
<1> DEFINE n == splitLinesForCounting(s)
           A == EndsThatFit(s, maxLines, maxBytes)
           kept == Max(A)
<1>1. n \in 1 .. LineCount(s) /\ LineCount(s) \in Nat /\ n \in Nat
  BY CountIs, EndsAre
<1>2. Loop(s, maxLines) = 0 .. (IF n <= maxLines THEN n ELSE maxLines)
  BY <1>1, SmallerIs DEF Loop
<1>3. LastLines(s, 1) = Lines(s, n, n)
  <2>1. n - 1 + 1 = n
    BY <1>1
  <2> QED
    BY <2>1 DEF LastLines
<1>4. 1 \in A
  BY <1>1, <1>2, <1>3 DEF EndsThatFit
<1>5. A \in SUBSET (0 .. n) /\ \A k : k \in A <=> k \in 0 .. n /\ k <= maxLines /\ Len(LastLines(s, k)) <= maxBytes
  BY <1>1, <1>2 DEF EndsThatFit
<1> HIDE DEF A, n
<1>6. kept \in A /\ \A x \in A : x <= kept
  BY <1>1, <1>4, <1>5, LargestIs
<1>7. kept \in 1 .. n /\ kept <= maxLines
  <2>1. 1 <= kept /\ kept \in 0 .. n /\ kept <= maxLines
    BY <1>4, <1>5, <1>6
  <2> HIDE DEF kept
  <2> QED
    BY <1>1, <2>1
<1> QED
  BY <1>5, <1>6, <1>7 DEF A, n, IsEnd

LEMMA TailIs ==
  ASSUME NEW T, NEW s \in Seq(T), NEW maxLines \in Nat \ {0}, NEW maxBytes \in Nat,
         \A i \in 1 .. LineCount(s) : Len(Lines(s, i, i)) <= maxBytes
  PROVE  TailShows(truncateTail(s, maxLines, maxBytes), s, maxLines, maxBytes)
<1> DEFINE cut == truncateTail(s, maxLines, maxBytes)
           kept == Max(EndsThatFit(s, maxLines, maxBytes))
           lines == LastLines(s, kept)  by == StoppedBy(s, kept, maxLines)  n == splitLinesForCounting(s)
<1> SUFFICES TailShows(cut, s, maxLines, maxBytes)
  OBVIOUS
<1>1. CASE Fits(s, maxLines, maxBytes)
  <2>1. cut = Truncation(s, "none", n, FALSE, FALSE)
    BY <1>1 DEF truncateTail
  <2> HIDE DEF cut, kept, lines, by, n
  <2>2. cut.content = s /\ cut.outputLines = n
    BY ONLY <2>1 DEF Truncation
  <2>3. cut.truncated = FALSE
    BY ONLY <2>1 DEF Truncation
  <2>4. cut.lastLinePartial = FALSE
    BY ONLY <2>1 DEF Truncation
  <2> QED
    BY <1>1, <2>2, <2>3, <2>4 DEF TailShows, n
<1>2. CASE ~Fits(s, maxLines, maxBytes)
  <2>1. s # <<>>
    <3> SUFFICES ASSUME s = <<>> PROVE FALSE
      OBVIOUS
    <3>1. n = 0 /\ Len(s) = 0
      BY CountIs
    <3> QED
      BY <1>2, <3>1 DEF Fits
  <2>2. kept # 0
    <3>1. kept \in 1 .. n
      <4>1. IsEnd(s, maxLines, maxBytes, kept)
        BY <2>1, EndIs
      <4> HIDE DEF kept
      <4> QED
        BY <4>1 DEF IsEnd
    <3>2. n \in Nat
      BY CountIs, EndsAre
    <3> HIDE DEF kept, n
    <3> QED
      BY <3>1, <3>2
  <2>3. cut = Truncation(lines, by, kept, FALSE, FALSE)
    <3> HIDE DEF kept
    <3> QED
      BY <1>2, <2>2 DEF truncateTail, kept, EndsThatFit
  <2>4. by # "none"
    BY DEF StoppedBy
  <2> HIDE DEF cut, lines, by
  <2>5. cut.content = lines /\ cut.outputLines = kept
    BY ONLY <2>3 DEF Truncation
  <2>6. cut.truncated = TRUE
    BY ONLY <2>3, <2>4 DEF Truncation
  <2>7. cut.lastLinePartial = FALSE
    BY ONLY <2>3 DEF Truncation
  <2> QED
    BY <1>2, <2>5, <2>6, <2>7 DEF TailShows, lines
<1> QED
  BY <1>1, <1>2

\* The end of a text that begins with a line, and with what is left of it more than twice
\* as long as the limit unless it is all of it.
EndsLike(t, s, m, maxBytes) ==
  /\ m \in 0 .. LineCount(s) - 1 /\ t = Lines(s, m + 1, LineCount(s))
  /\ m > 0 => Len(s) - Cut(s, m - 1) > 2 * maxBytes

\* Both are cut to the same lines.
SameTail(c, d, s, maxLines, maxBytes) ==
  /\ c.content \in {d.content, d.content \o <<"nl">>} /\ c.lastLinePartial = FALSE
  /\ d.truncated = ~Fits(s, maxLines, maxBytes)
  /\ d.truncated = TRUE => c.outputLines = d.outputLines

LEMMA WholeIsItsTail ==
  ASSUME NEW T, NEW s \in Seq(T), NEW maxLines \in Nat \ {0}, NEW maxBytes \in Nat,
         \A i \in 1 .. LineCount(s) : Len(Lines(s, i, i)) <= maxBytes
  PROVE  LET d == truncateTail(s, maxLines, maxBytes) IN SameTail(d, d, s, maxLines, maxBytes)
<1> DEFINE d == truncateTail(s, maxLines, maxBytes)
<1>1. TailShows(d, s, maxLines, maxBytes)
  BY TailIs
<1> HIDE DEF d
<1>2. SameTail(d, d, s, maxLines, maxBytes)
  <2>1. Fits(s, maxLines, maxBytes) \in BOOLEAN
    BY DEF Fits
  <2> QED
    BY <1>1, <2>1 DEF TailShows, SameTail
<1> QED
  BY <1>2 DEF d

\* Without the newline at its end a text is its counted lines.
LEMMA CountedLines ==
  ASSUME NEW T, "nl" \in T, NEW s \in Seq(T), s # <<>>
  PROVE  /\ s \in {Lines(s, 1, splitLinesForCounting(s)), Lines(s, 1, splitLinesForCounting(s)) \o <<"nl">>}
         /\ Len(Lines(s, 1, splitLinesForCounting(s))) <= Len(s)
<1> DEFINE n == splitLinesForCounting(s)  c == LineCount(s)
<1>1. c \in Nat \ {0} /\ n \in 1 .. c
      /\ IF s[Len(s)] = "nl" THEN n = c - 1 /\ Cut(s, c - 1) = Len(s) ELSE n = c
  BY EndsAre, CountIs
<1>2. Lines(s, 1, c) = s
  BY WholeText
<1>3. CASE s[Len(s)] # "nl"
  <2>1. n = c
    BY <1>1, <1>3
  <2> QED
    BY <1>2, <2>1
<1>4. CASE s[Len(s)] = "nl"
  <2>1. n = c - 1 /\ Cut(s, c - 1) = Len(s) /\ 1 \in 1 .. c /\ n \in 1 .. c - 1 /\ c \in n + 1 .. c /\ n + 1 = c
        /\ c \in 1 .. c + 1 /\ c \in c - 1 .. c /\ c # c - 1 /\ 1 \in 1 .. c + 1 /\ n \in 1 - 1 .. c /\ n # 1 - 1 /\ 1 - 1 = 0
    BY <1>1, <1>4
  <2> HIDE DEF c, n
  <2>2. Lines(s, 1, n) \o <<"nl">> \o Lines(s, n + 1, c) = Lines(s, 1, c)
    BY <2>1, LinesJoined DEF c
  <2>3. Cut(s, c) = Len(s) + 1 /\ Cut(s, 0) = 0
    BY CutsAre DEF c
  <2>4. Lines(s, c, c) \in Seq(T) /\ Len(Lines(s, c, c)) = Cut(s, c) - Cut(s, c - 1) - 1
    <3>1. s \in Seq(T) /\ c \in 1 .. LineCount(s) + 1 /\ c \in c - 1 .. LineCount(s) /\ c # c - 1
      BY <2>1 DEF c
    <3> QED
      BY ONLY <3>1, LinesAre
  <2>5. Lines(s, 1, n) \in Seq(T) /\ Len(Lines(s, 1, n)) = Cut(s, n) - Cut(s, 1 - 1) - 1
    <3>1. s \in Seq(T) /\ 1 \in 1 .. LineCount(s) + 1 /\ n \in 1 - 1 .. LineCount(s) /\ n # 1 - 1
      BY <2>1 DEF c
    <3> QED
      BY ONLY <3>1, LinesAre
  <2>6. Lines(s, c, c) = <<>>
    <3>1. Len(Lines(s, c, c)) = 0
      BY <2>1, <2>3, <2>4
    <3> QED
      BY <2>4, <3>1, EmptySeq
  <2>7. Lines(s, 1, n) \o <<"nl">> \o <<>> = Lines(s, 1, n) \o <<"nl">>
    <3>1. <<"nl">> \in Seq(T)
      OBVIOUS
    <3>2. Lines(s, 1, n) \o <<"nl">> \in Seq(T)
      BY <2>5, <3>1, ConcatProperties
    <3> QED
      BY <3>2, ConcatEmptySeq
  <2>8. s = Lines(s, 1, n) \o <<"nl">>
    BY <1>2, <2>1, <2>2, <2>6, <2>7 DEF c
  <2>9. Len(Lines(s, 1, n)) <= Len(s)
    BY <2>1, <2>3, <2>5
  <2> QED
    BY <2>8, <2>9 DEF n
<1> QED
  BY <1>3, <1>4

\* What is known of t, the end of s that begins after its m-th line.
LEMMA EndsLikeIs ==
  ASSUME NEW T, NEW s \in Seq(T), NEW maxBytes \in Nat \ {0},
         \A i \in 1 .. LineCount(s) : Len(Lines(s, i, i)) <= maxBytes,
         NEW t, NEW m \in Nat \ {0}, EndsLike(t, s, m, maxBytes)
  PROVE  /\ t \in Seq(T) /\ t # <<>> /\ s # <<>> /\ Len(s) > maxBytes
         /\ LineCount(t) = LineCount(s) - m
         /\ splitLinesForCounting(t) = splitLinesForCounting(s) - m
         /\ \A i \in 1 .. LineCount(t) : Len(Lines(t, i, i)) <= maxBytes
<1> DEFINE c == LineCount(s)
<1>1. /\ c \in Nat \ {0} /\ m \in 1 .. c - 1 /\ m \in 0 .. c /\ m - 1 \in 0 .. c /\ c \in 0 .. c /\ t = Lines(s, m + 1, c)
      /\ Len(s) - Cut(s, m - 1) > 2 * maxBytes /\ Len(s) \in Nat
  BY EndsAre DEF EndsLike
<1>2. /\ Cut(s, m) \in 0 .. Len(s) + 1 /\ Cut(s, m - 1) \in 0 .. Len(s) + 1 /\ Cut(s, c) = Len(s) + 1
      /\ Cut(s, m) < Cut(s, c)
  BY <1>1, CutsAre
<1> HIDE DEF c
<1>3. /\ t \in Seq(T) /\ Len(t) = Len(s) - Cut(s, m)
      /\ \A k \in 1 .. Len(t) : t[k] = s[Cut(s, m) + k]
  <2>1. m + 1 \in 1 .. c + 1 /\ c \in (m + 1) - 1 .. c /\ (m + 1) - 1 = m /\ c # m
    BY <1>1
  <2>2. /\ Lines(s, m + 1, c) \in Seq(T)
        /\ Len(Lines(s, m + 1, c)) = IF c = (m + 1) - 1 THEN 0 ELSE Cut(s, c) - Cut(s, (m + 1) - 1) - 1
        /\ \A k \in 1 .. Len(Lines(s, m + 1, c)) : Lines(s, m + 1, c)[k] = s[Cut(s, (m + 1) - 1) + k]
    <3> DEFINE i == m + 1
    <3>1. s \in Seq(T) /\ i \in 1 .. LineCount(s) + 1 /\ c \in i - 1 .. LineCount(s)
      BY <2>1 DEF c
    <3> HIDE DEF i
    <3>2. /\ Lines(s, i, c) \in Seq(T)
          /\ Len(Lines(s, i, c)) = IF c = i - 1 THEN 0 ELSE Cut(s, c) - Cut(s, i - 1) - 1
          /\ \A k \in 1 .. Len(Lines(s, i, c)) : Lines(s, i, c)[k] = s[Cut(s, i - 1) + k]
      BY ONLY <3>1, LinesAre
    <3> QED
      BY ONLY <3>2 DEF i
  <2> QED
    BY <1>1, <1>2, <2>1, <2>2
<1>4. Len(Lines(s, m, m)) = Cut(s, m) - Cut(s, m - 1) - 1 /\ Len(Lines(s, m, m)) <= maxBytes
  <2>1. m \in 1 .. c + 1 /\ m \in m - 1 .. c /\ m # m - 1 /\ m \in 1 .. c
    BY <1>1
  <2>2. Len(Lines(s, m, m)) = Cut(s, m) - Cut(s, m - 1) - 1
    <3>1. s \in Seq(T) /\ m \in 1 .. LineCount(s) + 1 /\ m \in m - 1 .. LineCount(s) /\ m # m - 1
      BY <2>1 DEF c
    <3> QED
      BY ONLY <3>1, LinesAre
  <2> QED
    BY <2>1, <2>2 DEF c
<1>5. Len(t) > 0 /\ Len(s) > maxBytes
  <2> DEFINE x == Cut(s, m)  y == Cut(s, m - 1)  l == Len(s)  k == Len(t)
  <2>1. /\ x \in 0 .. l + 1 /\ y \in 0 .. l + 1 /\ x < l + 1 /\ l \in Nat /\ l - y > 2 * maxBytes
        /\ maxBytes \in Nat \ {0}
    BY <1>1, <1>2
  <2>2. k = l - x /\ x - y - 1 <= maxBytes
    BY <1>3, <1>4
  <2> HIDE DEF x, y, l, k
  <2>3. k > 0 /\ l > maxBytes
    BY ONLY <2>1, <2>2
  <2> QED
    BY ONLY <2>3 DEF k, l
<1>6. t # <<>> /\ s # <<>>
  <2>1. \A u : u = <<>> => Len(u) = 0
    OBVIOUS
  <2> QED
    BY <1>1, <1>3, <1>5, <2>1
<1>7. LineCount(t) = c - m /\ \A k \in 0 .. c - m : Cut(t, k) = Cut(s, m + k) - Cut(s, m)
  <2>1. m + 1 \in 1 .. c /\ c \in m + 1 .. c /\ c - (m + 1) + 1 = c - m /\ (m + 1) - 1 = m
    BY <1>1
  <2>2. /\ LineCount(Lines(s, m + 1, c)) = c - (m + 1) + 1
        /\ \A k \in 0 .. c - (m + 1) + 1 :
             Cut(Lines(s, m + 1, c), k) = Cut(s, (m + 1) - 1 + k) - Cut(s, (m + 1) - 1)
    BY <2>1, CutsOfLines DEF c
  <2> QED
    BY <1>1, <2>1, <2>2
<1>8. splitLinesForCounting(t) = splitLinesForCounting(s) - m
  <2>1. IF t[Len(t)] = "nl" THEN splitLinesForCounting(t) = LineCount(t) - 1 ELSE splitLinesForCounting(t) = LineCount(t)
    BY <1>3, <1>6, CountIs
  <2>2. IF s[Len(s)] = "nl" THEN splitLinesForCounting(s) = c - 1 ELSE splitLinesForCounting(s) = c
    BY <1>6, CountIs DEF c
  <2>3. t[Len(t)] = s[Len(s)]
    <3>1. Len(t) \in 1 .. Len(t) /\ Cut(s, m) + Len(t) = Len(s)
      BY <1>2, <1>3, <1>5
    <3> QED
      BY <1>3, <3>1
  <2> QED
    BY <1>1, <1>7, <2>1, <2>2, <2>3
<1>9. \A i \in 1 .. LineCount(t) : Len(Lines(t, i, i)) <= maxBytes
  <2> TAKE i \in 1 .. LineCount(t)
  <2>1. i \in 1 .. c - m /\ i \in 1 .. LineCount(t) + 1 /\ i \in i - 1 .. LineCount(t) /\ i # i - 1 /\ LineCount(t) = c - m
        /\ m + i \in 1 .. c /\ m + i \in 1 .. c + 1 /\ m + i \in (m + i) - 1 .. c /\ m + i # (m + i) - 1
        /\ i \in 0 .. c - m /\ i - 1 \in 0 .. c - m /\ m + (i - 1) = (m + i) - 1 /\ m + i \in 0 .. c /\ (m + i) - 1 \in 0 .. c
    BY <1>1, <1>7
  <2>2. Len(Lines(t, i, i)) = Cut(t, i) - Cut(t, i - 1) - 1
    BY <1>3, <2>1, LinesAre
  <2>3. Len(Lines(s, m + i, m + i)) = Cut(s, m + i) - Cut(s, (m + i) - 1) - 1 /\ Len(Lines(s, m + i, m + i)) <= maxBytes
    BY <2>1, LinesAre DEF c
  <2>4. Cut(t, i) = Cut(s, m + i) - Cut(s, m) /\ Cut(t, i - 1) = Cut(s, (m + i) - 1) - Cut(s, m)
    <3>1. Cut(t, i - 1) = Cut(s, m + (i - 1)) - Cut(s, m)
      BY <1>7, <2>1
    <3> QED
      BY <1>7, <2>1, <3>1
  <2>5. Cut(s, m + i) \in Int /\ Cut(s, (m + i) - 1) \in Int /\ Cut(s, m) \in Int
    BY <1>2, <2>1, CutsAre DEF c
  <2> QED
    BY <2>2, <2>3, <2>4, <2>5
<1> QED
  BY <1>3, <1>5, <1>6, <1>7, <1>8, <1>9 DEF c

\* The last k lines are those of its end, or already too long.
LEMMA LastLinesOfEnd ==
  ASSUME NEW T, NEW s \in Seq(T), NEW maxBytes \in Nat \ {0},
         \A i \in 1 .. LineCount(s) : Len(Lines(s, i, i)) <= maxBytes,
         NEW t, NEW m \in Nat \ {0}, EndsLike(t, s, m, maxBytes),
         NEW k \in 0 .. splitLinesForCounting(s)
  PROVE  /\ k <= splitLinesForCounting(t) => LastLines(s, k) = LastLines(t, k)
         /\ k > splitLinesForCounting(t) => Len(LastLines(s, k)) > maxBytes
<1> DEFINE c == LineCount(s)  n == splitLinesForCounting(s)
<1>1. /\ c \in Nat \ {0} /\ m \in 1 .. c - 1 /\ t = Lines(s, m + 1, c) /\ Len(s) - Cut(s, m - 1) > 2 * maxBytes /\ Len(s) \in Nat
  BY EndsAre DEF EndsLike
<1>2. /\ t \in Seq(T) /\ s # <<>> /\ t # <<>> /\ LineCount(t) = c - m /\ splitLinesForCounting(t) = n - m
  BY EndsLikeIs
<1>3. n \in 1 .. c /\ n \in Nat /\ n - m \in 1 .. c - m /\ k \in 0 .. n /\ Cut(s, n) \in Int /\ Cut(s, n) >= Len(s)
  <2>1. n \in 1 .. c /\ (IF s[Len(s)] = "nl" THEN n = c - 1 /\ Cut(s, c - 1) = Len(s) ELSE n = c)
    BY <1>2, CountIs
  <2>2. splitLinesForCounting(t) \in 1 .. LineCount(t)
    BY <1>2, CountIs
  <2>3. Cut(s, c) = Len(s) + 1
    BY CutsAre
  <2> HIDE DEF c, n
  <2> QED
    BY <1>1, <1>2, <2>1, <2>2, <2>3 DEF n
<1> HIDE DEF c, n
<1>4. CASE k <= n - m
  <2>1. LastLines(s, k) = Lines(s, n - k + 1, n) /\ LastLines(t, k) = Lines(t, n - m - k + 1, n - m)
    BY <1>2 DEF LastLines, n
  <2>2. CASE k = 0
    <3>1. n - k + 1 = n + 1 /\ n - m - k + 1 = n - m + 1 /\ n + 1 \in 1 .. c + 1 /\ n \in (n + 1) - 1 .. c /\ n = (n + 1) - 1
          /\ n - m + 1 \in 1 .. c - m + 1 /\ n - m \in (n - m + 1) - 1 .. c - m /\ n - m = (n - m + 1) - 1
      BY <1>1, <1>3, <2>2
    <3>2. Lines(s, n + 1, n) = <<>>
      BY <3>1, LinesAre DEF c
    <3>3. Lines(t, n - m + 1, n - m) = <<>>
      <4> DEFINE a == n - m + 1  b == n - m
      <4>1. a \in 1 .. LineCount(t) + 1 /\ b \in a - 1 .. LineCount(t) /\ b = a - 1
        BY <1>2, <3>1
      <4> HIDE DEF a, b
      <4>2. Lines(t, a, b) = <<>>
        BY <1>2, <4>1, LinesAre
      <4> QED
        BY <4>2 DEF a, b
    <3> QED
      BY <1>2, <1>3, <1>4, <2>1, <3>1, <3>2, <3>3 DEF n
  <2>3. CASE k # 0
    <3> DEFINE i == m + 1  a == n - m - k + 1  b == n - m
    <3>1. i \in 1 .. c /\ c \in i .. c /\ a \in 1 .. c - i + 1 /\ b \in a .. c - i + 1
          /\ i - 1 + a = n - k + 1 /\ i - 1 + b = n
      BY <1>1, <1>3, <1>4, <2>3
    <3> HIDE DEF i, a, b
    <3>2. Lines(Lines(s, i, c), a, b) = Lines(s, i - 1 + a, i - 1 + b)
      BY <3>1, LinesOfLines DEF c
    <3>3. Lines(t, a, b) = Lines(s, n - k + 1, n)
      BY <1>1, <3>1, <3>2 DEF i
    <3> QED
      BY <1>2, <1>3, <1>4, <2>1, <3>3 DEF n, a, b
  <2> QED
    BY <2>2, <2>3
<1>5. CASE k > n - m
  <2> DEFINE i == n - k + 1
  <2>1. i \in 1 .. c + 1 /\ n \in i - 1 .. c /\ n # i - 1 /\ i - 1 \in 0 .. m - 1 /\ i - 1 = n - k
        /\ m - 1 \in 0 .. c /\ i - 1 \in 0 .. c /\ n \in 0 .. c
    BY <1>1, <1>3, <1>5
  <2> HIDE DEF i
  <2>2. Len(Lines(s, i, n)) = Cut(s, n) - Cut(s, i - 1) - 1
    BY <2>1, LinesAre DEF c
  <2>3. Cut(s, i - 1) <= Cut(s, m - 1)
    <3>1. Cut(s, i - 1) \in Int /\ (i - 1 < m - 1 => Cut(s, i - 1) < Cut(s, m - 1))
      BY <2>1, CutsAre DEF c
    <3>2. Cut(s, m - 1) \in Int
      BY <2>1, CutsAre DEF c
    <3>3. i - 1 < m - 1 \/ i - 1 = m - 1
      BY <1>1, <2>1
    <3> QED
      BY <3>1, <3>2, <3>3
  <2>4. Cut(s, i - 1) \in Int /\ Cut(s, m - 1) \in Int
    BY <2>1, CutsAre DEF c
  <2>5. Len(Lines(s, i, n)) > maxBytes
    BY <1>1, <1>3, <2>2, <2>3, <2>4
  <2>6. LastLines(s, k) = Lines(s, i, n)
    BY DEF LastLines, n, i
  <2> QED
    BY <1>2, <1>3, <1>5, <2>5, <2>6 DEF n
<1> QED
  BY <1>1, <1>3, <1>4, <1>5

LEMMA TailOfTail ==
  ASSUME NEW T, "nl" \in T, NEW s \in Seq(T), NEW maxLines \in Nat \ {0}, NEW maxBytes \in Nat \ {0},
         \A i \in 1 .. LineCount(s) : Len(Lines(s, i, i)) <= maxBytes,
         NEW t, NEW m \in Nat, EndsLike(t, s, m, maxBytes)
  PROVE  SameTail(truncateTail(t, maxLines, maxBytes), truncateTail(s, maxLines, maxBytes), s, maxLines, maxBytes)
<1> DEFINE e == truncateTail(t, maxLines, maxBytes)  d == truncateTail(s, maxLines, maxBytes)
<1>1. CASE m = 0
  <2>1. t = s
    <3>1. m + 1 = 1
      BY <1>1
    <3> QED
      BY <3>1, WholeText DEF EndsLike
  <2>2. LET x == truncateTail(s, maxLines, maxBytes) IN SameTail(x, x, s, maxLines, maxBytes)
    BY WholeIsItsTail
  <2> QED
    BY <2>1, <2>2
<1>2. CASE m # 0
  <2> DEFINE n == splitLinesForCounting(s)  l == splitLinesForCounting(t)
             A == EndsThatFit(s, maxLines, maxBytes)  B == EndsThatFit(t, maxLines, maxBytes)
             K == Max(A)
  <2>1. m \in Nat \ {0}
    BY <1>2
  <2>2. /\ t \in Seq(T) /\ t # <<>> /\ s # <<>> /\ Len(s) > maxBytes /\ l = n - m
        /\ \A i \in 1 .. LineCount(t) : Len(Lines(t, i, i)) <= maxBytes
    BY <2>1, EndsLikeIs
  <2>3. n \in Nat /\ l \in Nat /\ Len(t) \in Nat /\ Len(s) \in Nat
    BY <2>2, CountIs, EndsAre
  <2>4. IsEnd(s, maxLines, maxBytes, Max(A)) /\ IsEnd(t, maxLines, maxBytes, Max(B))
    BY <2>2, EndIs
  <2> HIDE DEF e, d
  <2>5. TailShows(d, s, maxLines, maxBytes) /\ TailShows(e, t, maxLines, maxBytes)
    BY <2>2, TailIs DEF d, e
  <2>6. \A k \in 0 .. n : /\ k <= l => LastLines(s, k) = LastLines(t, k)
                          /\ k > l => Len(LastLines(s, k)) > maxBytes
    BY <2>1, LastLinesOfEnd
  <2>7. \A k : k \in A => k \in B
    <3> TAKE k
    <3> HAVE k \in A
    <3>1. k \in 0 .. n /\ k <= maxLines /\ Len(LastLines(s, k)) <= maxBytes
      BY <2>4 DEF IsEnd
    <3>2. k <= l
      <4> SUFFICES ASSUME k > l PROVE FALSE
        BY <2>3, <3>1
      <4>1. Len(LastLines(s, k)) > maxBytes
        BY <2>6, <3>1
      <4> QED
        BY <2>3, <3>1, <4>1
    <3>3. k \in 0 .. l /\ LastLines(s, k) = LastLines(t, k)
      BY <2>3, <2>6, <3>1, <3>2
    <3> QED
      BY <2>4, <3>1, <3>3 DEF IsEnd
  <2>8. \A k : k \in B => k \in A
    <3> TAKE k
    <3> HAVE k \in B
    <3>1. k \in 0 .. l /\ k <= maxLines /\ Len(LastLines(t, k)) <= maxBytes
      BY <2>4 DEF IsEnd
    <3>2. k \in 0 .. n /\ LastLines(s, k) = LastLines(t, k)
      BY <2>2, <2>3, <2>6, <3>1
    <3> QED
      BY <2>4, <3>1, <3>2 DEF IsEnd
  <2>9. A = B
    BY <2>7, <2>8
  <2> HIDE DEF A, B
  <2>10. K \in A /\ K \in 1 .. l /\ K <= maxLines /\ \A k \in A : k <= K
    BY <2>4, <2>9 DEF IsEnd, A, B
  <2> HIDE DEF K, l
  <2>11. K \in 0 .. n /\ LastLines(s, K) = LastLines(t, K)
    <3>1. K \in 0 .. n /\ K <= l
      BY <2>2, <2>3, <2>10, <2>1
    <3> QED
      BY <2>6, <3>1
  <2>12. d.truncated = TRUE /\ d.outputLines = K /\ d.content = LastLines(s, K) /\ ~Fits(s, maxLines, maxBytes)
    <3>1. ~Fits(s, maxLines, maxBytes)
      BY <2>2, <2>3 DEF Fits
    <3> QED
      BY <2>5, <3>1 DEF TailShows, A, K
  <2>13. e.lastLinePartial = FALSE
    BY <2>5 DEF TailShows
  <2>14. CASE ~Fits(t, maxLines, maxBytes)
    <3>1. e.outputLines = K /\ e.content = LastLines(t, K)
      BY <2>5, <2>9, <2>14 DEF TailShows, A, B, K
    <3> QED
      BY <2>11, <2>12, <2>13, <3>1 DEF SameTail, d, e
  <2>15. CASE Fits(t, maxLines, maxBytes)
    <3>1. e.content = t /\ e.outputLines = l /\ l <= maxLines /\ Len(t) <= maxBytes
      BY <2>5, <2>15 DEF TailShows, Fits, l
    <3>2. LastLines(t, l) = Lines(t, 1, l)
      <4>1. l - l + 1 = 1
        BY <2>3 DEF l
      <4> QED
        BY <4>1 DEF LastLines, l
    <3>3. t \in {LastLines(t, l), LastLines(t, l) \o <<"nl">>} /\ Len(LastLines(t, l)) <= Len(t)
      BY <2>2, <3>2, CountedLines DEF l
    <3>4. Len(LastLines(t, l)) \in Nat
      <4>1. l \in 1 .. LineCount(t) /\ LineCount(t) \in Nat
        BY <2>2, CountIs, EndsAre DEF l
      <4>2. 1 \in 1 .. LineCount(t) + 1 /\ l \in 1 - 1 .. LineCount(t)
        BY <4>1
      <4>3. Lines(t, 1, l) \in Seq(T)
        BY <2>2, <4>2, LinesAre
      <4> QED
        BY <3>2, <4>3
    <3>5. l \in B
      <4>1. l \in 0 .. l /\ Len(LastLines(t, l)) <= maxBytes
        BY <2>3, <3>1, <3>3, <3>4 DEF l
      <4> QED
        BY <2>4, <3>1, <4>1 DEF IsEnd, B, l
    <3>6. K = l
      <4>1. l <= K
        BY <2>9, <2>10, <3>5
      <4>2. l \in Nat
        BY <2>3 DEF l
      <4> QED
        BY <2>10, <4>1, <4>2
    <3>7. e.content \in {d.content, d.content \o <<"nl">>} /\ e.outputLines = d.outputLines
      BY <2>11, <2>12, <3>1, <3>3, <3>6
    <3> QED
      BY <2>12, <2>13, <3>7 DEF SameTail, d, e
  <2> QED
    BY <2>14, <2>15 
<1> QED
  BY <1>1, <1>2

-----------------------------------------------------------------------------
(* The newlines of a text, and the counters of the accumulator.            *)

Newlines(s) == {i \in DOMAIN s : s[i] = "nl"}

LEMMA NewlinesAre ==
  ASSUME NEW T, NEW s \in Seq(T)
  PROVE  /\ Newlines(s) \in SUBSET (1 .. Len(s)) /\ IsFiniteSet(Newlines(s))
         /\ Cardinality(Newlines(s)) \in Nat
         /\ LineCount(s) = Cardinality(Newlines(s)) + 1
<1>1. DOMAIN s = 1 .. Len(s) /\ Len(s) \in Nat
  OBVIOUS
<1>2. Newlines(s) \in SUBSET (1 .. Len(s)) /\ Len(s) + 1 \notin Newlines(s)
  BY <1>1 DEF Newlines
<1>3. IsFiniteSet(Newlines(s))
  <2>1. IsFiniteSet(1 .. Len(s))
    BY <1>1, FS_Interval
  <2> QED
    BY <1>2, <2>1, FS_Subset
<1>4. Cardinality(Newlines(s) \cup {Len(s) + 1}) = Cardinality(Newlines(s)) + 1
  BY <1>2, <1>3, FS_AddElement
<1>5. LineCount(s) = Cardinality(Newlines(s) \cup {Len(s) + 1})
  BY DEF LineCount, LineEnds, Newlines
<1>6. Cardinality(Newlines(s)) \in Nat
  BY <1>3, FS_CardinalityType
<1> QED
  BY <1>2, <1>3, <1>4, <1>5, <1>6

\* Text that is added adds its newlines to the lines.
LEMMA LinesAdd ==
  ASSUME NEW T, NEW s \in Seq(T), NEW t \in Seq(T)
  PROVE  LineCount(s \o t) = LineCount(s) + Cardinality(Newlines(t))
<1> DEFINE n == Len(s)  A == Newlines(s)  B == Newlines(t)  C == Newlines(s \o t)
           D == {n + i : i \in B}  g == [i \in B |-> n + i]
<1>1. /\ s \o t \in Seq(T) /\ Len(s \o t) = n + Len(t) /\ n \in Nat /\ Len(t) \in Nat
      /\ \A i \in 1 .. n + Len(t) : (s \o t)[i] = IF i <= n THEN s[i] ELSE t[i - n]
  BY ConcatProperties
<1>2. /\ A \in SUBSET (1 .. n) /\ IsFiniteSet(A) /\ Cardinality(A) \in Nat /\ LineCount(s) = Cardinality(A) + 1
      /\ \A i : i \in A <=> i \in 1 .. n /\ s[i] = "nl"
  BY NewlinesAre DEF Newlines
<1>3. /\ B \in SUBSET (1 .. Len(t)) /\ IsFiniteSet(B) /\ Cardinality(B) \in Nat
      /\ \A i : i \in B <=> i \in 1 .. Len(t) /\ t[i] = "nl"
  <2>1. Newlines(t) \in SUBSET (1 .. Len(t)) /\ IsFiniteSet(Newlines(t)) /\ Cardinality(Newlines(t)) \in Nat
    BY NewlinesAre
  <2>2. \A i : i \in Newlines(t) <=> i \in 1 .. Len(t) /\ t[i] = "nl"
    <3>1. DOMAIN t = 1 .. Len(t)
      OBVIOUS
    <3> QED
      BY <3>1 DEF Newlines
  <2> QED
    BY <2>1, <2>2
<1>4. /\ LineCount(s \o t) = Cardinality(C) + 1
      /\ \A i : i \in C <=> i \in 1 .. n + Len(t) /\ (s \o t)[i] = "nl"
  <2> DEFINE u == s \o t
  <2>1. u \in Seq(T) /\ Len(u) = n + Len(t)
    BY <1>1
  <2> HIDE DEF u
  <2>2. LineCount(u) = Cardinality(Newlines(u)) + 1 /\ DOMAIN u = 1 .. Len(u)
    BY <2>1, NewlinesAre
  <2> QED
    BY <2>1, <2>2 DEF u, Newlines
<1> HIDE DEF n, A, B, C
<1>5. C = A \cup D
  <2>1. ASSUME NEW i \in C PROVE i \in A \cup D
    <3>1. i \in 1 .. n + Len(t) /\ (s \o t)[i] = "nl"
      BY <1>4
    <3>2. CASE i <= n
      BY <1>1, <1>2, <3>1, <3>2
    <3>3. CASE ~(i <= n)
      <4>1. i - n \in 1 .. Len(t) /\ t[i - n] = "nl" /\ n + (i - n) = i
        BY <1>1, <3>1, <3>3
      <4>2. i - n \in B
        BY <1>3, <4>1
      <4> QED
        BY <4>1, <4>2
    <3> QED
      BY <3>2, <3>3
  <2>2. ASSUME NEW i \in A PROVE i \in C
    BY <1>1, <1>2, <1>4
  <2>3. ASSUME NEW i \in D PROVE i \in C
    <3>1. PICK j \in B : i = n + j
      OBVIOUS
    <3>2. j \in 1 .. Len(t) /\ t[j] = "nl"
      BY <1>3
    <3>3. i \in 1 .. n + Len(t) /\ ~(i <= n) /\ i - n = j
      BY <1>1, <3>1, <3>2
    <3> QED
      BY <1>1, <1>4, <3>2, <3>3
  <2> QED
    BY <2>1, <2>2, <2>3
<1>6. A \cap D = {}
  BY <1>1, <1>2, <1>3
<1>7. IsFiniteSet(D) /\ Cardinality(D) = Cardinality(B)
  <2>1. g \in Bijection(B, D)
    <3>1. g \in [B -> D] /\ \A x \in D : \E i \in B : g[i] = x
      OBVIOUS
    <3>2. \A i, j \in B : g[i] = g[j] => i = j
      <4> SUFFICES ASSUME NEW i \in B, NEW j \in B, g[i] = g[j] PROVE i = j
        OBVIOUS
      <4>1. n + i = n + j /\ i \in Int /\ j \in Int
        BY <1>3
      <4> QED
        BY <1>1, <4>1
    <3> HIDE DEF g, D
    <3> QED
      BY <3>1, <3>2 DEF Bijection, Injection, Surjection, IsInjective
  <2> HIDE DEF g, D
  <2>2. ExistsBijection(B, D)
    BY <2>1 DEF ExistsBijection
  <2> QED
    BY <1>3, <2>2, FS_Bijection
<1> HIDE DEF D
<1>8. Cardinality(C) = Cardinality(A) + Cardinality(B)
  <2>1. Cardinality(A \cup D) = Cardinality(A) + Cardinality(D) - Cardinality(A \cap D)
    BY <1>2, <1>7, FS_Union
  <2>2. Cardinality(A \cap D) = 0
    BY <1>6, FS_EmptySet
  <2> QED
    BY <1>2, <1>3, <1>5, <1>7, <2>1, <2>2
<1>9. LineCount(s \o t) = LineCount(s) + Cardinality(B)
  BY <1>2, <1>3, <1>4, <1>8
<1> QED
  BY <1>9 DEF B

-----------------------------------------------------------------------------
\* The counters of the accumulator are those of the text s.
Counts(decoded, completed, open, s) ==
  /\ decoded = Len(s) /\ completed \in Nat /\ completed + 1 = LineCount(s)
  /\ open = (s # <<>> /\ s[Len(s)] # "nl")

LEMMA CountsNothing == Counts(0, 0, FALSE, <<>>)
<1>1. <<>> \in Seq({}) /\ Len(<<>>) = 0
  OBVIOUS
<1>2. LineCount(<<>>) = 1
  BY <1>1, CountIs
<1> QED
  BY <1>1, <1>2 DEF Counts

LEMMA TotalIs ==
  ASSUME NEW s \in Seq(Bytes), NEW a, Counts(a.decoded, a.completed, a.open, s)
  PROVE  totalLines(a) = splitLinesForCounting(s)
<1>1. LineCount(s) \in Nat \ {0} /\ a.completed \in Nat /\ a.completed + 1 = LineCount(s)
  BY EndsAre DEF Counts
<1>2. CASE s = <<>>
  <2>1. splitLinesForCounting(s) = 0 /\ LineCount(s) = 1 /\ a.open = FALSE
    BY <1>2, CountIs DEF Counts
  <2> QED
    BY <1>1, <2>1 DEF totalLines
<1>3. CASE s # <<>>
  <2>1. IF s[Len(s)] = "nl" THEN splitLinesForCounting(s) = LineCount(s) - 1
        ELSE splitLinesForCounting(s) = LineCount(s)
    BY <1>3, CountIs
  <2>2. a.open = (s[Len(s)] # "nl")
    BY <1>3 DEF Counts
  <2>3. CASE s[Len(s)] = "nl"
    <3>1. a.open = FALSE
      BY <2>2, <2>3
    <3> QED
      BY <1>1, <2>1, <2>3, <3>1 DEF totalLines
  <2>4. CASE s[Len(s)] # "nl"
    <3>1. a.open = TRUE
      BY <2>2, <2>4
    <3> QED
      BY <1>1, <2>1, <2>4, <3>1 DEF totalLines
  <2> QED
    BY <2>3, <2>4
<1> QED
  BY <1>2, <1>3

-----------------------------------------------------------------------------
(* The rolling tail.                                                       *)

LEMMA RollingIs == maxRollingBytes = 2 * MaxBytes /\ MaxBytes \in Nat \ {0}
<1> DEFINE S == {MaxBytes * 2, 1}
<1>1. MaxBytes \in Nat \ {0}
  BY BashAssumption
<1>2. S \in SUBSET (0 .. 2 * MaxBytes) /\ S # {} /\ 2 * MaxBytes \in Nat
  BY <1>1
<1>3. 2 * MaxBytes \in S
  BY <1>1
<1> HIDE DEF S
<1>4. Max(S) \in S /\ \A x \in S : x <= Max(S)
  BY <1>2, LargestIs
<1>5. Max(S) = 2 * MaxBytes
  <2>1. Max(S) \in 0 .. 2 * MaxBytes /\ 2 * MaxBytes <= Max(S)
    BY <1>2, <1>3, <1>4
  <2> HIDE DEF S
  <2> QED
    BY <1>2, <2>1
<1> QED
  BY <1>1, <1>5 DEF S, maxRollingBytes

\* No character ends in the text that does not start in it, and none is split by a newline.
Wellmade(s) == \A i \in 1 .. Len(s) : s[i] = "c" => i > 1 /\ s[i - 1] # "nl"

LEMMA WellmadeTogether ==
  ASSUME NEW s \in Seq(Bytes), NEW t \in Seq(Bytes), Wellmade(s), Wellmade(t)
  PROVE  Wellmade(s \o t)
<1> DEFINE u == s \o t
<1>1. /\ Len(u) = Len(s) + Len(t) /\ Len(s) \in Nat /\ Len(t) \in Nat
      /\ \A i \in 1 .. Len(s) + Len(t) : u[i] = IF i <= Len(s) THEN s[i] ELSE t[i - Len(s)]
  BY ConcatProperties
<1> HIDE DEF u
<1>2. ASSUME NEW i \in 1 .. Len(u), u[i] = "c" PROVE i > 1 /\ u[i - 1] # "nl"
  <2>1. CASE i <= Len(s)
    <3>1. i \in 1 .. Len(s) /\ s[i] = "c"
      BY <1>1, <1>2, <2>1
    <3>2. i > 1 /\ s[i - 1] # "nl"
      BY <3>1 DEF Wellmade
    <3> QED
      BY <1>1, <2>1, <3>1, <3>2
  <2>2. CASE ~(i <= Len(s))
    <3>1. i - Len(s) \in 1 .. Len(t) /\ t[i - Len(s)] = "c"
      BY <1>1, <1>2, <2>2
    <3>2. i - Len(s) > 1 /\ t[i - Len(s) - 1] # "nl"
      BY <3>1 DEF Wellmade
    <3>3. i - 1 \in 1 .. Len(s) + Len(t) /\ ~(i - 1 <= Len(s)) /\ (i - 1) - Len(s) = i - Len(s) - 1
      BY <1>1, <2>2, <3>1, <3>2
    <3> QED
      BY <1>1, <3>2, <3>3
  <2> QED
    BY <2>1, <2>2
<1> QED
  BY <1>2 DEF Wellmade, u

\* What the accumulator keeps of the text s is what is left of it after p bytes.  The cut is
\* at the start of the window, w, or after the bytes of the character that reaches into it.
IsRest(tail, atLine, s, p, w) ==
  /\ p \in 0 .. Len(s) /\ tail = SubSeq(s, p + 1, Len(s))
  /\ atLine = (p = 0 \/ s[p] = "nl")
  /\ p > 0 => /\ w \in 1 .. p /\ Len(s) - w >= 2 * MaxBytes
              /\ \A i \in w + 1 .. p : s[i] = "c"

Keeps(tail, atLine, s) == \E p, w \in Nat : IsRest(tail, atLine, s, p, w)

LEMMA RestGrows ==
  ASSUME NEW s \in Seq(Bytes), NEW t \in Seq(Bytes), NEW tail, NEW atLine, Keeps(tail, atLine, s)
  PROVE  Keeps(tail \o t, atLine, s \o t)
<1> DEFINE u == s \o t  v == tail \o t
<1>1. PICK p \in Nat, w \in Nat : IsRest(tail, atLine, s, p, w)
  BY DEF Keeps
<1>2. /\ u \in Seq(Bytes) /\ Len(u) = Len(s) + Len(t) /\ Len(s) \in Nat /\ Len(t) \in Nat
      /\ \A i \in 1 .. Len(s) + Len(t) : u[i] = IF i <= Len(s) THEN s[i] ELSE t[i - Len(s)]
  BY ConcatProperties
<1>3. p \in 0 .. Len(s) /\ tail = SubSeq(s, p + 1, Len(s)) /\ MaxBytes \in Nat
  BY <1>1, RollingIs DEF IsRest
<1>4. /\ tail \in Seq(Bytes) /\ Len(tail) = Len(s) - p
      /\ \A k \in 1 .. Len(s) - p : tail[k] = s[p + k]
  <2>1. p + 1 \in 1 .. Len(s) + 1 /\ Len(s) \in (p + 1) - 1 .. Len(s)
    BY <1>2, <1>3
  <2>2. /\ SubSeq(s, p + 1, Len(s)) \in Seq(Bytes) /\ Len(SubSeq(s, p + 1, Len(s))) = Len(s) - (p + 1) + 1
        /\ \A k \in 1 .. Len(s) - (p + 1) + 1 : SubSeq(s, p + 1, Len(s))[k] = s[p + 1 + k - 1]
    BY <2>1, PartIs
  <2>3. Len(s) - (p + 1) + 1 = Len(s) - p
    BY <1>2, <1>3
  <2>4. \A k \in 1 .. Len(s) - p : p + 1 + k - 1 = p + k
    BY <1>2, <1>3
  <2> QED
    BY <1>3, <2>2, <2>3, <2>4
<1>5. /\ v \in Seq(Bytes) /\ Len(v) = Len(tail) + Len(t)
      /\ \A i \in 1 .. Len(tail) + Len(t) : v[i] = IF i <= Len(tail) THEN tail[i] ELSE t[i - Len(tail)]
  BY <1>4, ConcatProperties
<1> HIDE DEF u, v
<1>6. /\ SubSeq(u, p + 1, Len(u)) \in Seq(Bytes) /\ Len(SubSeq(u, p + 1, Len(u))) = Len(u) - (p + 1) + 1
      /\ \A k \in 1 .. Len(u) - (p + 1) + 1 : SubSeq(u, p + 1, Len(u))[k] = u[p + 1 + k - 1]
  <2>1. p + 1 \in 1 .. Len(u) + 1 /\ Len(u) \in (p + 1) - 1 .. Len(u)
    BY <1>2, <1>3
  <2> QED
    BY <1>2, <2>1, PartIs
<1>7. v = SubSeq(u, p + 1, Len(u))
  <2>1. Len(v) = Len(u) - (p + 1) + 1
    BY <1>2, <1>3, <1>4, <1>5
  <2>2. ASSUME NEW k \in 1 .. Len(v) PROVE v[k] = SubSeq(u, p + 1, Len(u))[k]
    <3>1. SubSeq(u, p + 1, Len(u))[k] = u[p + k]
      <4>1. k \in 1 .. Len(u) - (p + 1) + 1 /\ p + 1 + k - 1 = p + k
        BY <1>3, <2>1
      <4> QED
        BY <1>6, <4>1
    <3>2. k \in 1 .. Len(tail) + Len(t) /\ p + k \in 1 .. Len(s) + Len(t) /\ Len(tail) \in Nat
      BY <1>2, <1>3, <1>4, <1>5
    <3>3. CASE k <= Len(tail)
      <4>1. k \in 1 .. Len(s) - p /\ p + k <= Len(s)
        BY <1>2, <1>3, <1>4, <3>2, <3>3
      <4> QED
        BY <1>2, <1>4, <1>5, <3>1, <3>2, <3>3, <4>1
    <3>4. CASE ~(k <= Len(tail))
      <4> DEFINE n == Len(tail)  l == Len(s)
      <4>0. n = l - p /\ l \in Nat /\ p \in 0 .. l /\ k \in Int /\ ~(k <= n)
        BY <1>2, <1>3, <1>4, <3>2, <3>4
      <4> HIDE DEF n, l
      <4>1a. ~(p + k <= l) /\ p + k - l = k - n
        BY ONLY <4>0
      <4>1. ~(p + k <= Len(s)) /\ p + k - Len(s) = k - Len(tail)
        BY <4>1a DEF n, l
      <4>2. v[k] = t[k - Len(tail)]
        BY <1>5, <3>2, <3>4
      <4>3. u[p + k] = t[p + k - Len(s)]
        BY <1>2, <3>2, <4>1
      <4> QED
        BY <3>1, <4>1, <4>2, <4>3
    <3> QED
      BY <3>3, <3>4
  <2>3. \A k \in 1 .. Len(v) : v[k] = SubSeq(u, p + 1, Len(u))[k]
    BY <2>2
  <2> QED
    BY <1>5, <1>6, <2>1, <2>3, SeqEqual
<1>8. \A i \in 1 .. Len(s) : u[i] = s[i]
  <2>1. \A i \in 1 .. Len(s) : i \in 1 .. Len(s) + Len(t) /\ i <= Len(s)
    BY <1>2
  <2> QED
    BY <1>2, <2>1
<1>9. p \in 0 .. Len(u) /\ atLine = (p = 0 \/ u[p] = "nl")
  <2>1. p \in 0 .. Len(u)
    BY <1>2, <1>3
  <2>2. atLine = (p = 0 \/ s[p] = "nl")
    BY <1>1 DEF IsRest
  <2>3. CASE p = 0
    BY <2>1, <2>2, <2>3
  <2>4. CASE p # 0
    <3>1. p \in 1 .. Len(s)
      BY <1>2, <1>3, <2>4
    <3>2. u[p] = s[p]
      BY <1>8, <3>1
    <3> QED
      BY <2>1, <2>2, <3>2
  <2> QED
    BY <2>3, <2>4
<1>10. ASSUME p > 0 PROVE w \in 1 .. p /\ Len(u) - w >= 2 * MaxBytes /\ \A i \in w + 1 .. p : u[i] = "c"
  <2>1. w \in 1 .. p /\ Len(s) - w >= 2 * MaxBytes /\ \A i \in w + 1 .. p : s[i] = "c"
    BY <1>1, <1>10 DEF IsRest
  <2>2. Len(u) - w >= 2 * MaxBytes
    BY <1>2, <1>3, <2>1
  <2>3. \A i \in w + 1 .. p : i \in 1 .. Len(s)
    BY <1>2, <1>3, <2>1
  <2> QED
    BY <1>8, <2>1, <2>2, <2>3
<1>11. IsRest(v, atLine, u, p, w)
  BY <1>7, <1>9, <1>10 DEF IsRest
<1> QED
  BY <1>11 DEF Keeps, u, v

\* The tail after the cut.
TrimmedAt(a, start) ==
  [a EXCEPT !.tail = SubSeq(a.tail, start, Len(a.tail)),
            !.atLine = IF start = 1 THEN @ ELSE a.tail[start - 1] = "nl"]

\* Where it is cut.
IsStart(tail, start) ==
  /\ start \in Len(tail) - 2 * MaxBytes + 1 .. Len(tail) + 1
  /\ \A i \in Len(tail) - 2 * MaxBytes + 1 .. start - 1 : tail[i] = "c"

LEMMA TrimIs ==
  ASSUME NEW a, a.tail \in Seq(Bytes)
  PROVE  \/ trimTail(a) = a
         \/ /\ Len(a.tail) > 2 * MaxBytes
            /\ \E start \in Nat : IsStart(a.tail, start) /\ trimTail(a) = TrimmedAt(a, start)
<1> DEFINE n == Len(a.tail)
           starts == {i \in n - maxRollingBytes + 1 .. n : a.tail[i] # "c"}
           start == IF starts = {} THEN n + 1 ELSE Min(starts)
           cut == [a EXCEPT !.tail = SubSeq(a.tail, start, n),
                            !.atLine = IF start = 1 THEN @ ELSE a.tail[start - 1] = "nl"]
<1>1. n \in Nat /\ maxRollingBytes = 2 * MaxBytes /\ MaxBytes \in Nat \ {0}
  BY RollingIs
<1>2. CASE n <= maxRollingBytes
  BY <1>2 DEF trimTail
<1>3. CASE ~(n <= maxRollingBytes)
  <2>1. trimTail(a) = cut
    BY <1>3 DEF trimTail
  <2>2. cut = TrimmedAt(a, start)
    <3> HIDE DEF start
    <3> QED
      BY DEF TrimmedAt
  <2>3. starts \in SUBSET Nat /\ \A i : i \in starts <=> i \in n - 2 * MaxBytes + 1 .. n /\ a.tail[i] # "c"
    <3> HIDE DEF n
    <3>1. \A i \in n - 2 * MaxBytes + 1 .. n : i \in Nat
      BY <1>1, <1>3
    <3>2. starts = {i \in n - 2 * MaxBytes + 1 .. n : a.tail[i] # "c"}
      BY <1>1
    <3> HIDE DEF starts
    <3> QED
      BY <3>1, <3>2
  <2> HIDE DEF cut, starts, n
  <2>4. start \in n - 2 * MaxBytes + 1 .. n + 1 /\ \A i \in n - 2 * MaxBytes + 1 .. start - 1 : a.tail[i] = "c"
    <3>1. CASE starts = {}
      <4>1. start = n + 1
        BY <3>1
      <4> HIDE DEF start
      <4>2. \A i \in n - 2 * MaxBytes + 1 .. start - 1 : i \in n - 2 * MaxBytes + 1 .. n
        BY <1>1, <4>1
      <4>3. start \in n - 2 * MaxBytes + 1 .. n + 1
        BY <1>1, <4>1
      <4> QED
        BY <2>3, <3>1, <4>2, <4>3
    <3>2. CASE starts # {}
      <4>1. start = Min(starts)
        BY <3>2
      <4>2. Min(starts) \in starts /\ \A x \in starts : Min(starts) <= x
        BY <2>3, <3>2, SmallestIs
      <4> HIDE DEF start
      <4>3. start \in n - 2 * MaxBytes + 1 .. n
        BY <2>3, <4>1, <4>2
      <4>4. ASSUME NEW i \in n - 2 * MaxBytes + 1 .. start - 1 PROVE a.tail[i] = "c"
        <5>1. i \in n - 2 * MaxBytes + 1 .. n /\ i < start /\ ~(start <= i)
          BY <1>1, <4>3
        <5>2. i \notin starts
          BY <4>1, <4>2, <5>1
        <5> QED
          BY <2>3, <5>1, <5>2
      <4>5. start \in n - 2 * MaxBytes + 1 .. n + 1
        BY <1>1, <4>3
      <4> QED
        BY <4>4, <4>5
    <3> QED
      BY <3>1, <3>2
  <2> HIDE DEF start
  <2>5. start \in Nat
    BY <1>1, <1>3, <2>4
  <2>6. IsStart(a.tail, start) /\ n > 2 * MaxBytes
    BY <1>1, <1>3, <2>4 DEF IsStart, n
  <2> QED
    BY <2>1, <2>2, <2>5, <2>6 DEF n
<1> QED
  BY <1>2, <1>3

LEMMA RestIsPart ==
  ASSUME NEW s \in Seq(Bytes), NEW p \in 0 .. Len(s)
  PROVE  /\ SubSeq(s, p + 1, Len(s)) \in Seq(Bytes) /\ Len(SubSeq(s, p + 1, Len(s))) = Len(s) - p
         /\ \A k \in 1 .. Len(s) - p : SubSeq(s, p + 1, Len(s))[k] = s[p + k]
<1>1. p + 1 \in 1 .. Len(s) + 1 /\ Len(s) \in (p + 1) - 1 .. Len(s) /\ Len(s) \in Nat
  OBVIOUS
<1>2. /\ SubSeq(s, p + 1, Len(s)) \in Seq(Bytes) /\ Len(SubSeq(s, p + 1, Len(s))) = Len(s) - (p + 1) + 1
      /\ \A k \in 1 .. Len(s) - (p + 1) + 1 : SubSeq(s, p + 1, Len(s))[k] = s[p + 1 + k - 1]
  BY <1>1, PartIs
<1>3. Len(s) - (p + 1) + 1 = Len(s) - p
  BY <1>1
<1>4. \A k \in 1 .. Len(s) - p : p + 1 + k - 1 = p + k
  BY <1>1
<1> QED
  BY <1>2, <1>3, <1>4

LEMMA RestTrimmed ==
  ASSUME NEW s \in Seq(Bytes), NEW tail, NEW atLine, Keeps(tail, atLine, s),
         NEW start \in Nat, IsStart(tail, start), Len(tail) > 2 * MaxBytes
  PROVE  Keeps(SubSeq(tail, start, Len(tail)), tail[start - 1] = "nl", s)
<1>1. PICK p \in Nat, w \in Nat : IsRest(tail, atLine, s, p, w)
  BY DEF Keeps
<1> DEFINE n == Len(tail)  q == p + start - 1  v == p + n - 2 * MaxBytes
<1>2. p \in 0 .. Len(s) /\ tail = SubSeq(s, p + 1, Len(s)) /\ MaxBytes \in Nat \ {0} /\ Len(s) \in Nat
  BY <1>1, RollingIs DEF IsRest
<1>3. n = Len(s) - p /\ \A k \in 1 .. n : tail[k] = s[p + k]
  BY <1>2, RestIsPart
<1>4. /\ n \in Nat /\ start \in n - 2 * MaxBytes + 1 .. n + 1 /\ n > 2 * MaxBytes
      /\ \A i \in n - 2 * MaxBytes + 1 .. start - 1 : tail[i] = "c"
  <2>1. n \in Nat
    BY <1>2, <1>3
  <2> QED
    BY <2>1 DEF IsStart
<1> HIDE DEF n
<1>5. /\ start >= 2 /\ q \in 1 .. Len(s) /\ q + 1 = p + start /\ start - 1 \in 1 .. n /\ p + (start - 1) = q
      /\ v \in 1 .. q /\ Len(s) - v >= 2 * MaxBytes
  BY <1>2, <1>3, <1>4
<1>6. SubSeq(tail, start, n) = SubSeq(s, q + 1, Len(s))
  <2>1. /\ p + 1 \in 1 .. Len(s) + 1 /\ Len(s) \in (p + 1) - 1 .. Len(s)
        /\ start \in 1 .. Len(s) - (p + 1) + 2 /\ n \in start - 1 .. Len(s) - (p + 1) + 1
        /\ (p + 1) + start - 1 = q + 1 /\ (p + 1) + n - 1 = Len(s)
    BY <1>2, <1>3, <1>4, <1>5
  <2>2. SubSeq(SubSeq(s, p + 1, Len(s)), start, n) = SubSeq(s, (p + 1) + start - 1, (p + 1) + n - 1)
    BY <2>1, PartOfPart
  <2> QED
    BY <1>2, <2>1, <2>2
<1>7. tail[start - 1] = s[q]
  BY <1>3, <1>5
<1>8. ASSUME NEW i \in v + 1 .. q PROVE s[i] = "c"
  <2>1. i - p \in n - 2 * MaxBytes + 1 .. start - 1 /\ i - p \in 1 .. n /\ p + (i - p) = i
    BY <1>2, <1>3, <1>4, <1>5
  <2>2. tail[i - p] = "c" /\ tail[i - p] = s[p + (i - p)]
    BY <1>3, <1>4, <2>1
  <2> QED
    BY <2>1, <2>2
<1>9. (tail[start - 1] = "nl") = (q = 0 \/ s[q] = "nl")
  <2>1. q # 0
    BY <1>5
  <2> QED
    BY <1>7, <2>1
<1>10. q \in Nat /\ v \in Nat /\ q \in 0 .. Len(s)
  BY <1>5
<1> HIDE DEF q, v
<1>11. IsRest(SubSeq(tail, start, n), tail[start - 1] = "nl", s, q, v)
  BY <1>5, <1>6, <1>8, <1>9, <1>10 DEF IsRest
<1>12. Keeps(SubSeq(tail, start, n), tail[start - 1] = "nl", s)
  BY <1>10, <1>11 DEF Keeps
<1> QED
  BY <1>12 DEF n

\* trimTail leaves the counters alone and keeps an end of the text.
SameCounts(a, b) ==
  b.decoded = a.decoded /\ b.completed = a.completed /\ b.open = a.open /\ b.finished = a.finished

LEMMA TrimmingKeeps ==
  ASSUME NEW s \in Seq(Bytes), NEW a, IsAcc(a), Keeps(a.tail, a.atLine, s)
  PROVE  /\ IsAcc(trimTail(a)) /\ SameCounts(a, trimTail(a))
         /\ Keeps(trimTail(a).tail, trimTail(a).atLine, s)
<1>1. a.tail \in Seq(Bytes)
  <2>1. PICK p \in Nat, w \in Nat : IsRest(a.tail, a.atLine, s, p, w)
    BY DEF Keeps
  <2> QED
    BY <2>1, RestIsPart DEF IsRest
<1>2. CASE trimTail(a) = a
  BY <1>2 DEF SameCounts
<1>3. ASSUME Len(a.tail) > 2 * MaxBytes, NEW start \in Nat, IsStart(a.tail, start), trimTail(a) = TrimmedAt(a, start)
      PROVE  /\ IsAcc(trimTail(a)) /\ SameCounts(a, trimTail(a))
             /\ Keeps(trimTail(a).tail, trimTail(a).atLine, s)
  <2> DEFINE b == TrimmedAt(a, start)
  <2>1. start # 1
    BY <1>1, <1>3, RollingIs DEF IsStart
  <2>2. b.tail = SubSeq(a.tail, start, Len(a.tail))
    BY DEF TrimmedAt, IsAcc, AccFields
  <2>3. b.atLine = (a.tail[start - 1] = "nl")
    BY <2>1 DEF TrimmedAt, IsAcc, AccFields
  <2>4. IsAcc(b) /\ SameCounts(a, b)
    BY DEF TrimmedAt, IsAcc, AccFields, SameCounts
  <2> HIDE DEF b
  <2>5. Keeps(SubSeq(a.tail, start, Len(a.tail)), a.tail[start - 1] = "nl", s)
    BY <1>3, RestTrimmed
  <2>6. Keeps(b.tail, b.atLine, s)
    BY ONLY <2>2, <2>3, <2>5
  <2> QED
    BY <1>3, <2>4, <2>6 DEF b
<1> QED
  BY <1>1, <1>2, <1>3, TrimIs

\* The accumulator has taken the text s.
Follows(a, s) ==
  /\ s \in Seq(Bytes) /\ Wellmade(s)
  /\ Keeps(a.tail, a.atLine, s) /\ Counts(a.decoded, a.completed, a.open, s)

LEMMA CountsAdd ==
  ASSUME NEW s \in Seq(Bytes), NEW t \in Seq(Bytes), t # <<>>,
         NEW decoded, NEW completed, NEW open, Counts(decoded, completed, open, s)
  PROVE  /\ Newlines(t) = {} => Counts(decoded + Len(t), completed, TRUE, s \o t)
         /\ Newlines(t) # {} =>
              Counts(decoded + Len(t), completed + Cardinality(Newlines(t)), Max(Newlines(t)) < Len(t), s \o t)
<1> DEFINE u == s \o t  c == Cardinality(Newlines(t))
<1>1. /\ u \in Seq(Bytes) /\ Len(u) = Len(s) + Len(t) /\ Len(s) \in Nat /\ Len(t) \in Nat
      /\ \A i \in 1 .. Len(s) + Len(t) : u[i] = IF i <= Len(s) THEN s[i] ELSE t[i - Len(s)]
  BY ConcatProperties
<1>2. Len(t) # 0
  <2>1. Len(t) \in Nat \ {0}
    BY EmptySeq
  <2> QED
    BY <2>1
<1>3. LineCount(u) = LineCount(s) + c /\ c \in Nat /\ Newlines(t) \in SUBSET (1 .. Len(t))
  BY LinesAdd, NewlinesAre
<1> HIDE DEF u, c
<1>4. u # <<>> /\ u[Len(u)] = t[Len(t)]
  <2>1. Len(u) # 0
    BY <1>1, <1>2
  <2>2. u # <<>>
    <3> SUFFICES ASSUME u = <<>> PROVE FALSE
      OBVIOUS
    <3>1. Len(u) = 0
      BY EmptySeq
    <3> QED
      BY <2>1, <3>1
  <2>3. Len(u) \in 1 .. Len(s) + Len(t) /\ ~(Len(u) <= Len(s)) /\ Len(u) - Len(s) = Len(t)
    BY <1>1, <1>2
  <2> QED
    BY <1>1, <2>2, <2>3
<1>5. decoded = Len(s) /\ completed \in Nat /\ completed + 1 = LineCount(s)
  BY DEF Counts
<1>6. ASSUME Newlines(t) = {} PROVE Counts(decoded + Len(t), completed, TRUE, u)
  <2>1. c = 0
    BY <1>6, FS_EmptySet DEF c
  <2>2. t[Len(t)] # "nl"
    <3>1. Len(t) \in DOMAIN t
      BY <1>1, <1>2
    <3> QED
      BY <1>6, <3>1 DEF Newlines
  <2>3. completed + 1 = LineCount(u) /\ decoded + Len(t) = Len(u)
    BY <1>1, <1>3, <1>5, <2>1
  <2> QED
    BY <1>4, <1>5, <2>2, <2>3 DEF Counts
<1>7. ASSUME Newlines(t) # {} PROVE Counts(decoded + Len(t), completed + c, Max(Newlines(t)) < Len(t), u)
  <2> DEFINE N == Newlines(t)  m == Max(N)
  <2>1. N \in SUBSET (0 .. Len(t)) /\ N # {}
    BY <1>3, <1>7
  <2>2. N \in SUBSET (1 .. Len(t)) /\ \A i : i \in N <=> i \in 1 .. Len(t) /\ t[i] = "nl"
    <3>1. DOMAIN t = 1 .. Len(t)
      OBVIOUS
    <3> QED
      BY <1>3, <3>1 DEF Newlines
  <2> HIDE DEF N
  <2>3. m \in N /\ \A x \in N : x <= m
    BY <1>1, <2>1, LargestIs
  <2> HIDE DEF m
  <2>4. (m < Len(t)) = (t[Len(t)] # "nl")
    <3>1. m \in 1 .. Len(t) /\ Len(t) \in 1 .. Len(t)
      BY <1>1, <1>2, <2>2, <2>3
    <3>2. ASSUME t[Len(t)] = "nl" PROVE ~(m < Len(t))
      <4>1. Len(t) \in N
        BY <2>2, <3>1, <3>2
      <4>2. Len(t) <= m
        BY <2>3, <4>1
      <4> QED
        BY <1>1, <3>1, <4>2
    <3>3. ASSUME t[Len(t)] # "nl" PROVE m < Len(t)
      <4>1. m # Len(t)
        BY <2>2, <2>3, <3>3
      <4> QED
        BY <1>1, <3>1, <4>1
    <3> QED
      BY <3>2, <3>3
  <2>5. completed + c + 1 = LineCount(u) /\ decoded + Len(t) = Len(u) /\ completed + c \in Nat
    <3>1. LineCount(s) \in Nat
      BY EndsAre
    <3> QED
      BY <1>1, <1>3, <1>5, <3>1
  <2>6. (m < Len(t)) = (u # <<>> /\ u[Len(u)] # "nl")
    BY <1>4, <2>4
  <2> QED
    BY <2>5, <2>6 DEF Counts, m, N
<1> QED
  BY <1>6, <1>7 DEF u, c

LEMMA TextFollows ==
  ASSUME NEW a, IsAcc(a), NEW s, Follows(a, s), NEW text \in Seq(Bytes), Wellmade(text)
  PROVE  /\ Follows(appendDecodedText(a, text), s \o text)
         /\ IsAcc(appendDecodedText(a, text))
<1> DEFINE grown == [a EXCEPT !.decoded = @ + Len(text), !.tail = @ \o text]
           kept == IF Len(grown.tail) > maxRollingBytes * 2 THEN trimTail(grown) ELSE grown
           N == Newlines(text)  u == s \o text  b == appendDecodedText(a, text)
<1>1. s \in Seq(Bytes) /\ Wellmade(s) /\ Keeps(a.tail, a.atLine, s) /\ Counts(a.decoded, a.completed, a.open, s)
  BY DEF Follows
<1>2. IsAcc(b)
  BY DecodingKeepsBytes DEF SameBytes
<1>3. CASE text = <<>>
  <2>1. b = a
    BY <1>3 DEF appendDecodedText
  <2>2. u = s
    BY <1>1, <1>3, ConcatEmptySeq
  <2> QED
    BY <1>2, <2>1, <2>2
<1>4. CASE text # <<>>
  <2>1. /\ IsAcc(grown) /\ grown.tail = a.tail \o text /\ grown.atLine = a.atLine
        /\ grown.decoded = a.decoded + Len(text) /\ grown.completed = a.completed
    BY DEF IsAcc, AccFields
  <2>2. u \in Seq(Bytes) /\ Wellmade(u)
    BY <1>1, ConcatProperties, WellmadeTogether
  <2>3. Keeps(grown.tail, grown.atLine, u)
    <3>1. Keeps(a.tail \o text, a.atLine, u)
      BY <1>1, RestGrows
    <3> HIDE DEF grown, u
    <3> QED
      BY <2>1, <3>1
  <2> HIDE DEF grown, u
  <2>4. IsAcc(kept) /\ SameCounts(grown, kept) /\ Keeps(kept.tail, kept.atLine, u)
    <3>1. /\ IsAcc(trimTail(grown)) /\ SameCounts(grown, trimTail(grown))
          /\ Keeps(trimTail(grown).tail, trimTail(grown).atLine, u)
      BY <2>1, <2>2, <2>3, TrimmingKeeps
    <3>2. SameCounts(grown, grown)
      BY DEF SameCounts
    <3>3. kept = trimTail(grown) \/ kept = grown
      OBVIOUS
    <3> HIDE DEF kept
    <3> QED
      BY <2>1, <2>3, <3>1, <3>2, <3>3
  <2>5. b = IF N = {} THEN [kept EXCEPT !.lineBytes = @ + Len(text), !.open = TRUE]
            ELSE [kept EXCEPT !.completed = @ + Cardinality(N),
                              !.lineBytes = Len(text) - Max(N),
                              !.open = Max(N) < Len(text)]
    BY <1>4 DEF appendDecodedText, Newlines, grown
  <2> HIDE DEF kept, N, b
  <2>6. kept.decoded = a.decoded + Len(text) /\ kept.completed = a.completed
    BY <2>1, <2>4 DEF SameCounts
  <2>7. /\ N = {} => Counts(a.decoded + Len(text), a.completed, TRUE, u)
        /\ N # {} => Counts(a.decoded + Len(text), a.completed + Cardinality(N), Max(N) < Len(text), u)
    BY <1>1, <1>4, CountsAdd DEF N, u
  <2>8. CASE N = {}
    <3>1. b.tail = kept.tail /\ b.atLine = kept.atLine
      BY <2>4, <2>5, <2>8 DEF IsAcc, AccFields
    <3>2. b.decoded = kept.decoded /\ b.completed = kept.completed /\ b.open = TRUE
      BY <2>4, <2>5, <2>8 DEF IsAcc, AccFields
    <3>3. Counts(b.decoded, b.completed, b.open, u)
      BY <2>6, <2>7, <2>8, <3>2
    <3>4. Follows(b, u)
      BY <2>2, <2>4, <3>1, <3>3 DEF Follows
    <3> QED
      BY <1>2, <3>4 DEF b, u
  <2>9. CASE N # {}
    <3>1. b.tail = kept.tail /\ b.atLine = kept.atLine
      BY <2>4, <2>5, <2>9 DEF IsAcc, AccFields
    <3>2. b.decoded = kept.decoded /\ b.completed = kept.completed + Cardinality(N)
      BY <2>4, <2>5, <2>9 DEF IsAcc, AccFields
    <3>3. b.open = (Max(N) < Len(text))
      BY <2>4, <2>5, <2>9 DEF IsAcc, AccFields
    <3>4. Counts(b.decoded, b.completed, b.open, u)
      BY <2>6, <2>7, <2>9, <3>2, <3>3
    <3>5. Follows(b, u)
      BY <2>2, <2>4, <3>1, <3>4 DEF Follows
    <3> QED
      BY <1>2, <3>5 DEF b, u
  <2> QED
    BY <2>8, <2>9
<1> QED
  BY <1>3, <1>4

-----------------------------------------------------------------------------
(* The decoder.                                                            *)

\* The bytes r end inside a character; and their text without it.
Incomplete(r) == r # <<>> /\ r[Len(r)] = "l"
Decoded(r) == IF Incomplete(r) THEN Front(r) ELSE r

LEMMA FrontIs ==
  ASSUME NEW s \in Seq(Bytes), s # <<>>
  PROVE  /\ Front(s) \in Seq(Bytes) /\ Len(Front(s)) = Len(s) - 1 /\ Len(s) \in Nat \ {0}
         /\ \A i \in 1 .. Len(s) - 1 : Front(s)[i] = s[i]
<1>1. Len(s) \in Nat \ {0}
  BY EmptySeq
<1>2. 1 \in 1 .. Len(s) + 1 /\ Len(s) - 1 \in 1 - 1 .. Len(s) /\ Len(s) - 1 - 1 + 1 = Len(s) - 1
  BY <1>1
<1>3. /\ SubSeq(s, 1, Len(s) - 1) \in Seq(Bytes) /\ Len(SubSeq(s, 1, Len(s) - 1)) = Len(s) - 1 - 1 + 1
      /\ \A k \in 1 .. Len(s) - 1 - 1 + 1 : SubSeq(s, 1, Len(s) - 1)[k] = s[1 + k - 1]
  BY <1>2, PartIs
<1>4. \A k \in 1 .. Len(s) - 1 : 1 + k - 1 = k
  BY <1>1
<1>5. Front(s) = SubSeq(s, 1, Len(s) - 1)
  BY DEF Front
<1> QED
  BY <1>1, <1>2, <1>3, <1>4, <1>5

LEMMA FrontOfBoth ==
  ASSUME NEW s \in Seq(Bytes), NEW t \in Seq(Bytes), t # <<>>
  PROVE  /\ Front(s \o t) = s \o Front(t)
         /\ s \o t # <<>> /\ (s \o t)[Len(s \o t)] = t[Len(t)]
<1> DEFINE u == s \o t  f == Front(t)  v == s \o f
<1>1. /\ u \in Seq(Bytes) /\ Len(u) = Len(s) + Len(t) /\ Len(s) \in Nat
      /\ \A i \in 1 .. Len(s) + Len(t) : u[i] = IF i <= Len(s) THEN s[i] ELSE t[i - Len(s)]
  BY ConcatProperties
<1>2. f \in Seq(Bytes) /\ Len(f) = Len(t) - 1 /\ Len(t) \in Nat \ {0} /\ \A i \in 1 .. Len(t) - 1 : f[i] = t[i]
  BY FrontIs
<1>3. u # <<>>
  <2> SUFFICES ASSUME u = <<>> PROVE FALSE
    OBVIOUS
  <2>1. Len(u) = 0
    BY EmptySeq
  <2> HIDE DEF u
  <2> QED
    BY <1>1, <1>2, <2>1
<1> HIDE DEF f
<1>4. /\ v \in Seq(Bytes) /\ Len(v) = Len(s) + Len(f)
      /\ \A i \in 1 .. Len(s) + Len(f) : v[i] = IF i <= Len(s) THEN s[i] ELSE f[i - Len(s)]
  BY <1>2, ConcatProperties
<1> HIDE DEF u, v
<1>5. Front(u) \in Seq(Bytes) /\ Len(Front(u)) = Len(u) - 1 /\ \A i \in 1 .. Len(u) - 1 : Front(u)[i] = u[i]
  BY <1>1, <1>3, FrontIs
<1>6. Len(Front(u)) = Len(v)
  BY <1>1, <1>2, <1>4, <1>5
<1>7. ASSUME NEW i \in 1 .. Len(v) PROVE v[i] = Front(u)[i]
  <2>1. i \in 1 .. Len(s) + Len(f) /\ i \in 1 .. Len(u) - 1 /\ i \in 1 .. Len(s) + Len(t)
    BY <1>1, <1>2, <1>4
  <2>2. CASE i <= Len(s)
    BY <1>1, <1>4, <1>5, <2>1, <2>2
  <2>3. CASE ~(i <= Len(s))
    <3>1. i - Len(s) \in 1 .. Len(t) - 1
      BY <1>1, <1>2, <2>1, <2>3
    <3>2. v[i] = f[i - Len(s)] /\ u[i] = t[i - Len(s)]
      BY <1>1, <1>4, <2>1, <2>3
    <3> QED
      BY <1>2, <1>5, <2>1, <3>1, <3>2
  <2> QED
    BY <2>2, <2>3
<1>8. Front(u) = v
  <2>1. \A i \in 1 .. Len(v) : v[i] = Front(u)[i]
    BY <1>7
  <2> QED
    BY <1>4, <1>5, <1>6, <2>1, SeqEqual
<1>9. u[Len(u)] = t[Len(t)]
  <2>1. Len(u) \in 1 .. Len(s) + Len(t) /\ ~(Len(u) <= Len(s)) /\ Len(u) - Len(s) = Len(t)
    BY <1>1, <1>2
  <2> QED
    BY <1>1, <2>1
<1> QED
  BY <1>3, <1>8, <1>9 DEF u, v, f

LEMMA WellmadeFront ==
  ASSUME NEW s \in Seq(Bytes), s # <<>>, Wellmade(s)
  PROVE  Wellmade(Front(s))
<1> DEFINE f == Front(s)
<1>1. Len(f) = Len(s) - 1 /\ Len(s) \in Nat \ {0} /\ \A i \in 1 .. Len(s) - 1 : f[i] = s[i]
  BY FrontIs
<1> HIDE DEF f
<1>2. ASSUME NEW i \in 1 .. Len(f), f[i] = "c" PROVE i > 1 /\ f[i - 1] # "nl"
  <2>1. i \in 1 .. Len(s) /\ i \in 1 .. Len(s) - 1 /\ s[i] = "c"
    BY <1>1, <1>2
  <2>2. i > 1 /\ s[i - 1] # "nl"
    BY <2>1 DEF Wellmade
  <2>3. i - 1 \in 1 .. Len(s) - 1
    BY <1>1, <2>1, <2>2
  <2> QED
    BY <1>1, <2>2, <2>3
<1> QED
  BY <1>2 DEF Wellmade, f

DecodesTo(d, r, data) ==
  /\ d.pending = Incomplete(r \o data)
  /\ d.text \in Seq(Bytes) /\ Wellmade(d.text)
  /\ Decoded(r) \o d.text = Decoded(r \o data)

LEMMA DecodeIs ==
  ASSUME NEW r \in Seq(Bytes), NEW data \in Seq(Bytes), data # <<>>,
         NEW a, a.pending = Incomplete(r), Wellformed(a, data)
  PROVE  DecodesTo(Decode(a, data), r, data)
<1> DEFINE lead == IF a.pending THEN <<"l">> ELSE <<>>
           bytes == lead \o data  x == Decoded(r)  u == r \o data  d == Decode(a, data)
<1>1. lead \in Seq(Bytes) /\ x \in Seq(Bytes) /\ x \o lead = r
  <2>1. CASE Incomplete(r)
    <3>1. r # <<>> /\ r[Len(r)] = "l" /\ lead = <<"l">> /\ x = Front(r)
      BY <2>1 DEF Incomplete, Decoded
    <3>2. x \in Seq(Bytes) /\ Len(x) = Len(r) - 1 /\ Len(r) \in Nat \ {0} /\ \A i \in 1 .. Len(r) - 1 : x[i] = r[i]
      BY <3>1, FrontIs
    <3>3. lead \in Seq(Bytes) /\ Len(lead) = 1 /\ lead[1] = "l"
      <4>1. <<"l">> \in Seq(Bytes)
        BY DEF Bytes
      <4> QED
        BY <3>1, <4>1
    <3> HIDE DEF x, lead
    <3>4. /\ x \o lead \in Seq(Bytes) /\ Len(x \o lead) = Len(x) + Len(lead)
          /\ \A i \in 1 .. Len(x) + Len(lead) : (x \o lead)[i] = IF i <= Len(x) THEN x[i] ELSE lead[i - Len(x)]
      BY <3>2, <3>3, ConcatProperties
    <3>5. Len(x) + Len(lead) = Len(r)
      BY <3>2, <3>3
    <3>6. ASSUME NEW i \in 1 .. Len(r) PROVE (x \o lead)[i] = r[i]
      <4>1. CASE i <= Len(x)
        BY <3>2, <3>4, <3>5, <4>1
      <4>2. CASE ~(i <= Len(x))
        <5>1. i - Len(x) = 1 /\ i = Len(r)
          BY <3>2, <4>2
        <5> QED
          BY <3>1, <3>3, <3>4, <3>5, <4>2, <5>1
      <4> QED
        BY <4>1, <4>2
    <3>7. \A i \in 1 .. Len(x \o lead) : (x \o lead)[i] = r[i]
      BY <3>4, <3>5, <3>6
    <3>8. x \o lead = r
      BY <3>4, <3>5, <3>7, SeqEqual
    <3> QED
      BY <3>2, <3>3, <3>8
  <2>2. CASE ~Incomplete(r)
    <3>1. lead = <<>> /\ x = r
      BY <2>2 DEF Decoded
    <3> QED
      BY <3>1, EmptySeq, ConcatEmptySeq
  <2> QED
    BY <2>1, <2>2
<1>2. a.pending \in BOOLEAN
  BY DEF Incomplete
<1>3. \/ lead = <<"l">> /\ a.pending = TRUE
      \/ lead = <<>> /\ a.pending = FALSE
  BY <1>2
<1>4. d = IF Last(bytes) = "l" THEN [text |-> Front(bytes), pending |-> TRUE]
          ELSE [text |-> bytes, pending |-> FALSE]
  BY DEF Decode
<1> HIDE DEF lead, x, d
<1>5. /\ bytes \in Seq(Bytes) /\ Len(bytes) = Len(lead) + Len(data) /\ Len(data) \in Nat
      /\ \A i \in 1 .. Len(lead) + Len(data) : bytes[i] = IF i <= Len(lead) THEN lead[i] ELSE data[i - Len(lead)]
  BY <1>1, ConcatProperties
<1>6. u = x \o bytes
  <2>1. (x \o lead) \o data = x \o (lead \o data)
    <3>1. x \in Seq(Bytes) /\ lead \in Seq(Bytes) /\ data \in Seq(Bytes)
      BY <1>1
    <3> HIDE DEF bytes, u
    <3>2. Regroups(x, lead, data)
      BY ONLY <3>1, Regroup
    <3> QED
      BY ONLY <3>2 DEF Regroups
  <2> QED
    BY <1>1, <2>1
<1>7. bytes # <<>> /\ bytes[Len(bytes)] = data[Len(data)]
  BY <1>1, FrontOfBoth
<1> HIDE DEF bytes
<1>8. u \in Seq(Bytes) /\ u # <<>> /\ u[Len(u)] = bytes[Len(bytes)] /\ Front(u) = x \o Front(bytes)
  <2>1. /\ Front(x \o bytes) = x \o Front(bytes)
        /\ x \o bytes # <<>> /\ (x \o bytes)[Len(x \o bytes)] = bytes[Len(bytes)]
    BY <1>1, <1>5, <1>7, FrontOfBoth
  <2>2. x \o bytes \in Seq(Bytes)
    BY <1>1, <1>5, ConcatProperties
  <2> HIDE DEF u
  <2> QED
    BY <1>6, <2>1, <2>2
<1> HIDE DEF u
<1>9. Wellmade(bytes)
  <2> SUFFICES ASSUME NEW i \in 1 .. Len(bytes), bytes[i] = "c" PROVE i > 1 /\ bytes[i - 1] # "nl"
    BY DEF Wellmade
  <2>0. \A j \in 1 .. Len(data) : data[j] = "c" => IF j = 1 THEN a.pending ELSE data[j - 1] = "l"
    <3>1. DOMAIN data = 1 .. Len(data)
      OBVIOUS
    <3> QED
      BY <3>1 DEF Wellformed
  <2>1. CASE lead = <<"l">> /\ a.pending = TRUE
    <3>1. Len(lead) = 1 /\ lead[1] = "l"
      BY <2>1
    <3>2. i # 1
      <4>1. bytes[1] = lead[1]
        BY <1>5, <3>1
      <4> QED
        BY <3>1, <4>1
    <3>3. i - 1 \in 1 .. Len(data) /\ bytes[i] = data[i - 1]
      BY <1>5, <3>1, <3>2
    <3>4. CASE i = 2
      <4>1. bytes[1] = lead[1]
        BY <1>5, <3>1
      <4> QED
        BY <3>1, <3>4, <4>1
    <3>5. CASE i # 2
      <4>1. data[i - 1 - 1] = "l"
        BY <2>0, <3>3, <3>5
      <4>2. i - 1 \in 1 .. Len(lead) + Len(data) /\ ~(i - 1 <= Len(lead)) /\ i - 1 - Len(lead) = i - 1 - 1
        BY <1>5, <3>1, <3>2, <3>3, <3>5
      <4>3. bytes[i - 1] = data[i - 1 - 1]
        BY <1>5, <4>2
      <4> QED
        BY <3>2, <3>3, <4>1, <4>3
    <3> QED
      BY <3>4, <3>5
  <2>2. CASE lead = <<>> /\ a.pending = FALSE
    <3>1. Len(lead) = 0
      BY <2>2
    <3>2. i \in 1 .. Len(data) /\ \A j \in 1 .. Len(data) : bytes[j] = data[j]
      <4>1. \A j \in 1 .. Len(data) : j \in 1 .. Len(lead) + Len(data) /\ ~(j <= Len(lead)) /\ j - Len(lead) = j
        BY <1>5, <3>1
      <4> QED
        BY <1>5, <3>1, <4>1
    <3>3. i # 1 /\ data[i - 1] = "l"
      BY <2>0, <2>2, <3>2
    <3>4. i - 1 \in 1 .. Len(data)
      BY <3>2, <3>3
    <3> QED
      BY <3>2, <3>3, <3>4
  <2> QED
    BY <1>3, <2>1, <2>2
<1>10. CASE Last(bytes) = "l"
  <2>1. bytes[Len(bytes)] = "l"
    BY <1>10 DEF Last
  <2>2. Incomplete(u) = TRUE /\ Decoded(u) = Front(u)
    BY <1>8, <2>1 DEF Incomplete, Decoded
  <2>3. d.text = Front(bytes) /\ d.pending = TRUE
    BY <1>4, <1>10
  <2>4. Front(bytes) \in Seq(Bytes) /\ Wellmade(Front(bytes))
    BY <1>5, <1>7, <1>9, FrontIs, WellmadeFront
  <2> QED
    BY <1>8, <2>2, <2>3, <2>4 DEF DecodesTo, u, x, d
<1>11. CASE Last(bytes) # "l"
  <2>1. bytes[Len(bytes)] # "l"
    BY <1>11 DEF Last
  <2>2. Incomplete(u) = FALSE /\ Decoded(u) = u
    BY <1>8, <2>1 DEF Incomplete, Decoded
  <2>3. d.text = bytes /\ d.pending = FALSE
    BY <1>4, <1>11
  <2> QED
    BY <1>5, <1>6, <1>9, <2>2, <2>3 DEF DecodesTo, u, x, d
<1> QED
  BY <1>10, <1>11

-----------------------------------------------------------------------------
(* The snapshot and the answer.                                            *)

\* The line that ends with the newline at q is the m-th.
EndsLine(s, q, m) ==
  /\ m \in 1 .. LineCount(s) - 1 /\ Cut(s, m) = q
  /\ Lines(s, m + 1, LineCount(s)) = SubSeq(s, q + 1, Len(s))
  /\ Cut(s, m - 1) \in 0 .. q - 1 /\ (Cut(s, m - 1) = 0 \/ s[Cut(s, m - 1)] = "nl")

LEMMA CutIsNewline ==
  ASSUME NEW s \in Seq(Bytes), NEW k \in 0 .. LineCount(s) - 1
  PROVE  Cut(s, k) \in 0 .. Len(s) /\ (Cut(s, k) = 0 \/ s[Cut(s, k)] = "nl")
<1> DEFINE b == Cut(s, k)  c == LineCount(s)
<1>1. c \in Nat \ {0} /\ Len(s) \in Nat
  BY EndsAre
<1>2. k \in 0 .. c /\ c \in 0 .. c /\ k < c
  BY <1>1
<1>3. b \in 0 .. Len(s) + 1 /\ b < Cut(s, c) /\ Cut(s, c) = Len(s) + 1
  BY <1>2, CutsAre
<1>4. CASE k = 0
  <2>1. b = 0
    BY <1>4, CutsAre
  <2> QED
    BY <1>1, <2>1
<1>5. CASE k # 0
  <2>1. k \in 1 .. c
    BY <1>1, <1>5
  <2>2. b \in LineEnds(s)
    BY <2>1, CutsAre
  <2>3. b <= Len(s) => s[b] = "nl"
    BY <2>2, EndsAre
  <2> HIDE DEF b, c
  <2>4. b \in 0 .. Len(s)
    BY <1>1, <1>3
  <2> QED
    BY <2>3, <2>4 DEF b
<1> QED
  BY <1>4, <1>5

LEMMA EveryNewlineEnds ==
  ASSUME NEW s \in Seq(Bytes), NEW q \in 1 .. Len(s), s[q] = "nl"
  PROVE  \E m \in Nat \ {0} : EndsLine(s, q, m)
<1> DEFINE c == LineCount(s)
<1>1. c \in Nat \ {0} /\ Len(s) \in Nat
  BY EndsAre
<1>2. q \in LineEnds(s)
  BY <1>1, EndsAre
<1>3. PICK m \in 1 .. c : Cut(s, m) = q
  BY <1>2, CutsAre
<1>4. Cut(s, c) = Len(s) + 1
  BY CutsAre
<1>5. m \in 1 .. c - 1
  <2>1. m # c
    BY <1>1, <1>3, <1>4
  <2> QED
    BY <1>1, <2>1
<1>6. Cut(s, m - 1) < q
  <2>1. m - 1 \in 0 .. c /\ m \in 0 .. c /\ m - 1 < m
    BY <1>1, <1>5
  <2>2. Cut(s, m - 1) < Cut(s, m)
    BY <2>1, CutsAre
  <2> QED
    BY <1>3, <2>2
<1>7. Cut(s, m - 1) \in 0 .. Len(s) /\ (Cut(s, m - 1) = 0 \/ s[Cut(s, m - 1)] = "nl")
  <2>1. m - 1 \in 0 .. c - 1
    BY <1>1, <1>5
  <2> QED
    BY <2>1, CutIsNewline
<1>8. Lines(s, m + 1, c) = SubSeq(s, q + 1, Len(s))
  <2>1. m + 1 - 1 = m /\ Len(s) + 1 - 1 = Len(s)
    BY <1>1, <1>5
  <2> QED
    BY <1>3, <1>4, <2>1 DEF Lines
<1>9. Cut(s, m - 1) \in 0 .. q - 1
  BY <1>1, <1>6, <1>7
<1>10. m \in Nat \ {0} /\ EndsLine(s, q, m)
  BY <1>1, <1>3, <1>5, <1>7, <1>8, <1>9 DEF EndsLine
<1> QED
  BY <1>10

\* What begins in the part that was cut off is longer than the window.
LEMMA CutFarBack ==
  ASSUME NEW s \in Seq(Bytes), Wellmade(s), NEW tail, NEW atLine, NEW p \in Nat, NEW w \in Nat,
         IsRest(tail, atLine, s, p, w), NEW b \in 0 .. p - 1, b = 0 \/ s[b] = "nl"
  PROVE  Len(s) - b > 2 * MaxBytes
<1>1. /\ p \in 1 .. Len(s) /\ w \in 1 .. p /\ Len(s) - w >= 2 * MaxBytes /\ \A i \in w + 1 .. p : s[i] = "c"
      /\ Len(s) \in Nat /\ MaxBytes \in Nat
  <2>1. p > 0 /\ Len(s) \in Nat
    OBVIOUS
  <2>2. /\ w \in 1 .. p /\ Len(s) - w >= 2 * MaxBytes /\ \A i \in w + 1 .. p : s[i] = "c"
        /\ p \in 0 .. Len(s)
    BY <2>1 DEF IsRest
  <2> QED
    BY <2>1, <2>2, RollingIs
<1>2. b \notin w + 1 .. p
  <2> SUFFICES ASSUME b \in w + 1 .. p PROVE FALSE
    OBVIOUS
  <2>1. s[b] = "c" /\ b # 0
    BY <1>1
  <2> QED
    BY <2>1
<1>3. b # w
  <2> SUFFICES ASSUME b = w PROVE FALSE
    OBVIOUS
  <2>1. w + 1 \in w + 1 .. p /\ w + 1 \in 1 .. Len(s) /\ w # 0 /\ w + 1 - 1 = w
    BY <1>1
  <2>2. s[w + 1] = "c"
    BY <1>1, <2>1
  <2>3. s[w + 1 - 1] # "nl"
    BY <2>1, <2>2 DEF Wellmade
  <2> QED
    BY <2>1, <2>3
<1> QED
  BY <1>1, <1>2, <1>3

LEMMA EndFromNewline ==
  ASSUME NEW s \in Seq(Bytes), NEW q \in 1 .. Len(s), s[q] = "nl",
         \A b \in 0 .. q - 1 : (b = 0 \/ s[b] = "nl") => Len(s) - b > 2 * MaxBytes
  PROVE  \E m \in Nat : EndsLike(SubSeq(s, q + 1, Len(s)), s, m, MaxBytes)
<1>1. PICK m \in Nat \ {0} : EndsLine(s, q, m)
  BY EveryNewlineEnds
<1>2. Len(s) - Cut(s, m - 1) > 2 * MaxBytes
  BY <1>1 DEF EndsLine
<1>3. LineCount(s) \in Nat
  BY EndsAre
<1>4. m \in 0 .. LineCount(s) - 1
  BY <1>1, <1>3 DEF EndsLine
<1>5. EndsLike(SubSeq(s, q + 1, Len(s)), s, m, MaxBytes)
  BY <1>1, <1>2, <1>4 DEF EndsLine, EndsLike
<1> QED
  BY <1>5

LEMMA SnapshotIsEnd ==
  ASSUME NEW a, NEW s, Follows(a, s), \A i \in 1 .. LineCount(s) : Len(Lines(s, i, i)) <= MaxBytes
  PROVE  \E m \in Nat : EndsLike(getSnapshotText(a), s, m, MaxBytes)
<1> DEFINE tail == a.tail  atLine == a.atLine  N == {i \in DOMAIN tail : tail[i] = "nl"}
           text == getSnapshotText(a)
<1>1. s \in Seq(Bytes) /\ Wellmade(s) /\ Keeps(tail, atLine, s) /\ MaxBytes \in Nat \ {0}
  BY RollingIs DEF Follows
<1>2. PICK p \in Nat, w \in Nat : IsRest(tail, atLine, s, p, w)
  BY <1>1 DEF Keeps
<1>3. text = IF atLine \/ N = {} THEN tail ELSE SubSeq(tail, Min(N) + 1, Len(tail))
  BY DEF getSnapshotText
<1> HIDE DEF tail, atLine, text
<1>4. /\ p \in 0 .. Len(s) /\ tail = SubSeq(s, p + 1, Len(s)) /\ Len(s) \in Nat
      /\ atLine = (p = 0 \/ s[p] = "nl")
  BY <1>1, <1>2 DEF IsRest
<1>5. /\ tail \in Seq(Bytes) /\ Len(tail) = Len(s) - p
      /\ \A k \in 1 .. Len(s) - p : tail[k] = s[p + k]
  BY <1>1, <1>4, RestIsPart
<1>6. \A i : i \in N <=> i \in 1 .. Len(s) - p /\ s[p + i] = "nl"
  <2>1. DOMAIN tail = 1 .. Len(s) - p
    BY <1>5
  <2> QED
    BY <1>5, <2>1
<1> HIDE DEF N
<1>7. \A b \in 0 .. p - 1 : (b = 0 \/ s[b] = "nl") => Len(s) - b > 2 * MaxBytes
  BY <1>1, <1>2, CutFarBack
<1>8. CASE p = 0
  <2>1. text = s
    <3>1. p + 1 = 1
      BY <1>8
    <3> QED
      BY <1>1, <1>3, <1>4, <1>8, <3>1, SubSeqFull
  <2>2. LineCount(s) \in Nat \ {0} /\ Lines(s, 1, LineCount(s)) = s
    BY <1>1, EndsAre, WholeText
  <2>3. 0 \in 0 .. LineCount(s) - 1 /\ 0 + 1 = 1
    BY <2>2
  <2>4. EndsLike(text, s, 0, MaxBytes)
    BY <2>1, <2>2, <2>3 DEF EndsLike
  <2> QED
    BY <2>4 DEF text
<1>9. CASE p # 0 /\ s[p] = "nl"
  <2>1. p \in 1 .. Len(s)
    BY <1>4, <1>9
  <2>2. text = SubSeq(s, p + 1, Len(s))
    BY <1>3, <1>4, <1>9
  <2>3. \E m \in Nat : EndsLike(SubSeq(s, p + 1, Len(s)), s, m, MaxBytes)
    BY <1>1, <1>7, <1>9, <2>1, EndFromNewline
  <2> QED
    BY <2>2, <2>3 DEF text
<1>10. CASE p # 0 /\ s[p] # "nl" /\ N = {}
  <2> DEFINE c == LineCount(s)  b == Cut(s, c - 1)
  <2>1. c \in Nat \ {0} /\ c - 1 \in 0 .. c - 1
    BY <1>1, EndsAre
  <2>2. b \in 0 .. Len(s) /\ (b = 0 \/ s[b] = "nl")
    BY <1>1, <2>1, CutIsNewline
  <2>3. Len(Lines(s, c, c)) = Cut(s, c) - Cut(s, c - 1) - 1
    <3>1. c \in 1 .. c + 1 /\ c \in c - 1 .. c /\ c # c - 1
      BY <2>1
    <3> QED
      BY <1>1, <3>1, LinesAre
  <2>4. Cut(s, c) = Len(s) + 1 /\ Len(Lines(s, c, c)) <= MaxBytes
    BY <1>1, <2>1, CutsAre
  <2> HIDE DEF b
  <2>5. b \in 0 .. p - 1
    <3>1. b # p
      BY <1>10, <2>2
    <3>2. ASSUME b > p PROVE FALSE
      <4>1. b - p \in 1 .. Len(s) - p /\ p + (b - p) = b /\ b # 0
        BY <1>4, <2>2, <3>2
      <4>2. b - p \in N
        BY <1>6, <2>2, <4>1
      <4> QED
        BY <1>10, <4>2
    <3> QED
      BY <1>4, <2>2, <3>1, <3>2
  <2>6. Len(s) - b > 2 * MaxBytes
    BY <1>7, <2>2, <2>5
  <2>7. Len(Lines(s, c, c)) = Len(s) - b
    BY <1>4, <2>2, <2>3, <2>4 DEF b
  <2> HIDE DEF c
  <2> QED
    BY <1>1, <1>4, <2>2, <2>4, <2>6, <2>7
<1>11. CASE p # 0 /\ s[p] # "nl" /\ N # {}
  <2> DEFINE k == Min(N)  q == p + k
  <2>1. N \in SUBSET Nat
    BY <1>6
  <2>2. k \in N /\ \A x \in N : k <= x
    BY <1>11, <2>1, SmallestIs
  <2> HIDE DEF k
  <2>3. k \in 1 .. Len(s) - p /\ q \in 1 .. Len(s) /\ s[q] = "nl"
    BY <1>4, <1>6, <2>2
  <2>4. text = SubSeq(tail, k + 1, Len(tail))
    <3>1. ~atLine
      BY <1>4, <1>11
    <3> QED
      BY <1>3, <1>11, <3>1 DEF k
  <2>5. SubSeq(tail, k + 1, Len(tail)) = SubSeq(s, q + 1, Len(s))
    <3> DEFINE n == Len(tail)  l == Len(s)
    <3>0. n = l - p /\ l \in Nat /\ p \in 0 .. l /\ k \in 1 .. l - p /\ tail = SubSeq(s, p + 1, l)
      BY <1>4, <1>5, <2>3
    <3> HIDE DEF n, l
    <3>1. p + 1 \in 1 .. l + 1 /\ l \in (p + 1) - 1 .. l
      BY ONLY <3>0
    <3>2. k + 1 \in 1 .. l - (p + 1) + 2 /\ n \in (k + 1) - 1 .. l - (p + 1) + 1
      BY ONLY <3>0
    <3>3. (p + 1) + (k + 1) - 1 = (p + k) + 1 /\ (p + 1) + n - 1 = l
      BY ONLY <3>0
    <3>4. SubSeq(SubSeq(s, p + 1, l), k + 1, n) = SubSeq(s, (p + 1) + (k + 1) - 1, (p + 1) + n - 1)
      <4> DEFINE i == p + 1  h == k + 1
      <4>1. i \in 1 .. Len(s) + 1 /\ l \in i - 1 .. Len(s)
        BY <3>1 DEF l
      <4>2. h \in 1 .. l - i + 2 /\ n \in h - 1 .. l - i + 1
        BY <3>2
      <4> HIDE DEF i, h
      <4>3. SubSeq(SubSeq(s, i, l), h, n) = SubSeq(s, i + h - 1, i + n - 1)
        BY <1>1, <4>1, <4>2, PartOfPart
      <4> QED
        BY <4>3 DEF i, h
    <3> QED
      BY <3>0, <3>3, <3>4 DEF n, l
  <2>6. ASSUME NEW b \in 0 .. q - 1, b = 0 \/ s[b] = "nl" PROVE Len(s) - b > 2 * MaxBytes
    <3>1. b # p
      BY <1>11, <2>6
    <3>2. ASSUME b > p PROVE FALSE
      <4>1. b - p \in 1 .. Len(s) - p /\ p + (b - p) = b /\ b # 0 /\ b - p < k
        BY <1>4, <2>3, <3>2
      <4>2. b - p \in N
        BY <1>6, <2>6, <4>1
      <4> QED
        BY <2>2, <2>3, <4>1, <4>2
    <3>3. b \in 0 .. p - 1
      BY <1>4, <2>3, <3>1, <3>2
    <3> QED
      BY <1>7, <2>6, <3>3
  <2> HIDE DEF q
  <2>7. \E m \in Nat : EndsLike(SubSeq(s, q + 1, Len(s)), s, m, MaxBytes)
    BY <1>1, <2>3, <2>6, EndFromNewline
  <2> QED
    BY <2>4, <2>5, <2>7 DEF text
<1> QED
  BY <1>8, <1>9, <1>10, <1>11

LEMMA LongestIs ==
  ASSUME NEW s \in Seq(Bytes), LongestLine(s) <= MaxBytes
  PROVE  \A i \in 1 .. LineCount(s) : Len(Lines(s, i, i)) <= MaxBytes
<1> DEFINE S == {0} \cup {Len(Lines(s, k, k)) : k \in 1 .. LineCount(s)}
<1>1. LineCount(s) \in Nat /\ Len(s) \in Nat /\ MaxBytes \in Nat
  BY EndsAre, RollingIs
<1>2. ASSUME NEW k \in 1 .. LineCount(s) PROVE Len(Lines(s, k, k)) \in 0 .. Len(s) + 1
  <2>1. k \in 1 .. LineCount(s) + 1 /\ k \in k - 1 .. LineCount(s) /\ k # k - 1 /\ k - 1 \in 0 .. LineCount(s)
        /\ k \in 0 .. LineCount(s) /\ k - 1 < k
    BY <1>1
  <2>2. Len(Lines(s, k, k)) = Cut(s, k) - Cut(s, k - 1) - 1
    BY <2>1, LinesAre
  <2>3. Cut(s, k) \in 0 .. Len(s) + 1 /\ Cut(s, k - 1) \in 0 .. Len(s) + 1 /\ Cut(s, k - 1) < Cut(s, k)
    BY <2>1, CutsAre
  <2> QED
    BY <1>1, <2>2, <2>3
<1>3. S \in SUBSET (0 .. Len(s) + 1) /\ S # {}
  BY <1>1, <1>2
<1>4. LongestLine(s) = Max(S)
  BY DEF LongestLine
<1>5. \A k \in 1 .. LineCount(s) : Len(Lines(s, k, k)) \in S
  OBVIOUS
<1> HIDE DEF S
<1>6. Max(S) \in S /\ \A x \in S : x <= Max(S)
  <2>1. Len(s) + 1 \in Nat
    BY <1>1
  <2> QED
    BY <1>3, <2>1, LargestIs
<1> QED
  <2> TAKE k \in 1 .. LineCount(s)
  <2>1. Len(Lines(s, k, k)) <= Max(S) /\ Max(S) <= MaxBytes
    BY <1>4, <1>5, <1>6
  <2>2. Len(Lines(s, k, k)) \in Int
    BY <1>2
  <2>3. Max(S) \in Int
    <3>1. Max(S) \in 0 .. Len(s) + 1
      BY <1>3, <1>6
    <3> QED
      BY <3>1
  <2> QED
    BY <1>1, <2>1, <2>2, <2>3

\* The snapshot of what was kept is the end of the text s cut as if all of it had been.
SnapshotOf(snap, s) ==
  LET cut == truncateTail(s, MaxLines, MaxBytes)
  IN  /\ snap.content \in {cut.content, cut.content \o <<"nl">>} /\ snap.partial = FALSE
      /\ snap.truncated \in BOOLEAN /\ snap.truncated = cut.truncated
      /\ cut.truncated => snap.outputLines = cut.outputLines
      /\ snap.totalLines = splitLinesForCounting(s)

LEMMA SnapshotShows ==
  ASSUME NEW a, NEW s, Follows(a, s), LongestLine(s) <= MaxBytes
  PROVE  SnapshotOf(snapshot(a), s)
<1> DEFINE cut == truncateTail(s, MaxLines, MaxBytes)
           mine == truncateTail(getSnapshotText(a), MaxLines, MaxBytes)
           over == totalLines(a) > MaxLines \/ a.decoded > MaxBytes
           by == IF ~over THEN "none" ELSE IF mine.by # "none" THEN mine.by
                 ELSE IF a.decoded > MaxBytes THEN "bytes" ELSE "lines"
           snap == snapshot(a)
<1>1. s \in Seq(Bytes) /\ Counts(a.decoded, a.completed, a.open, s)
  BY DEF Follows
<1>2. \A i \in 1 .. LineCount(s) : Len(Lines(s, i, i)) <= MaxBytes
  BY <1>1, LongestIs
<1>3. PICK m \in Nat : EndsLike(getSnapshotText(a), s, m, MaxBytes)
  BY <1>2, SnapshotIsEnd
<1>4. SameTail(mine, cut, s, MaxLines, MaxBytes)
  <2>1. "nl" \in Bytes /\ MaxLines \in Nat \ {0} /\ MaxBytes \in Nat \ {0}
    BY BashAssumption DEF Bytes
  <2> QED
    BY <1>1, <1>2, <1>3, <2>1, TailOfTail
<1>5. over = ~Fits(s, MaxLines, MaxBytes)
  <2>1. totalLines(a) = splitLinesForCounting(s) /\ a.decoded = Len(s)
    BY <1>1, TotalIs DEF Counts
  <2>2. splitLinesForCounting(s) \in Int /\ Len(s) \in Int /\ MaxLines \in Int /\ MaxBytes \in Int
    BY <1>1, CountIs, EndsAre, BashAssumption
  <2> QED
    BY <2>1, <2>2 DEF Fits
<1>6. snap = [content |-> mine.content, truncated |-> over, partial |-> mine.lastLinePartial,
              outputLines |-> mine.outputLines, totalLines |-> totalLines(a), by |-> by]
  BY DEF snapshot
<1>7. over \in BOOLEAN
  OBVIOUS
<1> HIDE DEF snap, mine, over, by, cut
<1>8. snap.content = mine.content /\ snap.partial = mine.lastLinePartial /\ snap.outputLines = mine.outputLines
  BY ONLY <1>6
<1>9. snap.truncated = over /\ snap.totalLines = totalLines(a)
  BY ONLY <1>6
<1>10. totalLines(a) = splitLinesForCounting(s)
  BY <1>1, TotalIs
<1>11. snap.content \in {cut.content, cut.content \o <<"nl">>} /\ snap.partial = FALSE
  BY <1>4, <1>8 DEF SameTail
<1>12. snap.truncated \in BOOLEAN /\ snap.truncated = cut.truncated
  BY <1>4, <1>5, <1>7, <1>9 DEF SameTail
<1>13. cut.truncated => snap.outputLines = cut.outputLines
  <2>1. cut.truncated \in BOOLEAN
    BY <1>12
  <2> QED
    BY <1>4, <1>8, <2>1 DEF SameTail
<1>14. snap.totalLines = splitLinesForCounting(s)
  BY <1>9, <1>10
<1> QED
  BY <1>11, <1>12, <1>13, <1>14 DEF SnapshotOf, snap, cut

\* The outcomes of a call that ran.
Ran == {"ok", "exitCode", "timedOut"}

LEMMA AnswerIs ==
  ASSUME NEW result, NEW snap
  PROVE  LET r == Answer(result, snap)
         IN  /\ r.status \in Ran \cup {"rejected"}
             /\ r.status \in Ran =>
                  /\ r.text = snap.content
                  /\ r.path = (IF snap.truncated THEN "bash" ELSE "none")
                  /\ r.first = (IF snap.truncated /\ ~snap.partial THEN snap.totalLines - snap.outputLines + 1 ELSE 0)
                  /\ r.last = (IF snap.truncated THEN snap.totalLines ELSE 0)
<1> DEFINE shaped == formatOutput(snap)
           stated == [shaped EXCEPT !.status = StatusOf(result), !.ok = StatusOf(result) = "ok"]
           refused == [NoAnswer EXCEPT !.status = "rejected"]
           first == IF snap.truncated /\ ~snap.partial THEN snap.totalLines - snap.outputLines + 1 ELSE 0
           last == IF snap.truncated THEN snap.totalLines ELSE 0
           path == IF snap.truncated THEN "bash" ELSE "none"
           content == snap.content
           r == Answer(result, snap)
<1>1. shaped = [NoAnswer EXCEPT !.text = content, !.first = first, !.last = last, !.path = path]
  BY DEF formatOutput
<1>2. stated = [shaped EXCEPT !.status = StatusOf(result), !.ok = StatusOf(result) = "ok"]
  OBVIOUS
<1>3. r = IF result = Rejected THEN refused ELSE stated
  BY DEF Answer
<1>4. refused.status = "rejected"
  BY DEF NoAnswer
<1>5. StatusOf(result) \in Ran
  BY DEF StatusOf, Ran
<1> HIDE DEF shaped, stated, refused, first, last, path, content, r
<1>6. /\ shaped.text = content /\ shaped.first = first /\ shaped.last = last /\ shaped.path = path
      /\ DOMAIN shaped = {"ok", "status", "text", "first", "last", "path"}
  BY <1>1 DEF NoAnswer
<1>7. stated.text = content /\ stated.first = first /\ stated.last = last /\ stated.path = path
  BY <1>2, <1>6
<1>8. stated.status = StatusOf(result)
  BY <1>2, <1>6
<1>9. r.status \in Ran => r = stated
  BY <1>3, <1>4 DEF Ran
<1>10. r.status \in Ran \cup {"rejected"}
  BY <1>3, <1>4, <1>5, <1>8
<1> QED
  BY <1>7, <1>9, <1>10 DEF r, content, first, last, path

\* An answer shows the end of the text s.
ShowsEnd(r, s) ==
  LET cut == truncateTail(s, MaxLines, MaxBytes)
      n   == splitLinesForCounting(s)
  IN  LongestLine(s) <= MaxBytes =>
        /\ r.text \in {cut.content, cut.content \o <<"nl">>}
        /\ r.path = (IF cut.truncated THEN "bash" ELSE "none")
        /\ cut.truncated => r.first = n - cut.outputLines + 1 /\ r.last = n

LEMMA AnswerShows ==
  ASSUME NEW a, NEW s, Follows(a, s), NEW result
  PROVE  LET r == Answer(result, snapshot(a))
         IN  r.status \in Ran \cup {"rejected"} /\ (r.status \in Ran => ShowsEnd(r, s))
<1> DEFINE snap == snapshot(a)  r == Answer(result, snap)  cut == truncateTail(s, MaxLines, MaxBytes)
           n == splitLinesForCounting(s)
<1>1. r.status \in Ran \cup {"rejected"}
  <2> HIDE DEF snap
  <2> QED
    BY AnswerIs
<1>2. ASSUME r.status \in Ran, LongestLine(s) <= MaxBytes
      PROVE  /\ r.text \in {cut.content, cut.content \o <<"nl">>}
             /\ r.path = (IF cut.truncated THEN "bash" ELSE "none")
             /\ cut.truncated => r.first = n - cut.outputLines + 1 /\ r.last = n
  <2>1. SnapshotOf(snap, s)
    BY <1>2, SnapshotShows
  <2> HIDE DEF snap
  <2>2. /\ r.text = snap.content
        /\ r.path = (IF snap.truncated THEN "bash" ELSE "none")
        /\ r.first = (IF snap.truncated /\ ~snap.partial THEN snap.totalLines - snap.outputLines + 1 ELSE 0)
        /\ r.last = (IF snap.truncated THEN snap.totalLines ELSE 0)
    BY <1>2, AnswerIs
  <2> HIDE DEF r, cut, n
  <2>3. /\ snap.content \in {cut.content, cut.content \o <<"nl">>} /\ snap.partial = FALSE
        /\ snap.truncated \in BOOLEAN /\ snap.truncated = cut.truncated
        /\ cut.truncated => snap.outputLines = cut.outputLines
        /\ snap.totalLines = n
    BY <2>1 DEF SnapshotOf, cut, n
  <2> QED
    BY <2>2, <2>3
<1> QED
  BY <1>1, <1>2 DEF ShowsEnd

-----------------------------------------------------------------------------
(* What the answer of bash shows.                                          *)

\* Where the bytes are kept does not change what is kept of their text.
SameText(a, b) ==
  /\ IsAcc(b) /\ b.pending = a.pending /\ b.tail = a.tail /\ b.atLine = a.atLine
  /\ b.decoded = a.decoded /\ b.completed = a.completed /\ b.open = a.open /\ b.finished = a.finished

LEMMA FollowsToo ==
  ASSUME NEW a, NEW b, NEW s, SameText(a, b), Follows(a, s)
  PROVE  Follows(b, s)
BY DEF SameText, Follows

LEMMA SpillingKeepsText ==
  ASSUME NEW a, IsAcc(a), NEW fs
  PROVE  SameText(a, ensureTempFile(a, fs)[1])
<1> DEFINE b == [a EXCEPT !.spilled = TRUE, !.chunks = <<>>]  gs == [fs EXCEPT !["bash"] = a.chunks]
<1>1. ensureTempFile(a, fs) = IF a.spilled THEN <<a, fs>> ELSE <<b, gs>>
  BY DEF ensureTempFile
<1>2. SameText(a, b) /\ SameText(a, a)
  BY DEF SameText, IsAcc, AccFields
<1> HIDE DEF b, gs
<1> QED
  BY <1>1, <1>2

\* The accumulator has taken the bytes r.
Taken(a, r) == IsAcc(a) /\ Follows(a, Decoded(r)) /\ a.pending = Incomplete(r)

LEMMA AppendingTakes ==
  ASSUME NEW a, Taken(a, raw), raw \in Seq(Bytes), NEW fs,
         NEW data \in Seq(Bytes), data # <<>>, Wellformed(a, data)
  PROVE  Taken(Append_(a, fs, data)[1], raw \o data) /\ Append_(a, fs, data)[1].finished = a.finished
<1> DEFINE d == Decode(a, data)
           text == d.text
           decoded == appendDecodedText(a, text)
           after == [decoded EXCEPT !.pending = d.pending]
           spill == ensureTempFile(after, fs)
           more == [after EXCEPT !.chunks = @ \o data]
           b == Append_(a, fs, data)[1]
           u == raw \o data
<1>1. DecodesTo(d, raw, data)
  BY DecodeIs DEF Taken
<1>2. IsAcc(a) /\ Follows(a, Decoded(raw))
  BY DEF Taken
<1>3. Append_(a, fs, data) =
        IF kind = "vm" THEN <<after, fs>>
        ELSE IF after.spilled \/ shouldUseTempFile(after, Len(raw) + Len(data))
        THEN <<spill[1], [spill[2] EXCEPT !["bash"] = @ \o data]>>
        ELSE <<more, fs>>
  BY DEF Append_
<1> HIDE DEF d
<1>4. IsAcc(decoded) /\ decoded.finished = a.finished
  BY <1>2, DecodingKeepsBytes DEF SameBytes
<1>5. Follows(decoded, Decoded(u))
  <2>1. text \in Seq(Bytes) /\ Wellmade(text) /\ Decoded(raw) \o text = Decoded(u)
    BY <1>1 DEF DecodesTo
  <2> HIDE DEF text, u
  <2>2. Follows(decoded, Decoded(raw) \o text)
    BY <1>2, <2>1, TextFollows
  <2> QED
    BY <2>1, <2>2
<1> HIDE DEF decoded
<1>6. /\ IsAcc(after) /\ after.pending = d.pending /\ after.finished = decoded.finished
      /\ after.tail = decoded.tail /\ after.atLine = decoded.atLine /\ after.decoded = decoded.decoded
      /\ after.completed = decoded.completed /\ after.open = decoded.open
  BY <1>4 DEF IsAcc, AccFields
<1> HIDE DEF after
<1>7. SameText(after, after) /\ SameText(after, more) /\ SameText(after, spill[1])
  <2>1. SameText(after, after) /\ SameText(after, more)
    BY <1>6 DEF SameText, IsAcc, AccFields
  <2> QED
    BY <1>6, <2>1, SpillingKeepsText
<1> HIDE DEF spill, more
<1>8. SameText(after, b)
  BY <1>3, <1>7
<1> HIDE DEF b
<1>9. Follows(after, Decoded(u))
  BY <1>5, <1>6 DEF Follows
<1>10. Follows(b, Decoded(u))
  BY <1>8, <1>9, FollowsToo
<1>11. IsAcc(b) /\ b.pending = Incomplete(u) /\ b.finished = a.finished
  BY <1>1, <1>4, <1>6, <1>8 DEF SameText, DecodesTo
<1> QED
  BY <1>10, <1>11 DEF Taken, b, u

LEMMA FinishingFollows ==
  ASSUME NEW a, Taken(a, raw), raw \in Seq(Bytes), NEW fs
  PROVE  LET f == Finish_(a, fs)[1] IN IsAcc(f) /\ Follows(f, DecodedOutput) /\ f.finished = TRUE
<1> DEFINE replaced == <<"r", "c", "c">>
           flushed == IF a.pending THEN appendDecodedText(a, replaced) ELSE a
           after == [flushed EXCEPT !.pending = FALSE, !.finished = TRUE]
           f == Finish_(a, fs)[1]
<1>1. IsAcc(a) /\ Follows(a, Decoded(raw)) /\ a.pending = Incomplete(raw)
  BY DEF Taken
<1>2. replaced \in Seq(Bytes) /\ Wellmade(replaced)
  <2>1. replaced \in Seq(Bytes)
    BY DEF Bytes
  <2>2. Len(replaced) = 3 /\ replaced[1] = "r" /\ replaced[2] = "c" /\ replaced[3] = "c"
    OBVIOUS
  <2> HIDE DEF replaced
  <2>3. ASSUME NEW i \in 1 .. Len(replaced), replaced[i] = "c" PROVE i > 1 /\ replaced[i - 1] # "nl"
    <3>1. i \in {1, 2, 3}
      BY <2>2
    <3>2. i # 1
      BY <2>2, <2>3
    <3>3. i = 2 \/ i = 3
      BY <3>1, <3>2
    <3>4. i - 1 = 1 \/ i - 1 = 2
      BY <3>3
    <3> QED
      BY <2>2, <3>3, <3>4
  <2> QED
    BY <2>1, <2>3 DEF Wellmade
<1>3. Finish_(a, fs) = IF kind = "local" /\ shouldUseTempFile(after, Len(raw))
                       THEN ensureTempFile(after, fs) ELSE <<after, fs>>
  BY DEF Finish_
<1> HIDE DEF replaced
<1>4. IsAcc(flushed) /\ Follows(flushed, DecodedOutput)
  <2>1. CASE Incomplete(raw)
    <3>1. flushed = appendDecodedText(a, replaced) /\ Decoded(raw) = Front(raw)
      BY <1>1, <2>1 DEF Decoded
    <3>2. raw # <<>> /\ Last(raw) = "l"
      BY <2>1 DEF Incomplete, Last
    <3>3. DecodedOutput = Front(raw) \o replaced
      BY <3>2 DEF DecodedOutput, replaced
    <3>4. /\ Follows(appendDecodedText(a, replaced), Decoded(raw) \o replaced)
          /\ IsAcc(appendDecodedText(a, replaced))
      BY <1>1, <1>2, TextFollows
    <3> HIDE DEF flushed
    <3> QED
      BY <3>1, <3>3, <3>4
  <2>2. CASE ~Incomplete(raw)
    <3>1. flushed = a /\ Decoded(raw) = raw
      BY <1>1, <2>2 DEF Decoded
    <3>2. ~(raw # <<>> /\ Last(raw) = "l")
      BY <2>2 DEF Incomplete, Last
    <3>3. DecodedOutput = raw
      BY <3>2 DEF DecodedOutput
    <3> HIDE DEF flushed
    <3> QED
      BY <1>1, <3>1, <3>3
  <2> QED
    BY <2>1, <2>2
<1> HIDE DEF flushed
<1>5. /\ IsAcc(after) /\ after.finished = TRUE
      /\ after.tail = flushed.tail /\ after.atLine = flushed.atLine /\ after.decoded = flushed.decoded
      /\ after.completed = flushed.completed /\ after.open = flushed.open
  BY <1>4 DEF IsAcc, AccFields
<1> HIDE DEF after
<1>6. Follows(after, DecodedOutput)
  BY <1>4, <1>5 DEF Follows
<1>7. SameText(after, f)
  <2>1. SameText(after, after)
    BY <1>5 DEF SameText
  <2>2. SameText(after, ensureTempFile(after, fs)[1])
    BY <1>5, SpillingKeepsText
  <2> QED
    BY <1>3, <2>1, <2>2
<1> HIDE DEF f
<1>8. Follows(f, DecodedOutput)
  BY <1>6, <1>7, FollowsToo
<1>9. IsAcc(f) /\ f.finished = TRUE
  BY <1>5, <1>7 DEF SameText
<1> QED
  BY <1>8, <1>9 DEF f

\* Until it is finished, the accumulator has taken what the call received; an answer with
\* a text comes from a finished one, and shows the end of what was received.
TailInv ==
  /\ raw \in Seq(Bytes)
  /\ ~acc.finished => Taken(acc, raw)
  /\ bash \in {"idle", "running"} => ~acc.finished /\ answer.status = "none"
  /\ answer.status \in Ran => acc.finished /\ ShowsEnd(answer, DecodedOutput)

LEMMA TailIsShown == TailInv => BashShowsTheTail
BY DEF TailInv, BashShowsTheTail, ShowsEnd, Ran

LEMMA TailStarts == BashInit => TailInv
<1> SUFFICES ASSUME BashInit PROVE TailInv
  OBVIOUS
<1>1. raw = <<>> /\ acc = NewAccumulator /\ answer = NoAnswer
  BY DEF BashInit
<1>2. raw \in Seq(Bytes) /\ Len(raw) = 0
  BY <1>1, EmptySeq
<1>3. IsAcc(acc) /\ acc.finished = FALSE /\ acc.pending = FALSE /\ acc.tail = <<>> /\ acc.atLine = TRUE
  BY <1>1 DEF NewAccumulator, IsAcc, AccFields
<1>4. acc.decoded = 0 /\ acc.completed = 0 /\ acc.open = FALSE
  BY <1>1 DEF NewAccumulator
<1>5. Incomplete(raw) = FALSE /\ Decoded(raw) = raw
  BY <1>1 DEF Incomplete, Decoded
<1>6. Keeps(acc.tail, acc.atLine, raw)
  <2>1. SubSeq(raw, 0 + 1, Len(raw)) = <<>>
    BY <1>2, SubSeqEmpty
  <2>2. IsRest(acc.tail, acc.atLine, raw, 0, 0)
    <3>1. acc.atLine = (0 = 0 \/ raw[0] = "nl")
      BY <1>3
    <3>2. 0 \in 0 .. Len(raw) /\ acc.tail = SubSeq(raw, 0 + 1, Len(raw)) /\ ~(0 > 0)
      BY <1>2, <1>3, <2>1
    <3> QED
      BY <3>1, <3>2 DEF IsRest
  <2> QED
    BY <2>2 DEF Keeps
<1>7. Wellmade(raw)
  BY <1>2 DEF Wellmade
<1>8. Counts(acc.decoded, acc.completed, acc.open, raw)
  BY <1>1, <1>4, CountsNothing
<1>9. Taken(acc, raw)
  BY <1>2, <1>3, <1>5, <1>6, <1>7, <1>8 DEF Taken, Follows
<1>10. answer.status = "none"
  BY <1>1 DEF NoAnswer
<1> QED
  BY <1>2, <1>3, <1>9, <1>10 DEF TailInv, Ran

\* The answer is made from the accumulator that has taken the last byte.
LEMMA SettlingShows ==
  ASSUME TailInv, bash = "running", NEW result, Settle(result), UNCHANGED <<kind, raw>>
  PROVE  TailInv'
<1> DEFINE f == Finish_(acc, files)
           s == snapshot(f[1])
           g == IF kind = "local" /\ s.truncated THEN ensureTempFile(f[1], f[2]) ELSE f
           whole == DecodedOutput
<1>1. acc' = g[1] /\ answer' = Answer(result, s) /\ bash' = "closing"
  BY DEF Settle
<1>2. raw \in Seq(Bytes) /\ Taken(acc, raw)
  BY DEF TailInv
<1>3. IsAcc(f[1]) /\ Follows(f[1], whole) /\ f[1].finished = TRUE
  BY <1>2, FinishingFollows
<1>4. whole' = whole
  BY DEF DecodedOutput
<1> HIDE DEF f, whole
<1>5. answer'.status \in Ran => ShowsEnd(answer', whole)
  BY <1>1, <1>3, AnswerShows
<1> HIDE DEF s
<1>6. g[1].finished = TRUE
  <2>1. SameText(f[1], ensureTempFile(f[1], f[2])[1])
    BY <1>3, SpillingKeepsText
  <2>2. ensureTempFile(f[1], f[2])[1].finished = TRUE
    BY <1>3, <2>1 DEF SameText
  <2> QED
    BY <1>3, <2>2
<1> HIDE DEF g
<1>7. ShowsEnd(answer', whole) => ShowsEnd(answer, DecodedOutput)'
  BY <1>4 DEF ShowsEnd, whole
<1> QED
  BY <1>1, <1>2, <1>5, <1>6, <1>7 DEF TailInv

LEMMA TailStays ==
  ASSUME TailInv, UNCHANGED <<raw, acc>>, answer'.status \in Ran => UNCHANGED answer,
         bash' \in {"idle", "running"} => bash \in {"idle", "running"} /\ UNCHANGED answer
  PROVE  TailInv'
<1> DEFINE whole == DecodedOutput
<1>1. whole' = whole
  BY DEF DecodedOutput
<1>2. UNCHANGED answer => ShowsEnd(answer, whole)' = ShowsEnd(answer, whole)
  <2> HIDE DEF whole
  <2> QED
    BY <1>1 DEF ShowsEnd
<1>3. Taken(acc, raw)' = Taken(acc, raw)
  BY DEF Taken, Follows
<1> QED
  BY <1>2, <1>3 DEF TailInv

LEMMA DataTaken == TailInv /\ Data => TailInv'
<1> SUFFICES ASSUME TailInv, Data PROVE TailInv'
  OBVIOUS
<1>1. CASE acc.finished
  <2>1. bash' = "crashed" /\ UNCHANGED <<raw, acc, answer>>
    BY <1>1 DEF Data
  <2> QED
    BY <2>1, TailStays
<1>2. CASE ~acc.finished
  <2>1. PICK data \in Chunks :
          /\ Wellformed(acc, data)
          /\ LET r == Append_(acc, files, data)
             IN  /\ acc' = r[1]
                 /\ raw' = raw \o data
                 /\ UNCHANGED bash
    BY <1>2 DEF Data
  <2>2. UNCHANGED answer
    BY DEF Data
  <2>3. data \in Seq(Bytes) /\ data # <<>>
    <3>1. PICK n \in ChunkSizes : data \in [1 .. n -> Bytes \ {"r"}]
      BY DEF Chunks
    <3>2. n \in Nat \ {0}
      BY BashAssumption
    <3>3. data \in Seq(Bytes) /\ Len(data) = n
      BY <3>1, <3>2
    <3>4. Len(<<>>) = 0
      BY EmptySeq
    <3> QED
      BY <3>2, <3>3, <3>4
  <2>4. raw \in Seq(Bytes) /\ Taken(acc, raw)
    BY <1>2 DEF TailInv
  <2>5. Taken(Append_(acc, files, data)[1], raw \o data) /\ Append_(acc, files, data)[1].finished = acc.finished
    BY <2>1, <2>3, <2>4, AppendingTakes
  <2>6. Taken(acc, raw)' /\ ~acc'.finished
    <3>1. Taken(acc', raw')
      BY <2>1, <2>5
    <3>2. Taken(acc, raw)' = Taken(acc', raw')
      BY DEF Taken, Follows
    <3> QED
      BY <1>2, <2>1, <2>5, <3>1, <3>2
  <2>7. raw' \in Seq(Bytes)
    BY <2>1, <2>3, <2>4, ConcatProperties
  <2>8. answer.status \notin Ran
    BY <1>2 DEF TailInv
  <2>9. bash' = bash
    BY <2>1
  <2> QED
    BY <2>2, <2>6, <2>7, <2>8, <2>9 DEF TailInv
<1> QED
  BY <1>1, <1>2

LEMMA TailKeeps == TailInv /\ BashNext => TailInv'
<1> SUFFICES ASSUME TailInv, BashNext PROVE TailInv'
  OBVIOUS
<1>1. CASE Precheck
  <2>1. bash' = "done" /\ UNCHANGED <<raw, acc>> /\ answer'.status = "precheck"
    BY <1>1 DEF Precheck, NoAnswer
  <2>2. answer'.status \notin Ran
    BY <2>1 DEF Ran
  <2> QED
    BY <2>1, <2>2, TailStays
<1>2. CASE Execute
  BY <1>2, TailStays DEF Execute
<1>3. CASE Data
  BY <1>3, DataTaken
<1>4. CASE Timeout
  BY <1>4, TailStays DEF Timeout
<1>5. CASE ExitLocal
  <2>1. bash = "running" /\ UNCHANGED <<kind, raw>> /\ \E result : Settle(result)
    BY <1>5 DEF ExitLocal
  <2> QED
    BY <2>1, SettlingShows
<1>6. CASE CloseVm
  <2>1. bash = "running" /\ UNCHANGED <<kind, raw>>
    BY <1>6 DEF CloseVm
  <2>2. PICK code \in ExitCodes \cup {124, 255} :
       /\ child.timedOut => code \in {124, 255}
       /\ LET result == IF code = 255 THEN Rejected
                        ELSE IF code = 124 THEN Result(-1, TRUE) ELSE Result(code, FALSE)
          IN  /\ Settle(result)
              /\ child' = [child EXCEPT !.alive = FALSE, !.pipe = FALSE, !.result = result]
    BY <1>6 DEF CloseVm
  <2> DEFINE result == IF code = 255 THEN Rejected
                       ELSE IF code = 124 THEN Result(-1, TRUE) ELSE Result(code, FALSE)
  <2>3. Settle(result)
    BY <2>2
  <2> HIDE DEF result
  <2> QED
    BY <2>1, <2>3, SettlingShows
<1>7. CASE SpawnError
  <2>1. bash = "running" /\ UNCHANGED <<kind, raw>> /\ Settle(Rejected)
    BY <1>7 DEF SpawnError
  <2> QED
    BY <2>1, SettlingShows
<1>8. CASE PipesClose
  BY <1>8, TailStays DEF PipesClose
<1>9. CASE Return
  BY <1>9, TailStays DEF Return
<1> QED
  BY <1>1, <1>2, <1>3, <1>4, <1>5, <1>6, <1>7, <1>8, <1>9 DEF BashNext

LEMMA TailRests == TailInv /\ UNCHANGED bashVars => TailInv'
BY TailStays DEF bashVars

-----------------------------------------------------------------------------
(* Editing.  The matches are applied from the last to the first; Together  *)
(* says what a set of matches makes of the text at once, and adding the    *)
(* first match to a set is one replacement (FirstAdded).                   *)

\* Counting up reaches every number.
LEMMA CountUp ==
  ASSUME NEW a \in Nat, NEW n \in Nat, NEW P, a \in P, \A k \in a .. n - 1 : k \in P => k + 1 \in P
  PROVE  \A k \in a .. n : k \in P
<1> DEFINE Left == {k \in a .. n : k \notin P}
<1>1. SUFFICES ASSUME Left # {} PROVE FALSE
  OBVIOUS
<1>2. Left \in SUBSET Nat
  OBVIOUS
<1>3. PICK m \in Left : \A k \in Left : m <= k
  <2> HIDE DEF Left
  <2> QED
    BY <1>1, <1>2, LeastNumber
<1>4. m \in a .. n /\ m \notin P /\ m # a
  OBVIOUS
<1>5. m - 1 \in a .. n - 1 /\ m - 1 + 1 = m
  BY <1>4
<1>6. m - 1 \in P
  BY <1>3, <1>4, <1>5
<1> QED
  BY <1>4, <1>5, <1>6

\* f[k] is what the first k pieces of s amount to.
Joins(T, f, s) ==
  /\ f \in [0 .. Len(s) -> Seq(T)]
  /\ f[0] = <<>>
  /\ \A k \in 1 .. Len(s) : f[k] = f[k - 1] \o s[k]

\* There are partial joins of every sequence of texts.
LEMMA JoinsExists ==
  ASSUME NEW T, NEW s \in Seq(Seq(T))
  PROVE  \E f : Joins(T, f, s)
<1> DEFINE n == Len(s)
           Good(k, f) == /\ f \in [0 .. k -> Seq(T)] /\ f[0] = <<>>
                         /\ \A i \in 1 .. k : f[i] = f[i - 1] \o s[i]
           P == {k \in 0 .. n : \E f \in [0 .. k -> Seq(T)] : Good(k, f)}
<1>1. n \in Nat /\ \A k \in 1 .. n : s[k] \in Seq(T)
  BY LenProperties, ElementOfSeq
<1> HIDE DEF n
<1>2. 0 \in P
  <2>1. [k \in 0 .. 0 |-> <<>>] \in [0 .. 0 -> Seq(T)] /\ Good(0, [k \in 0 .. 0 |-> <<>>])
    <3>1. <<>> \in Seq(T)
      BY EmptySeq
    <3> QED
      BY <3>1
  <2>2. \E f \in [0 .. 0 -> Seq(T)] : Good(0, f)
    <3> HIDE DEF Good
    <3> QED
      BY <2>1
  <2>3. 0 \in 0 .. n
    BY <1>1
  <2> HIDE DEF Good
  <2> QED
    BY <2>2, <2>3
<1>3. ASSUME NEW k \in 0 .. n - 1, k \in P PROVE k + 1 \in P
  <2>1. PICK f \in [0 .. k -> Seq(T)] : Good(k, f)
    BY <1>3
  <2>2. k \in Nat /\ k + 1 \in 0 .. n /\ k + 1 \in 1 .. n
    BY <1>1
  <2> DEFINE g == [i \in 0 .. k + 1 |-> IF i <= k THEN f[i] ELSE f[k] \o s[k + 1]]
  <2>3. f[k] \o s[k + 1] \in Seq(T)
    BY <1>1, <2>1, <2>2, ConcatProperties
  <2>4. g \in [0 .. k + 1 -> Seq(T)]
    BY <2>1, <2>2, <2>3
  <2>5. g[0] = <<>>
    BY <2>1, <2>2
  <2>6. ASSUME NEW i \in 1 .. k + 1 PROVE g[i] = g[i - 1] \o s[i]
    <3>1. CASE i <= k
      <4>1. g[i] = f[i] /\ g[i - 1] = f[i - 1] /\ i \in 1 .. k
        BY <2>2, <3>1
      <4> QED
        BY <2>1, <4>1
    <3>2. CASE ~(i <= k)
      <4>1. i = k + 1 /\ i - 1 = k /\ i \in 0 .. k + 1 /\ i - 1 \in 0 .. k + 1
        BY <2>2, <3>2
      <4>2. g[i] = f[k] \o s[k + 1]
        BY <3>2, <4>1
      <4>3. g[i - 1] = f[k]
        BY <4>1
      <4> QED
        BY <4>1, <4>2, <4>3
    <3> QED
      BY <3>1, <3>2
  <2> HIDE DEF g
  <2>7. Good(k + 1, g)
    BY <2>4, <2>5, <2>6
  <2> QED
    BY <2>2, <2>4, <2>7
<1>4. n \in P
  <2> HIDE DEF P
  <2>1. \A k \in 0 .. n : k \in P
    BY <1>1, <1>2, <1>3, CountUp
  <2> QED
    BY <1>1, <2>1
<1>5. PICK f : Good(n, f)
  BY <1>4
<1> QED
  BY <1>5 DEF Joins, n

\* Joining a sequence of texts is what the last of the partial joins says.
LEMMA FlattenIs ==
  ASSUME NEW T, NEW s \in Seq(Seq(T)), NEW f, Joins(T, f, s)
  PROVE  FlattenSeq(s) = f[Len(s)] /\ FlattenSeq(s) \in Seq(T)
<1> DEFINE n == Len(s)
           F(g) == [i \in 1 .. n |-> IF i = 1 THEN s[i] ELSE g[i - 1] \o s[i]]
           g == CHOOSE g : g = F(g)
           P == {k \in 1 .. n : g[k] = f[k]}
<1>1. n \in Nat /\ \A k \in 1 .. n : s[k] \in Seq(T)
  BY LenProperties, ElementOfSeq
<1>2. f \in [0 .. n -> Seq(T)] /\ f[0] = <<>> /\ \A k \in 1 .. n : f[k] = f[k - 1] \o s[k]
  BY DEF Joins
<1>3. f[n] \in Seq(T)
  BY <1>1, <1>2
<1>4. CASE n = 0
  <2>1. s = <<>>
    BY <1>4, EmptySeq
  <2> QED
    BY <1>2, <1>3, <1>4, <2>1 DEF FlattenSeq
<1>5. CASE n # 0
  <2>1. FlattenSeq(s) = g[n]
    BY <1>5 DEF FlattenSeq
  <2>2. n >= 1
    BY <1>1, <1>5
  <2> HIDE DEF n
  <2>3. f[1] = s[1]
    <3>1. 1 \in 1 .. n /\ 1 - 1 = 0
      BY <1>1, <2>2
    <3>2. <<>> \o s[1] = s[1]
      BY <1>1, <3>1, ConcatEmptySeq
    <3> QED
      BY <1>2, <3>1, <3>2
  <2>4. g = F(g)
    <3> DEFINE h == [i \in 1 .. n |-> f[i]]
    <3>1. ASSUME NEW i \in 1 .. n PROVE h[i] = IF i = 1 THEN s[i] ELSE h[i - 1] \o s[i]
      <4>1. CASE i = 1
        BY <2>3, <4>1
      <4>2. CASE i # 1
        <5>1. i - 1 \in 1 .. n
          BY <1>1, <4>2
        <5> QED
          BY <1>2, <4>2, <5>1
      <4> QED
        BY <4>1, <4>2
    <3>2. h = F(h)
      <4>1. h = [i \in 1 .. n |-> h[i]]
        OBVIOUS
      <4> HIDE DEF h
      <4> QED
        BY <3>1, <4>1
    <3>3. \E x : x = F(x)
      BY <3>2
    <3> HIDE DEF F
    <3> QED
      BY <3>3
  <2> HIDE DEF g
  <2>5. 1 \in P
    BY <1>1, <2>2, <2>3, <2>4
  <2>6. ASSUME NEW k \in 1 .. n - 1, k \in P PROVE k + 1 \in P
    <3> DEFINE m == k + 1
    <3>1. m \in 1 .. n /\ m # 1 /\ m - 1 = k
      BY <1>1
    <3> HIDE DEF m
    <3>2. g[m] = g[m - 1] \o s[m]
      BY <2>4, <3>1
    <3>3. f[m] = f[m - 1] \o s[m]
      BY <1>2, <3>1
    <3>4. g[m] = f[m]
      BY <2>6, <3>1, <3>2, <3>3
    <3> QED
      BY <3>1, <3>4 DEF m
  <2>7. n \in P
    <3> HIDE DEF P
    <3>1. \A k \in 1 .. n : k \in P
      BY <1>1, <2>2, <2>5, <2>6, CountUp
    <3> QED
      BY <1>1, <2>2, <3>1
  <2> QED
    BY <1>3, <2>1, <2>7 DEF n
<1> QED
  BY <1>4, <1>5

\* From the a-th piece to the n-th, both are continued by the same text.
GoOnAlike(T, f, g, a, n) == \E r \in Seq(T) : f[n] = f[a] \o r /\ g[n] = g[a] \o r

\* Where the pieces are the same, what is joined grows by the same text.
LEMMA JoinsAlike ==
  ASSUME NEW T, NEW s \in Seq(Seq(T)), NEW t \in Seq(Seq(T)), NEW f, NEW g, Joins(T, f, s), Joins(T, g, t),
         Len(s) = Len(t), NEW a \in 0 .. Len(s), NEW n \in a .. Len(s), \A k \in a + 1 .. n : s[k] = t[k]
  PROVE  GoOnAlike(T, f, g, a, n)
<1> DEFINE N == Len(s)
           P == {k \in a .. n : \E r \in Seq(T) : f[k] = f[a] \o r /\ g[k] = g[a] \o r}
<1>1. N \in Nat /\ a \in Nat /\ n \in Nat /\ a <= n /\ n <= N /\ \A k \in 1 .. N : s[k] \in Seq(T)
  <2>1. N \in Nat /\ \A k \in 1 .. N : s[k] \in Seq(T)
    BY LenProperties, ElementOfSeq
  <2> QED
    BY <2>1
<1>2. /\ f \in [0 .. N -> Seq(T)] /\ \A k \in 1 .. N : f[k] = f[k - 1] \o s[k]
      /\ g \in [0 .. N -> Seq(T)] /\ \A k \in 1 .. N : g[k] = g[k - 1] \o t[k]
  BY DEF Joins
<1>3. \A k \in a + 1 .. n : s[k] = t[k]
  OBVIOUS
<1> HIDE DEF N
<1>4. f[a] \in Seq(T) /\ g[a] \in Seq(T)
  BY <1>1, <1>2
<1>5. a \in P
  <2>1. <<>> \in Seq(T) /\ f[a] = f[a] \o <<>> /\ g[a] = g[a] \o <<>>
    BY <1>4, EmptySeq, ConcatEmptySeq
  <2>2. \E r \in Seq(T) : f[a] = f[a] \o r /\ g[a] = g[a] \o r
    BY ONLY <2>1, Zenon
  <2>3. a \in a .. n
    BY <1>1
  <2> QED
    BY <2>2, <2>3
<1>6. ASSUME NEW k \in a .. n - 1, k \in P PROVE k + 1 \in P
  <2> DEFINE m == k + 1
  <2>1. m \in 1 .. N /\ m \in a + 1 .. n /\ m \in a .. n /\ m - 1 = k
    BY <1>1
  <2> HIDE DEF m
  <2>2. PICK r \in Seq(T) : f[k] = f[a] \o r /\ g[k] = g[a] \o r
    BY <1>6
  <2>3. s[m] = t[m] /\ s[m] \in Seq(T)
    BY <1>1, <1>3, <2>1
  <2>4. f[m] = f[m - 1] \o s[m] /\ g[m] = g[m - 1] \o t[m]
    BY <1>2, <2>1
  <2>5. f[m] = (f[a] \o r) \o s[m] /\ g[m] = (g[a] \o r) \o s[m]
    BY <2>1, <2>2, <2>3, <2>4
  <2>6. r \o s[m] \in Seq(T) /\ f[m] = f[a] \o (r \o s[m]) /\ g[m] = g[a] \o (r \o s[m])
    <3>1. r \o s[m] \in Seq(T)
      BY <2>3, ConcatProperties
    <3> DEFINE x == f[a]  y == g[a]  z == s[m]
    <3>4. x \in Seq(T) /\ y \in Seq(T) /\ z \in Seq(T) /\ r \in Seq(T)
      BY <1>4, <2>2, <2>3
    <3> HIDE DEF x, y, z
    <3>5. (x \o r) \o z = x \o (r \o z)
      <4>1. Regroups(x, r, z)
        BY ONLY <3>4, Regroup
      <4> QED
        BY ONLY <4>1 DEF Regroups
    <3>6. (y \o r) \o z = y \o (r \o z)
      <4>1. Regroups(y, r, z)
        BY ONLY <3>4, Regroup
      <4> QED
        BY ONLY <4>1 DEF Regroups
    <3> QED
      BY <2>5, <3>1, <3>5, <3>6 DEF x, y, z
  <2>7. m \in P
    BY <2>1, <2>6
  <2> QED
    BY <2>7 DEF m
<1>7. \A k \in a .. n : k \in P
  <2> HIDE DEF P
  <2> QED
    BY <1>1, <1>5, <1>6, CountUp
<1>8. n \in P
  <2> HIDE DEF P
  <2> QED
    BY <1>1, <1>7
<1> QED
  BY <1>8 DEF GoOnAlike

LEMMA JoinsBefore ==
  ASSUME NEW T, NEW s \in Seq(Seq(T)), NEW t \in Seq(Seq(T)), NEW f, NEW g, Joins(T, f, s), Joins(T, g, t),
         Len(s) = Len(t), NEW n \in 0 .. Len(s), \A k \in 1 .. n : s[k] = t[k]
  PROVE  f[n] = g[n]
<1> DEFINE a == 0
<1>1. a \in 0 .. Len(s) /\ n \in a .. Len(s) /\ \A k \in a + 1 .. n : s[k] = t[k]
  <2>1. Len(s) \in Nat /\ 0 + 1 = 1
    BY LenProperties
  <2> QED
    BY <2>1
<1> HIDE DEF a
<1>2. PICK r \in Seq(T) : f[n] = f[a] \o r /\ g[n] = g[a] \o r
  <2>1. GoOnAlike(T, f, g, a, n)
    BY <1>1, JoinsAlike
  <2> QED
    BY <2>1 DEF GoOnAlike
<1>3. f[a] = g[a]
  BY DEF Joins, a
<1> QED
  BY <1>2, <1>3

\* From a to n nothing is added.
Stays(f, a, n) == f[n] = f[a]

\* Empty pieces add nothing.
LEMMA JoinsNothing ==
  ASSUME NEW T, NEW s \in Seq(Seq(T)), NEW f, Joins(T, f, s),
         NEW a \in 0 .. Len(s), NEW n \in a .. Len(s), \A k \in a + 1 .. n : s[k] = <<>>
  PROVE  Stays(f, a, n)
<1> DEFINE N == Len(s)
           P == {k \in a .. n : f[k] = f[a]}
<1>1. N \in Nat /\ a \in Nat /\ n \in Nat /\ a <= n /\ n <= N
  <2>1. N \in Nat
    BY LenProperties
  <2> QED
    BY <2>1
<1>2. f \in [0 .. N -> Seq(T)] /\ \A k \in 1 .. N : f[k] = f[k - 1] \o s[k]
  BY DEF Joins
<1>3. \A k \in a + 1 .. n : s[k] = <<>>
  OBVIOUS
<1> HIDE DEF N
<1>4. f[a] \in Seq(T)
  BY <1>1, <1>2
<1>5. a \in P
  BY <1>1
<1>6. ASSUME NEW k \in a .. n - 1, k \in P PROVE k + 1 \in P
  <2> DEFINE m == k + 1
  <2>1. m \in 1 .. N /\ m \in a + 1 .. n /\ m \in a .. n /\ m - 1 = k
    BY <1>1
  <2> HIDE DEF m
  <2>2. f[m] = f[m - 1] \o s[m] /\ s[m] = <<>> /\ f[k] = f[a]
    BY <1>2, <1>3, <1>6, <2>1
  <2>3. f[m] = f[a] \o <<>>
    BY <2>1, <2>2
  <2>4. f[m] = f[a]
    BY <1>4, <2>3, ConcatEmptySeq
  <2> QED
    BY <2>1, <2>4 DEF m
<1>7. \A k \in a .. n : k \in P
  <2> HIDE DEF P
  <2> QED
    BY <1>1, <1>5, <1>6, CountUp
<1>8. n \in P
  <2> HIDE DEF P
  <2> QED
    BY <1>1, <1>7
<1> QED
  BY <1>8 DEF Stays

IsFront(s, base, n) == s = SubSeq(base, 1, n)

\* Pieces of one element each are the text they were taken from.
LEMMA JoinsSingles ==
  ASSUME NEW T, NEW s \in Seq(Seq(T)), NEW f, Joins(T, f, s), NEW base \in Seq(T),
         NEW n \in 0 .. Len(s), n <= Len(base), \A k \in 1 .. n : s[k] = <<base[k]>>
  PROVE  IsFront(f[n], base, n)
<1> DEFINE N == Len(s)
           P == {k \in 0 .. n : f[k] = SubSeq(base, 1, k)}
<1>1. N \in Nat /\ n \in Nat /\ n <= N /\ Len(base) \in Nat /\ n <= Len(base)
  <2>1. N \in Nat /\ Len(base) \in Nat
    BY LenProperties
  <2> QED
    BY <2>1
<1>2. f \in [0 .. N -> Seq(T)] /\ f[0] = <<>> /\ \A k \in 1 .. N : f[k] = f[k - 1] \o s[k]
  BY DEF Joins
<1>3. \A k \in 1 .. n : s[k] = <<base[k]>>
  OBVIOUS
<1> HIDE DEF N
<1>4. 0 \in P
  <2>1. SubSeq(base, 1, 0) = <<>>
    BY SubSeqEmpty
  <2> QED
    BY <1>1, <1>2, <2>1
<1>5. ASSUME NEW k \in 0 .. n - 1, k \in P PROVE k + 1 \in P
  <2> DEFINE m == k + 1
  <2>1. m \in 1 .. N /\ m \in 1 .. n /\ m \in 0 .. n /\ m - 1 = k /\ 1 \in 1 .. Len(base) /\ m \in 1 .. Len(base)
    BY <1>1
  <2> HIDE DEF m
  <2>2. f[m] = f[m - 1] \o s[m] /\ s[m] = <<base[m]>> /\ f[k] = SubSeq(base, 1, k)
    BY <1>2, <1>3, <1>5, <2>1
  <2>3. SubSeq(base, 1, m) = SubSeq(base, 1, m - 1) \o <<base[m]>>
    BY <2>1, SubSeqRecursiveSecond
  <2>4. f[m] = SubSeq(base, 1, m)
    BY <2>1, <2>2, <2>3
  <2> QED
    BY <2>1, <2>4 DEF m
<1>6. \A k \in 0 .. n : k \in P
  <2> HIDE DEF P
  <2> QED
    BY <1>1, <1>4, <1>5, CountUp
<1>7. n \in P
  <2> HIDE DEF P
  <2> QED
    BY <1>1, <1>6
<1> QED
  BY <1>7 DEF IsFront

\* The new texts of the edits in S whose matches start at p.
Started(new, match, S, p) == [i \in DOMAIN new |-> IF i \in S /\ match[i].index = p THEN new[i] ELSE <<>>]

\* The character at p, unless a match of S covers it.
Kept(base, match, S, p) ==
  IF (\E i \in S : match[i].index <= p /\ p < match[i].index + match[i].length) \/ p > Len(base)
  THEN <<>> ELSE <<base[p]>>

\* What all matches of S at once make of the text, position by position.
Pieces(base, new, match, S) ==
  [p \in 1 .. Len(base) + 1 |-> FlattenSeq(Started(new, match, S, p)) \o Kept(base, match, S, p)]

Together(base, new, match, S) == FlattenSeq(Pieces(base, new, match, S))

\* Matches in the text that do not overlap, each with the text to put in its place.
Matching(T, base, new, match) ==
  /\ base \in Seq(T) /\ new \in Seq(Seq(T))
  /\ \A i \in DOMAIN new : /\ match[i].index \in 1 .. Len(base) + 1 /\ match[i].length \in Nat
                           /\ match[i].index + match[i].length <= Len(base) + 1
  /\ \A i, j \in DOMAIN new : i # j /\ Precedes(match, i, j) => match[i].index + match[i].length <= match[j].index

\* The texts that start at a place are texts.
LEMMA StartedIs ==
  ASSUME NEW T, NEW new \in Seq(Seq(T)), NEW match, NEW S, NEW p
  PROVE  /\ Started(new, match, S, p) \in Seq(Seq(T)) /\ Len(Started(new, match, S, p)) = Len(new)
         /\ FlattenSeq(Started(new, match, S, p)) \in Seq(T)
<1> DEFINE s == Started(new, match, S, p)
<1>1. Len(new) \in Nat /\ DOMAIN new = 1 .. Len(new) /\ \A i \in 1 .. Len(new) : new[i] \in Seq(T)
  BY LenProperties, ElementOfSeq
<1>2. s \in Seq(Seq(T)) /\ Len(s) = Len(new)
  <2>1. <<>> \in Seq(T)
    BY EmptySeq
  <2>2. s \in [1 .. Len(new) -> Seq(T)]
    BY <1>1, <2>1 DEF Started
  <2> DEFINE n == Len(new)  U == Seq(T)
  <2>3. n \in Nat /\ s \in [1 .. n -> U]
    BY ONLY <1>1, <2>2
  <2> HIDE DEF s, n, U
  <2>4. s \in Seq(U) /\ Len(s) = n
    BY ONLY <2>3
  <2> QED
    BY ONLY <2>4 DEF n, U
<1> HIDE DEF s
<1>3. PICK f : Joins(T, f, s)
  BY <1>2, JoinsExists
<1>4. FlattenSeq(s) \in Seq(T)
  BY <1>2, <1>3, FlattenIs
<1> QED
  BY <1>2, <1>4 DEF s

\* Where no match starts nothing is put.
LEMMA StartedNothing ==
  ASSUME NEW T, NEW new \in Seq(Seq(T)), NEW match, NEW S, NEW p,
         \A i \in DOMAIN new : i \in S => match[i].index # p
  PROVE  FlattenSeq(Started(new, match, S, p)) = <<>>
<1> DEFINE s == Started(new, match, S, p)  n == Len(s)  a == 0
<1>1. s \in Seq(Seq(T))
  BY StartedIs
<1>2. n \in Nat /\ DOMAIN s = 1 .. n
  BY <1>1, LenProperties
<1>3. \A k \in DOMAIN s : s[k] = <<>>
  BY DEF Started
<1> HIDE DEF s
<1>4. PICK f : Joins(T, f, s)
  BY <1>1, JoinsExists
<1>5. a \in 0 .. n /\ n \in a .. n /\ \A k \in a + 1 .. n : s[k] = <<>>
  <2>1. \A k \in 1 .. n : s[k] = <<>>
    BY <1>2, <1>3
  <2> HIDE DEF n
  <2> QED
    BY <1>2, <2>1
<1>6. f[n] = f[a]
  <2>1. s \in Seq(Seq(T)) /\ a \in 0 .. Len(s) /\ n \in a .. Len(s)
    BY <1>1, <1>5
  <2> HIDE DEF a, n
  <2>2. Stays(f, a, n)
    BY ONLY <1>4, <1>5, <2>1, JoinsNothing
  <2> QED
    BY ONLY <2>2 DEF Stays
<1>7. FlattenSeq(s) = f[n]
  BY <1>1, <1>4, FlattenIs
<1>8. f[a] = <<>>
  BY <1>4 DEF Joins
<1> QED
  BY <1>6, <1>7, <1>8 DEF s

IsBoth(s, x, y) == s = x \o y

\* Of the edits that start at the same place the first comes first.
LEMMA StartedFirst ==
  ASSUME NEW T, NEW new \in Seq(Seq(T)), NEW match, NEW S, NEW i \in DOMAIN new, i \in S,
         NEW p \in Nat, p = match[i].index, \A j \in S : Precedes(match, i, j),
         NEW M, M = S \ {i}
  PROVE  IsBoth(FlattenSeq(Started(new, match, S, p)), new[i], FlattenSeq(Started(new, match, M, p)))
<1> DEFINE n == Len(new)
           s == Started(new, match, M, p)  t == Started(new, match, S, p)
           a == 0  b == i - 1
<1>1. n \in Nat /\ DOMAIN new = 1 .. n /\ i \in 1 .. n /\ new[i] \in Seq(T)
  BY LenProperties, ElementOfSeq
<1>2. s \in Seq(Seq(T)) /\ t \in Seq(Seq(T)) /\ Len(s) = n /\ Len(t) = n
  BY StartedIs
<1>3. \A j \in 1 .. n : j <= i => s[j] = <<>>
  <2> TAKE j \in 1 .. n
  <2>1. SUFFICES ASSUME j <= i, j \in S \ {i}, match[j].index = p PROVE FALSE
    BY <1>1 DEF Started
  <2>2. Precedes(match, i, j) /\ j # i
    BY <2>1
  <2>3. i <= j \/ match[i].index < match[j].index
    BY <2>2 DEF Precedes
  <2>4. CASE match[i].index < match[j].index
    <3>1. match[i].index = match[j].index
      BY <2>1
    <3> QED
      BY <2>2, <2>3, <3>1, <2>1
  <2> QED
    BY <1>1, <2>1, <2>2, <2>3, <2>4
<1>4. \A j \in 1 .. n : j # i => s[j] = t[j]
  BY <1>1 DEF Started
<1>5. t[i] = new[i]
  BY <1>1 DEF Started
<1> HIDE DEF s, t, n
<1>6. PICK f : Joins(T, f, s)
  BY <1>2, JoinsExists
<1>7. PICK g : Joins(T, g, t)
  BY <1>2, JoinsExists
<1>8. f[i] = f[a]
  <2> DEFINE c == i
  <2>1. a \in 0 .. Len(s) /\ c \in a .. Len(s)
    BY <1>1, <1>2
  <2>2. \A k \in a + 1 .. c : s[k] = <<>>
    BY <1>1, <1>3
  <2>3. s \in Seq(Seq(T))
    BY <1>2
  <2> HIDE DEF a, c
  <2>4. Stays(f, a, c)
    BY ONLY <1>6, <2>1, <2>2, <2>3, JoinsNothing
  <2> QED
    BY ONLY <2>4 DEF Stays, c
<1>9. g[b] = g[a]
  <2>1. a \in 0 .. Len(t) /\ b \in a .. Len(t)
    BY <1>1, <1>2
  <2>2. \A k \in a + 1 .. b : t[k] = <<>>
    <3> TAKE k \in a + 1 .. b
    <3>1. k \in 1 .. n /\ k # i /\ k <= i
      BY <1>1
    <3> QED
      BY <1>3, <1>4, <3>1
  <2>3. t \in Seq(Seq(T))
    BY <1>2
  <2> HIDE DEF a, b
  <2>4. Stays(g, a, b)
    BY ONLY <1>7, <2>1, <2>2, <2>3, JoinsNothing
  <2> QED
    BY ONLY <2>4 DEF Stays
<1>10. f[a] = <<>> /\ g[a] = <<>> /\ g[i] = g[b] \o t[i]
  <2>1. i \in 1 .. Len(t)
    BY <1>1, <1>2
  <2> QED
    BY <1>6, <1>7, <2>1 DEF Joins
<1>11. g[i] = new[i]
  <2>1. <<>> \o new[i] = new[i]
    BY <1>1, ConcatEmptySeq
  <2> QED
    BY <1>5, <1>9, <1>10, <2>1
<1>12. GoOnAlike(T, f, g, i, n)
  <2>1. i \in 0 .. Len(s) /\ n \in i .. Len(s) /\ Len(s) = Len(t) /\ \A k \in i + 1 .. n : s[k] = t[k]
    BY <1>1, <1>2, <1>4
  <2> QED
    BY <1>2, <1>6, <1>7, <2>1, JoinsAlike
<1>13. PICK r \in Seq(T) : f[n] = f[i] \o r /\ g[n] = g[i] \o r
  BY <1>12 DEF GoOnAlike
<1>14. f[n] = r
  <2>1. <<>> \o r = r
    BY <1>13, ConcatEmptySeq
  <2> QED
    BY <1>8, <1>10, <1>13, <2>1
<1>15. FlattenSeq(s) = f[n] /\ FlattenSeq(t) = g[n]
  BY <1>2, <1>6, <1>7, FlattenIs
<1> QED
  BY <1>11, <1>13, <1>14, <1>15 DEF s, t, IsBoth

LEMMA PiecesAre ==
  ASSUME NEW T, NEW base \in Seq(T), NEW new \in Seq(Seq(T)), NEW match, NEW S
  PROVE  /\ Pieces(base, new, match, S) \in Seq(Seq(T)) /\ Len(Pieces(base, new, match, S)) = Len(base) + 1
         /\ \A p \in 1 .. Len(base) + 1 :
              Pieces(base, new, match, S)[p] = FlattenSeq(Started(new, match, S, p)) \o Kept(base, match, S, p)
<1> DEFINE N == Len(base)  s == Pieces(base, new, match, S)
           e(p) == FlattenSeq(Started(new, match, S, p)) \o Kept(base, match, S, p)
<1>1. N \in Nat /\ \A p \in 1 .. N : base[p] \in T
  BY LenProperties, ElementOfSeq
<1>2. \A p \in 1 .. N + 1 : Kept(base, match, S, p) \in Seq(T)
  <2> TAKE p \in 1 .. N + 1
  <2>1. <<>> \in Seq(T)
    BY EmptySeq
  <2>2. CASE p > N
    BY <2>1, <2>2 DEF Kept
  <2>3. CASE ~(p > N)
    <3>1. base[p] \in T
      BY <1>1, <2>3
    <3>2. <<base[p]>> \in Seq(T)
      BY <3>1
    <3> QED
      BY <2>1, <3>2 DEF Kept
  <2> QED
    BY <2>2, <2>3
<1>3. \A p \in 1 .. N + 1 : e(p) \in Seq(T)
  <2> TAKE p \in 1 .. N + 1
  <2> DEFINE x == FlattenSeq(Started(new, match, S, p))  y == Kept(base, match, S, p)
  <2>1. x \in Seq(T) /\ y \in Seq(T)
    BY <1>2, StartedIs
  <2> HIDE DEF x, y
  <2>2. x \o y \in Seq(T)
    BY <2>1, ConcatProperties
  <2> QED
    BY <2>2 DEF x, y
<1>4. s = [p \in 1 .. N + 1 |-> e(p)]
  BY DEF Pieces
<1> HIDE DEF e, N, s
<1>5. s \in [1 .. N + 1 -> Seq(T)]
  BY <1>3, <1>4
<1>6. s \in Seq(Seq(T)) /\ Len(s) = N + 1
  BY <1>1, <1>5
<1>7. \A p \in 1 .. N + 1 : s[p] = e(p)
  BY <1>4
<1> QED
  BY <1>6, <1>7 DEF s, e, N

\* Before the first match the text stays as it is.
LEMMA PieceBefore ==
  ASSUME NEW T, NEW base, NEW new, NEW match, Matching(T, base, new, match),
         NEW S \in SUBSET DOMAIN new, NEW p \in 1 .. Len(base), \A i \in S : p < match[i].index
  PROVE  Pieces(base, new, match, S)[p] = <<base[p]>>
<1> DEFINE N == Len(base)
<1>1. base \in Seq(T) /\ new \in Seq(Seq(T)) /\ \A i \in S : match[i].index \in 1 .. N + 1
  BY DEF Matching
<1>2. N \in Nat /\ base[p] \in T
  BY <1>1, LenProperties, ElementOfSeq
<1>3. \A i \in DOMAIN new : i \in S => match[i].index # p
  BY <1>1
<1>4. FlattenSeq(Started(new, match, S, p)) = <<>>
  BY <1>1, <1>3, StartedNothing
<1>5. Kept(base, match, S, p) = <<base[p]>>
  <2>1. ~(p > N)
    BY <1>2
  <2>2. ASSUME NEW i \in S, match[i].index <= p PROVE FALSE
    <3>1. match[i].index \in Int /\ p \in Int /\ p < match[i].index
      BY <1>1, <1>2
    <3> QED
      BY <2>2, <3>1
  <2> QED
    BY <2>1, <2>2 DEF Kept
<1>6. <<base[p]>> \in Seq(T)
  BY <1>2
<1>7. <<>> \o <<base[p]>> = <<base[p]>>
  BY <1>6, ConcatEmptySeq
<1>8. p \in 1 .. Len(base) + 1
  BY <1>2
<1>9. Pieces(base, new, match, S)[p] = FlattenSeq(Started(new, match, S, p)) \o Kept(base, match, S, p)
  <2>1. base \in Seq(T) /\ new \in Seq(Seq(T)) /\ p \in 1 .. Len(base) + 1
    BY <1>1, <1>8
  <2> QED
    BY ONLY <2>1, PiecesAre, SMTT(30)
<1> QED
  BY <1>4, <1>5, <1>7, <1>9

\* Without edits the text stays.
LEMMA TogetherNone ==
  ASSUME NEW T, NEW base, NEW new, NEW match, Matching(T, base, new, match)
  PROVE  Together(base, new, match, {}) = base
<1> DEFINE s == Pieces(base, new, match, {})  N == Len(base)
<1>1. base \in Seq(T) /\ new \in Seq(Seq(T))
  BY DEF Matching
<1>2. N \in Nat
  BY <1>1, LenProperties
<1>3. s \in Seq(Seq(T)) /\ Len(s) = N + 1
  BY <1>1, PiecesAre
<1>4. \A p \in 1 .. N : s[p] = <<base[p]>>
  BY PieceBefore
<1>5. s[N + 1] = <<>>
  <2> DEFINE m == N + 1
  <2>1. m \in 1 .. Len(base) + 1
    BY <1>2
  <2>2. s[m] = FlattenSeq(Started(new, match, {}, m)) \o Kept(base, match, {}, m)
    <3>1. base \in Seq(T) /\ new \in Seq(Seq(T)) /\ m \in 1 .. Len(base) + 1
      BY <1>1, <2>1
    <3> HIDE DEF m
    <3> QED
      BY ONLY <3>1, PiecesAre
  <2>3. FlattenSeq(Started(new, match, {}, m)) = <<>>
    BY <1>1, StartedNothing
  <2>4. Kept(base, match, {}, m) = <<>>
    BY <1>2 DEF Kept
  <2>5. <<>> \o <<>> = <<>>
    BY <1>1, EmptySeq, ConcatEmptySeq
  <2> QED
    BY <2>2, <2>3, <2>4, <2>5
<1> HIDE DEF s, N
<1>6. PICK f : Joins(T, f, s)
  BY <1>3, JoinsExists
<1>7. f[N] = SubSeq(base, 1, N)
  <2>1. N \in 0 .. Len(s) /\ N <= Len(base)
    BY <1>2, <1>3 DEF N
  <2>2. IsFront(f[N], base, N)
    BY <1>1, <1>3, <1>4, <1>6, <2>1, JoinsSingles
  <2> QED
    BY <2>2 DEF IsFront
<1>8. SubSeq(base, 1, N) = base
  BY <1>1, SubSeqFull DEF N
<1>9. f[N + 1] = f[N]
  <2> DEFINE a == N  n == N + 1
  <2>1. a \in 0 .. Len(s) /\ n \in a .. Len(s)
    BY <1>2, <1>3
  <2>2. \A k \in a + 1 .. n : s[k] = <<>>
    BY <1>2, <1>5
  <2>3. s \in Seq(Seq(T))
    BY <1>3
  <2> HIDE DEF a, n
  <2>4. Stays(f, a, n)
    BY ONLY <1>6, <2>1, <2>2, <2>3, JoinsNothing
  <2> QED
    BY ONLY <2>4 DEF Stays, a, n
<1>10. FlattenSeq(s) = f[N + 1]
  BY <1>3, <1>6, FlattenIs
<1> QED
  BY <1>7, <1>8, <1>9, <1>10 DEF Together, s

\* The match m reaches the end of w: replacing it leaves what follows w alone.
Replaced(w, y, x, m) == ReplaceMatch(w \o y, m, x) = (SubSeq(w, 1, m.index - 1) \o x) \o y

\* Replacing in the middle.
LEMMA ReplaceIs ==
  ASSUME NEW T, NEW w \in Seq(T), NEW y \in Seq(T), NEW x \in Seq(T), NEW m,
         m.index \in Nat \ {0}, m.length \in Nat, m.index + m.length = Len(w) + 1
  PROVE  Replaced(w, y, x, m)
<1> DEFINE a == m.index  l == m.length  t == w \o y
<1>1. /\ t \in Seq(T) /\ Len(t) = Len(w) + Len(y) /\ Len(w) \in Nat /\ Len(y) \in Nat
      /\ \A i \in 1 .. Len(w) + Len(y) : t[i] = IF i <= Len(w) THEN w[i] ELSE y[i - Len(w)]
  BY ConcatProperties
<1>2. a \in Nat \ {0} /\ l \in Nat /\ a + l = Len(w) + 1
  OBVIOUS
<1> HIDE DEF a, l, t
<1>5. Len(t) = Len(w) + Len(y) /\ Len(w) \in Nat /\ Len(y) \in Nat
  BY <1>1
<1>3. SubSeq(t, 1, a - 1) = SubSeq(w, 1, a - 1)
  <2>1. \A i \in 1 .. a - 1 : t[i] \in T /\ w[i] \in T /\ t[i] = w[i]
    <3> TAKE i \in 1 .. a - 1
    <3>1. i \in 1 .. Len(w) /\ i \in 1 .. Len(w) + Len(y) /\ i <= Len(w)
      BY <1>1, <1>2
    <3>2. w[i] \in T
      BY <3>1, ElementOfSeq
    <3> QED
      BY <1>1, <3>1, <3>2
  <2> DEFINE p == SubSeq(t, 1, a - 1)  q == SubSeq(w, 1, a - 1)
  <2>2. 1 \in Int /\ a - 1 \in Int
    BY <1>2
  <2>3. p \in Seq(T) /\ Len(p) = (IF 1 <= a - 1 THEN a - 1 - 1 + 1 ELSE 0) /\ \A i \in 1 .. a - 1 - 1 + 1 : p[i] = t[1 + i - 1]
    <3>1. 1 \in Int /\ a - 1 \in Int /\ \A i \in 1 .. a - 1 : t[i] \in T
      BY ONLY <2>1, <2>2
    <3> QED
      BY ONLY <3>1, SubSeqProperties
  <2>4. q \in Seq(T) /\ Len(q) = (IF 1 <= a - 1 THEN a - 1 - 1 + 1 ELSE 0) /\ \A i \in 1 .. a - 1 - 1 + 1 : q[i] = w[1 + i - 1]
    <3>1. 1 \in Int /\ a - 1 \in Int /\ \A i \in 1 .. a - 1 : w[i] \in T
      BY ONLY <2>1, <2>2
    <3> QED
      BY ONLY <3>1, SubSeqProperties
  <2> HIDE DEF p, q
  <2>5. Len(p) = a - 1 /\ Len(q) = a - 1 /\ \A i \in 1 .. a - 1 : p[i] = t[i] /\ q[i] = w[i]
    BY <1>2, <2>3, <2>4
  <2>6. \A i \in 1 .. Len(p) : p[i] = q[i]
    BY <2>1, <2>5
  <2>7. p = q
    BY <2>3, <2>4, <2>5, <2>6, SeqEqual, SMTT(30)
  <2> QED
    BY <2>7 DEF p, q
<1>4. SubSeq(t, a + l, Len(t)) = y
  <2>1. \A i \in a + l .. Len(t) : t[i] \in T
    BY <1>1, <1>2, ElementOfSeq
  <2> DEFINE p == SubSeq(t, a + l, Len(t))
  <2>2. a + l \in Int /\ Len(t) \in Int
    BY <1>1, <1>2
  <2>3. p \in Seq(T) /\ Len(p) = (IF a + l <= Len(t) THEN Len(t) - (a + l) + 1 ELSE 0)
        /\ \A i \in 1 .. Len(t) - (a + l) + 1 : p[i] = t[a + l + i - 1]
    BY ONLY <2>1, <2>2, SubSeqProperties
  <2> HIDE DEF p
  <2> DEFINE b == Len(w)  c == Len(y)  d == Len(t)
  <2>a. d = b + c /\ b \in Nat /\ c \in Nat /\ a \in Nat \ {0} /\ l \in Nat /\ a + l = b + 1
    BY <1>2, <1>5
  <2>4. Len(p) = Len(y)
    <3>1. Len(p) = IF a + l <= d THEN d - (a + l) + 1 ELSE 0
      BY <2>3
    <3> DEFINE e == Len(p)
    <3> HIDE DEF b, c, d, e
    <3>2. e = IF a + l <= d THEN d - (a + l) + 1 ELSE 0
      BY ONLY <3>1 DEF e
    <3>3. e = c
      BY ONLY <2>a, <3>2
    <3> QED
      BY ONLY <3>3 DEF e, c
  <2>5. ASSUME NEW i \in 1 .. Len(y) PROVE p[i] = y[i]
    <3> DEFINE k == Len(w) + i
    <3>1. k \in 1 .. Len(w) + Len(y) /\ ~(k <= Len(w)) /\ k - Len(w) = i /\ a + l + i - 1 = k
          /\ i \in 1 .. Len(t) - (a + l) + 1
      <4> HIDE DEF b, c, d
      <4>1. i \in 1 .. c
        BY DEF c
      <4>2. b + i \in 1 .. b + c /\ ~(b + i <= b) /\ (b + i) - b = i /\ a + l + i - 1 = b + i
        BY ONLY <2>a, <4>1
      <4>3. i \in 1 .. d - (a + l) + 1
        BY ONLY <2>a, <4>1
      <4> QED
        BY ONLY <4>2, <4>3 DEF b, c, d, k
    <3> HIDE DEF k
    <3>2. p[i] = t[k]
      BY <2>3, <3>1
    <3> QED
      BY <1>1, <3>1, <3>2
  <2>6. p = y
    BY <2>3, <2>4, <2>5, SeqEqual
  <2> QED
    BY <2>6 DEF p
<1> QED
  BY <1>3, <1>4 DEF Replaced, ReplaceMatch, a, l, t

\* The first match and the ones after it.
FirstOf(base, match, S, i) ==
  /\ i \in S /\ match[i].index \in 1 .. Len(base) + 1 /\ match[i].length \in Nat
  /\ match[i].index + match[i].length <= Len(base) + 1
  /\ \A j \in S : /\ Precedes(match, i, j) /\ match[j].index \in 1 .. Len(base) + 1
                  /\ match[i].index <= match[j].index
                  /\ j # i => match[i].index + match[i].length <= match[j].index

LEMMA FirstIs ==
  ASSUME NEW T, NEW base, NEW new, NEW match, Matching(T, base, new, match),
         NEW S \in SUBSET DOMAIN new, NEW i \in S, \A j \in S : Precedes(match, i, j)
  PROVE  FirstOf(base, match, S, i)
<1>1. \A j \in S : match[j].index \in 1 .. Len(base) + 1 /\ match[j].length \in Nat
                   /\ match[j].index + match[j].length <= Len(base) + 1
  BY DEF Matching
<1>2. \A j \in S : j # i => match[i].index + match[i].length <= match[j].index
  BY DEF Matching
<1>3. \A j \in S : match[i].index <= match[j].index
  <2> TAKE j \in S
  <2>1. match[i].index < match[j].index \/ match[i].index = match[j].index
    BY DEF Precedes
  <2>2. match[i].index \in Int /\ match[j].index \in Int
    BY <1>1
  <2> QED
    BY <2>1, <2>2
<1> QED
  BY <1>1, <1>2, <1>3 DEF FirstOf

\* Beyond the first match nothing depends on it, unless others start where it does.
LEMMA PieceAfter ==
  ASSUME NEW T, NEW base, NEW new, NEW match, Matching(T, base, new, match), NEW S \in SUBSET DOMAIN new,
         NEW i, FirstOf(base, match, S, i), NEW p \in 1 .. Len(base) + 1, p # match[i].index,
         match[i].index + match[i].length <= p, NEW M, M = S \ {i}
  PROVE  Pieces(base, new, match, S)[p] = Pieces(base, new, match, M)[p]
<1> DEFINE N == Len(base)
<1>1. base \in Seq(T) /\ new \in Seq(Seq(T)) /\ M \in SUBSET DOMAIN new
  BY DEF Matching
<1>2. match[i].index \in Int /\ match[i].length \in Nat /\ match[i].index + match[i].length <= p
  BY DEF FirstOf
<1>3. Started(new, match, S, p) = Started(new, match, M, p)
  BY DEF Started
<1>4. Kept(base, match, S, p) = Kept(base, match, M, p)
  <2>1. ~(p < match[i].index + match[i].length)
    <3>1. p \in Int
      BY <1>1, LenProperties
    <3> QED
      BY <1>2, <3>1
  <2>2. (\E j \in S : match[j].index <= p /\ p < match[j].index + match[j].length)
          <=> (\E j \in M : match[j].index <= p /\ p < match[j].index + match[j].length)
    BY <2>1
  <2> QED
    BY <2>2 DEF Kept
<1> HIDE DEF N
<1>5. Pieces(base, new, match, S)[p] = FlattenSeq(Started(new, match, S, p)) \o Kept(base, match, S, p)
  <2>1. base \in Seq(T) /\ new \in Seq(Seq(T)) /\ p \in 1 .. Len(base) + 1
    BY <1>1
  <2> QED
    BY ONLY <2>1, PiecesAre
<1>6. Pieces(base, new, match, M)[p] = FlattenSeq(Started(new, match, M, p)) \o Kept(base, match, M, p)
  <2>1. base \in Seq(T) /\ new \in Seq(Seq(T)) /\ p \in 1 .. Len(base) + 1
    BY <1>1
  <2> QED
    BY ONLY <2>1, PiecesAre
<1> QED
  BY <1>3, <1>4, <1>5, <1>6

\* What a match covers is gone.
LEMMA PieceInside ==
  ASSUME NEW T, NEW base, NEW new, NEW match, Matching(T, base, new, match), NEW S \in SUBSET DOMAIN new,
         NEW i, FirstOf(base, match, S, i), NEW p \in 1 .. Len(base) + 1,
         match[i].index < p, p < match[i].index + match[i].length
  PROVE  Pieces(base, new, match, S)[p] = <<>>
<1>1. base \in Seq(T) /\ new \in Seq(Seq(T))
  BY DEF Matching
<1>2. Pieces(base, new, match, S)[p] = FlattenSeq(Started(new, match, S, p)) \o Kept(base, match, S, p)
  <2>1. base \in Seq(T) /\ new \in Seq(Seq(T)) /\ p \in 1 .. Len(base) + 1
    BY <1>1
  <2> QED
    BY ONLY <2>1, PiecesAre
<1>3. \A j \in DOMAIN new : j \in S => match[j].index # p
  <2> SUFFICES ASSUME NEW j \in S, match[j].index = p PROVE FALSE
    OBVIOUS
  <2>1. p \in Int /\ match[i].index \in Int /\ match[i].length \in Nat
    BY <1>1, LenProperties DEF FirstOf
  <2>2. j # i => match[i].index + match[i].length <= match[j].index
    BY DEF FirstOf
  <2>3. match[i].index # match[j].index
    BY <2>1
  <2> QED
    BY <2>1, <2>2, <2>3
<1>4. FlattenSeq(Started(new, match, S, p)) = <<>>
  BY <1>1, <1>3, StartedNothing
<1>5. Kept(base, match, S, p) = <<>>
  <2>1. match[i].index <= p /\ i \in S
    <3>1. p \in Int /\ match[i].index \in Int /\ i \in S
      BY <1>1, LenProperties DEF FirstOf
    <3> QED
      BY <3>1
  <2> QED
    BY <2>1 DEF Kept
<1>6. <<>> \o <<>> = <<>>
  BY <1>1, EmptySeq, ConcatEmptySeq
<1> QED
  BY <1>2, <1>4, <1>5, <1>6

\* Where the first match starts: its new text, and what is there without it, if anything.
LEMMA PieceFirst ==
  ASSUME NEW T, NEW base, NEW new, NEW match, Matching(T, base, new, match), NEW S \in SUBSET DOMAIN new,
         NEW i, FirstOf(base, match, S, i), NEW M, M = S \ {i}
  PROVE  IsBoth(Pieces(base, new, match, S)[match[i].index], new[i],
                IF match[i].length = 0 THEN Pieces(base, new, match, M)[match[i].index] ELSE <<>>)
<1> DEFINE N == Len(base)  a == match[i].index  l == match[i].length
           x == new[i]  y == FlattenSeq(Started(new, match, M, a))
           k == Kept(base, match, S, a)  h == Kept(base, match, M, a)
<1>1. base \in Seq(T) /\ new \in Seq(Seq(T)) /\ M \in SUBSET DOMAIN new /\ i \in DOMAIN new
  BY DEF Matching, FirstOf
<1>2. a \in 1 .. N + 1 /\ l \in Nat /\ N \in Nat /\ a \in Nat
  <2>1. N \in Nat
    BY <1>1, LenProperties
  <2> QED
    BY <2>1 DEF FirstOf
<1>3. x \in Seq(T) /\ y \in Seq(T)
  <2>1. x \in Seq(T)
    BY <1>1, ElementOfSeq, LenProperties
  <2> QED
    BY <1>1, <2>1, StartedIs
<1>4. FlattenSeq(Started(new, match, S, a)) = x \o y
  <2>1. i \in S /\ (\A j \in S : Precedes(match, i, j)) /\ a = match[i].index /\ M = S \ {i}
    BY DEF FirstOf
  <2>2. a \in Nat /\ new \in Seq(Seq(T)) /\ i \in DOMAIN new
    BY <1>1, <1>2
  <2> HIDE DEF a
  <2>3. IsBoth(FlattenSeq(Started(new, match, S, a)), new[i], FlattenSeq(Started(new, match, M, a)))
    BY ONLY <2>1, <2>2, StartedFirst
  <2> QED
    BY <2>3 DEF x, y, IsBoth
<1>5. Pieces(base, new, match, S)[a] = (x \o y) \o k
  <2>1. Pieces(base, new, match, S)[a] = FlattenSeq(Started(new, match, S, a)) \o k
    <3>1. base \in Seq(T) /\ new \in Seq(Seq(T)) /\ a \in 1 .. Len(base) + 1
      BY <1>1, <1>2
    <3> HIDE DEF a
    <3> QED
      BY ONLY <3>1, PiecesAre DEF k
  <2> QED
    BY <1>4, <2>1
<1>6. Pieces(base, new, match, M)[a] = y \o h
  <2>1. base \in Seq(T) /\ new \in Seq(Seq(T)) /\ a \in 1 .. Len(base) + 1
    BY <1>1, <1>2
  <2> HIDE DEF a
  <2> QED
    BY ONLY <2>1, PiecesAre DEF y, h
<1>7. CASE l = 0
  <2>1. k = h
    <3>1. ~(a < a + l)
      BY <1>2, <1>7
    <3>2. (\E j \in S : match[j].index <= a /\ a < match[j].index + match[j].length)
            <=> (\E j \in M : match[j].index <= a /\ a < match[j].index + match[j].length)
      BY <3>1
    <3> QED
      BY <3>2 DEF Kept
  <2>2. h \in Seq(T)
    <3>1. <<>> \in Seq(T)
      BY EmptySeq
    <3>2. CASE a > N
      BY <3>1, <3>2 DEF Kept
    <3>3. CASE ~(a > N)
      <4>1. a \in 1 .. N
        BY <1>2, <3>3
      <4>2. base[a] \in T
        <5> HIDE DEF a
        <5> QED
          BY <1>1, <4>1, ElementOfSeq
      <4>3. <<base[a]>> \in Seq(T)
        BY <4>2
      <4> QED
        BY <3>1, <4>3 DEF Kept
    <3> QED
      BY <3>2, <3>3
  <2> HIDE DEF x, y, k, h
  <2>3. (x \o y) \o h = x \o (y \o h)
    <3>1. Regroups(x, y, h)
      BY ONLY <1>3, <2>2, Regroup
    <3> QED
      BY ONLY <3>1 DEF Regroups
  <2> QED
    BY <1>5, <1>6, <1>7, <2>1, <2>3 DEF x, IsBoth
<1>8. CASE l # 0
  <2>1. y = <<>>
    <3>1. \A j \in DOMAIN new : j \in M => match[j].index # a
      <4> SUFFICES ASSUME NEW j \in M, match[j].index = a PROVE FALSE
        OBVIOUS
      <4>1. a + l <= match[j].index
        BY DEF FirstOf
      <4> QED
        BY <1>2, <1>8, <4>1
    <3> HIDE DEF a
    <3> QED
      BY <1>1, <3>1, StartedNothing
  <2>2. k = <<>>
    <3>1. i \in S /\ a <= a /\ a < a + l
      BY <1>2, <1>8 DEF FirstOf
    <3> QED
      BY <3>1 DEF Kept
  <2>3. x \o <<>> = x
    BY <1>3, ConcatEmptySeq
  <2> HIDE DEF x, y, k
  <2>4. Pieces(base, new, match, S)[a] = x \o <<>>
    BY <1>5, <2>1, <2>2, <2>3
  <2> QED
    BY <1>8, <2>4 DEF x, IsBoth
<1> QED
  BY <1>7, <1>8

\* Replacing one match more, the first of them, in the text that the others give.
LEMMA FirstAdded ==
  ASSUME NEW T, NEW base, NEW new, NEW match, Matching(T, base, new, match), NEW S \in SUBSET DOMAIN new,
         NEW i, FirstOf(base, match, S, i), NEW M, M = S \ {i}
  PROVE  Together(base, new, match, S) = ReplaceMatch(Together(base, new, match, M), match[i], new[i])
<1> DEFINE N == Len(base)  n == N + 1  a == match[i].index  l == match[i].length  x == new[i]  q == a + l - 1  b == a - 1
           s == Pieces(base, new, match, M)  t == Pieces(base, new, match, S)
<1>1. base \in Seq(T) /\ new \in Seq(Seq(T)) /\ M \in SUBSET DOMAIN new /\ i \in DOMAIN new
  BY DEF Matching, FirstOf
<1>2. N \in Nat /\ n = N + 1 /\ a \in 1 .. N + 1 /\ l \in Nat /\ a + l <= N + 1 /\ q = a + l - 1 /\ b = a - 1
  <2>1. N \in Nat
    BY <1>1, LenProperties
  <2> QED
    BY <2>1 DEF FirstOf
<1>3. x \in Seq(T)
  BY <1>1, ElementOfSeq, LenProperties
<1>4. s \in Seq(Seq(T)) /\ Len(s) = n /\ t \in Seq(Seq(T)) /\ Len(t) = n
  BY <1>1, PiecesAre
<1>5. \A p \in 1 .. q : s[p] = <<base[p]>>
  <2> TAKE p \in 1 .. q
  <2>1. p \in 1 .. Len(base)
    BY <1>2
  <2>2. \A j \in M : p < match[j].index
    <3> TAKE j \in M
    <3>1. a + l <= match[j].index /\ match[j].index \in Int
      BY DEF FirstOf
    <3> QED
      BY <1>2, <3>1
  <2>3. M \in SUBSET DOMAIN new
    BY <1>1
  <2> QED
    BY ONLY Matching(T, base, new, match), <2>1, <2>2, <2>3, PieceBefore DEF s
<1>6. \A p \in 1 .. b : t[p] = <<base[p]>>
  <2> TAKE p \in 1 .. b
  <2>1. p \in 1 .. Len(base)
    BY <1>2
  <2>2. \A j \in S : p < match[j].index
    <3> TAKE j \in S
    <3>1. a <= match[j].index /\ match[j].index \in Int
      BY DEF FirstOf
    <3> QED
      BY <1>2, <3>1
  <2> QED
    BY <2>1, <2>2, PieceBefore
<1>7. \A p \in 1 .. n : p # a /\ q < p => s[p] = t[p]
  <2> SUFFICES ASSUME NEW p \in 1 .. n, p # a, q < p PROVE s[p] = t[p]
    OBVIOUS
  <2>1. p \in 1 .. Len(base) + 1 /\ p # match[i].index /\ match[i].index + match[i].length <= p
    BY <1>2
  <2> QED
    BY <2>1, PieceAfter
<1>8. \A p \in 1 .. n : a < p /\ p <= q => t[p] = <<>>
  <2> SUFFICES ASSUME NEW p \in 1 .. n, a < p, p <= q PROVE t[p] = <<>>
    OBVIOUS
  <2>1. p \in 1 .. Len(base) + 1 /\ match[i].index < p /\ p < match[i].index + match[i].length
    BY <1>2
  <2> QED
    BY <2>1, PieceInside
<1>9. IsBoth(t[a], x, IF l = 0 THEN s[a] ELSE <<>>)
  BY PieceFirst
<1>10. Together(base, new, match, S) = FlattenSeq(t) /\ Together(base, new, match, M) = FlattenSeq(s)
  BY DEF Together
<1>11. match[i].index = a /\ match[i].length = l
  OBVIOUS
<1> DEFINE m == match[i]
<1>12. m.index = a /\ m.length = l
  OBVIOUS
<1> HIDE DEF N, n, a, l, x, q, b, s, t, m
<1>13. PICK f : Joins(T, f, s)
  BY <1>4, JoinsExists
<1>14. PICK g : Joins(T, g, t)
  BY <1>4, JoinsExists
<1>15. FlattenSeq(s) = f[n] /\ FlattenSeq(t) = g[n]
  BY <1>4, <1>13, <1>14, FlattenIs
<1> DEFINE u == SubSeq(base, 1, b)  w == SubSeq(base, 1, q)
<1>16. f[q] = w /\ g[b] = u
  <2>1. q \in 0 .. Len(s) /\ q <= Len(base) /\ b \in 0 .. Len(t) /\ b <= Len(base)
    BY <1>2, <1>4 DEF N
  <2>4. s \in Seq(Seq(T)) /\ t \in Seq(Seq(T)) /\ base \in Seq(T)
    BY <1>1, <1>4
  <2>2. IsFront(f[q], base, q)
    BY ONLY <1>5, <1>13, <2>1, <2>4, JoinsSingles
  <2>3. IsFront(g[b], base, b)
    BY ONLY <1>6, <1>14, <2>1, <2>4, JoinsSingles
  <2> QED
    BY <2>2, <2>3 DEF IsFront
<1>17. u \in Seq(T) /\ w \in Seq(T) /\ Len(w) = q /\ SubSeq(w, 1, b) = u
  <2>1. \A k \in 1 .. q : base[k] \in T
    BY <1>1, <1>2, ElementOfSeq DEF N
  <2>2. q \in Int /\ b \in Int /\ 1 \in Int /\ b <= q
    BY <1>2
  <2>3. w \in Seq(T) /\ Len(w) = (IF 1 <= q THEN q - 1 + 1 ELSE 0) /\ \A k \in 1 .. q - 1 + 1 : w[k] = base[1 + k - 1]
    BY <2>1, <2>2, SubSeqProperties
  <2>4. \A k \in 1 .. b : base[k] \in T
    BY <2>1, <2>2
  <2>5. u \in Seq(T) /\ Len(u) = (IF 1 <= b THEN b - 1 + 1 ELSE 0) /\ \A k \in 1 .. b - 1 + 1 : u[k] = base[1 + k - 1]
    BY <2>2, <2>4, SubSeqProperties
  <2> DEFINE v == SubSeq(w, 1, b)
  <2> HIDE DEF u, w
  <2>6. Len(w) = q
    <3>1. Len(w) = IF 1 <= q THEN q - 1 + 1 ELSE 0
      BY <2>3
    <3> QED
      BY ONLY <1>2, <3>1
  <2>7. \A k \in 1 .. b : w[k] = base[k] /\ u[k] = base[k]
    <3> TAKE k \in 1 .. b
    <3>1. k \in 1 .. q - 1 + 1 /\ k \in 1 .. b - 1 + 1 /\ 1 + k - 1 = k
      BY <2>2
    <3> QED
      BY <2>3, <2>5, <3>1
  <2>8. v \in Seq(T) /\ Len(v) = (IF 1 <= b THEN b - 1 + 1 ELSE 0) /\ \A k \in 1 .. b - 1 + 1 : v[k] = w[1 + k - 1]
    <3>1. \A k \in 1 .. b : w[k] \in T
      BY <2>4, <2>7
    <3> QED
      BY <2>2, <3>1, SubSeqProperties
  <2> HIDE DEF v
  <2>9. v = u
    <3>1. Len(v) = Len(u)
      BY <2>5, <2>8
    <3>2. Len(u) = IF 1 <= b THEN b - 1 + 1 ELSE 0
      BY <2>5
    <3>3. \A k \in 1 .. Len(v) : v[k] = u[k]
      <4> TAKE k \in 1 .. Len(v)
      <4>1. k \in 1 .. b /\ k \in 1 .. b - 1 + 1 /\ 1 + k - 1 = k
        BY <2>2, <3>1, <3>2
      <4> QED
        BY <2>7, <2>8, <4>1
    <3> QED
      BY <2>5, <2>8, <3>1, <3>3, SeqEqual
  <2> QED
    BY <2>3, <2>5, <2>6, <2>9 DEF v
<1> HIDE DEF u, w
<1>18. \E y \in Seq(T) : IsBoth(f[n], w, y) /\ IsBoth(g[n], u \o x, y)
  <2>1. g[a] = g[b] \o t[a]
    <3>1. a \in 1 .. Len(t) /\ a - 1 = b
      BY <1>2, <1>4
    <3> QED
      BY <1>14, <3>1 DEF Joins
  <2>2. CASE l = 0
    <3>1. q = b
      BY <1>2, <2>2
    <3>2. f[a] = f[b] \o s[a]
      <4>1. a \in 1 .. Len(s) /\ a - 1 = b
        BY <1>2, <1>4
      <4> QED
        BY <1>13, <4>1 DEF Joins
    <3>3. GoOnAlike(T, f, g, a, n)
      <4>1. a \in 0 .. Len(s) /\ n \in a .. Len(s) /\ Len(s) = Len(t)
        BY <1>2, <1>4
      <4>2. \A p \in a + 1 .. n : s[p] = t[p]
        <5> TAKE p \in a + 1 .. n
        <5>1. p \in 1 .. n /\ p # a /\ q < p
          BY <1>2, <2>2
        <5> QED
          BY <1>7, <5>1
      <4> QED
        BY <1>4, <1>13, <1>14, <4>1, <4>2, JoinsAlike
    <3>4. PICK r \in Seq(T) : f[n] = f[a] \o r /\ g[n] = g[a] \o r
      BY <3>3 DEF GoOnAlike
    <3> DEFINE z == s[a]
    <3>5. z \in Seq(T)
      <4>1. a \in 1 .. Len(s)
        BY <1>2, <1>4
      <4> QED
        BY <1>4, <4>1, ElementOfSeq
    <3>6. t[a] = x \o z
      BY <1>9, <2>2 DEF IsBoth
    <3> HIDE DEF z
    <3>7. f[n] = (w \o z) \o r /\ g[n] = (u \o (x \o z)) \o r
      BY <1>16, <2>1, <3>1, <3>2, <3>4, <3>6 DEF z
    <3>8. z \o r \in Seq(T)
      BY <3>4, <3>5, ConcatProperties
    <3>9. (w \o z) \o r = w \o (z \o r)
      <4>1. Regroups(w, z, r)
        BY ONLY <1>17, <3>4, <3>5, Regroup
      <4> QED
        BY ONLY <4>1 DEF Regroups
    <3>10. (u \o (x \o z)) \o r = (u \o x) \o (z \o r)
      <4>1. u \o (x \o z) = (u \o x) \o z
        <5>1. Regroups(u, x, z)
          BY ONLY <1>3, <1>17, <3>5, Regroup
        <5> QED
          BY ONLY <5>1 DEF Regroups
      <4> DEFINE v == u \o x
      <4>2. v \in Seq(T)
        BY <1>3, <1>17, ConcatProperties
      <4> HIDE DEF v
      <4>3. (v \o z) \o r = v \o (z \o r)
        <5>1. Regroups(v, z, r)
          BY ONLY <4>2, <3>4, <3>5, Regroup
        <5> QED
          BY ONLY <5>1 DEF Regroups
      <4> QED
        BY <4>1, <4>3 DEF v
    <3> DEFINE y == z \o r
    <3>11. y \in Seq(T) /\ IsBoth(f[n], w, y) /\ IsBoth(g[n], u \o x, y)
      BY <3>7, <3>8, <3>9, <3>10 DEF IsBoth
    <3> HIDE DEF y
    <3> QED
      BY <3>11
  <2>3. CASE l # 0
    <3>1. t[a] = x
      <4>1. t[a] = x \o <<>>
        BY <1>9, <2>3 DEF IsBoth
      <4>2. x \o <<>> = x
        BY <1>3, ConcatEmptySeq
      <4> QED
        BY <4>1, <4>2
    <3>2. g[q] = g[a]
      <4>1. a \in 0 .. Len(t) /\ q \in a .. Len(t)
        BY <1>2, <1>4, <2>3
      <4>2. \A p \in a + 1 .. q : t[p] = <<>>
        <5> TAKE p \in a + 1 .. q
        <5>1. p \in 1 .. n /\ a < p /\ p <= q
          BY <1>2
        <5> QED
          BY <1>8, <5>1
      <4>3. t \in Seq(Seq(T)) /\ Joins(T, g, t)
        BY <1>4, <1>14
      <4> DEFINE h == a  r == q
      <4>4. /\ t \in Seq(Seq(T)) /\ Joins(T, g, t) /\ h \in 0 .. Len(t) /\ r \in h .. Len(t)
            /\ \A p \in h + 1 .. r : t[p] = <<>>
        BY ONLY <4>1, <4>2, <4>3
      <4> HIDE DEF a, q, t, h, r
      <4>5. Stays(g, h, r)
        BY ONLY <4>4, JoinsNothing
      <4> QED
        BY ONLY <4>5 DEF Stays, h, r
    <3>3. GoOnAlike(T, f, g, q, n)
      <4>1. q \in 0 .. Len(s) /\ n \in q .. Len(s) /\ Len(s) = Len(t)
        BY <1>2, <1>4
      <4>2. \A p \in q + 1 .. n : s[p] = t[p]
        <5> TAKE p \in q + 1 .. n
        <5>1. p \in 1 .. n /\ p # a /\ q < p
          BY <1>2, <2>3
        <5> QED
          BY <1>7, <5>1
      <4> QED
        BY <1>4, <1>13, <1>14, <4>1, <4>2, JoinsAlike
    <3>4. PICK r \in Seq(T) : f[n] = f[q] \o r /\ g[n] = g[q] \o r
      BY <3>3 DEF GoOnAlike
    <3>5. f[n] = w \o r /\ g[n] = (u \o x) \o r
      BY <1>16, <2>1, <3>1, <3>2, <3>4
    <3>6. r \in Seq(T) /\ IsBoth(f[n], w, r) /\ IsBoth(g[n], u \o x, r)
      BY <3>4, <3>5 DEF IsBoth
    <3> QED
      BY <3>6
  <2> QED
    BY <2>2, <2>3
<1>19. PICK y \in Seq(T) : IsBoth(f[n], w, y) /\ IsBoth(g[n], u \o x, y)
  BY <1>18
<1>20. ReplaceMatch(w \o y, m, x) = (SubSeq(w, 1, m.index - 1) \o x) \o y
  <2>1. m.index \in Nat \ {0} /\ m.length \in Nat /\ m.index + m.length = Len(w) + 1
    BY <1>2, <1>12, <1>17
  <2>2. w \in Seq(T) /\ x \in Seq(T) /\ y \in Seq(T)
    BY <1>3, <1>17, <1>19
  <2>3. Replaced(w, y, x, m)
    BY ONLY <2>1, <2>2, ReplaceIs
  <2> QED
    BY ONLY <2>3 DEF Replaced
<1>21. m.index - 1 = b
  BY <1>2, <1>12
<1>22. ReplaceMatch(f[n], m, x) = g[n]
  BY <1>17, <1>19, <1>20, <1>21 DEF IsBoth
<1> QED
  BY <1>10, <1>15, <1>22 DEF m, x

\* One of the matches comes first, though several may start at one place.
LEMMA FirstExists ==
  ASSUME NEW S \in SUBSET Nat, S # {}, NEW match, \A i \in S : match[i].index \in Nat
  PROVE  \E i \in S : \A j \in S : Precedes(match, i, j)
<1> DEFINE A == {match[i].index : i \in S}
<1>1. A \in SUBSET Nat /\ A # {}
  OBVIOUS
<1>2. PICK a \in A : \A x \in A : a <= x
  <2> HIDE DEF A
  <2> QED
    BY <1>1, LeastNumber
<1> DEFINE B == {i \in S : match[i].index = a}
<1>3. B \in SUBSET Nat /\ B # {}
  BY <1>2
<1>4. PICK i \in B : \A j \in B : i <= j
  <2> HIDE DEF B
  <2> QED
    BY <1>3, LeastNumber
<1>5. i \in S /\ match[i].index = a /\ a \in Nat
  BY <1>1, <1>2, <1>4
<1>6. ASSUME NEW j \in S PROVE Precedes(match, i, j)
  <2>1. a <= match[j].index /\ match[j].index \in Nat
    BY <1>2
  <2>2. CASE match[j].index = a
    <3>1. i <= j
      BY <1>4, <2>2
    <3> QED
      BY <1>5, <2>2, <3>1 DEF Precedes
  <2>3. CASE match[j].index # a
    <3>1. a < match[j].index
      BY <1>5, <2>1, <2>3
    <3> QED
      BY <1>5, <3>1 DEF Precedes
  <2> QED
    BY <2>2, <2>3
<1> QED
  BY <1>5, <1>6

\* Applied one after the other from the last to the first, the matches give what they give
\* at once, however many they are.
LEMMA AppliedTogether ==
  ASSUME NEW T, NEW base, NEW edits, NEW new, new = [i \in DOMAIN edits |-> edits[i].new], NEW match,
         Matching(T, base, new, match)
  PROVE  ApplyMatches(base, edits, match) = Together(base, new, match, DOMAIN edits)
<1> DEFINE D == DOMAIN edits
           first(S) == CHOOSE i \in S : \A j \in S : Precedes(match, i, j)
           F(h) == [S \in SUBSET D |-> IF S = {} THEN base
                                       ELSE ReplaceMatch(h[S \ {first(S)}], match[first(S)], edits[first(S)].new)]
           applied == CHOOSE h : h = F(h)
           g == [S \in SUBSET D |-> Together(base, new, match, S)]
           n == Len(new)
<1>1. DOMAIN new = D /\ n \in Nat /\ D = 1 .. n /\ \A i \in D : new[i] = edits[i].new
  <2>1. new \in Seq(Seq(T))
    BY DEF Matching
  <2> QED
    BY <2>1, LenProperties
<1>2. ApplyMatches(base, edits, match) = applied[D]
  BY DEF ApplyMatches
<1> HIDE DEF D, n
<1>3. ASSUME NEW S \in SUBSET D, S # {}
      PROVE  /\ first(S) \in S
             /\ g[S] = ReplaceMatch(g[S \ {first(S)}], match[first(S)], edits[first(S)].new)
  <2>1. S \in SUBSET Nat /\ \A i \in S : match[i].index \in Nat
    <3>1. \A i \in D : match[i].index \in 1 .. Len(base) + 1
      BY <1>1 DEF Matching
    <3> QED
      BY <1>1, <3>1
  <2>2. \E i \in S : \A j \in S : Precedes(match, i, j)
    BY <1>3, <2>1, FirstExists
  <2>3. first(S) \in S /\ \A j \in S : Precedes(match, first(S), j)
    BY <2>2
  <2> DEFINE i == first(S)  M == S \ {i}
  <2> HIDE DEF first, i
  <2>4. i \in S /\ S \in SUBSET DOMAIN new /\ \A j \in S : Precedes(match, i, j)
    BY <1>1, <2>3 DEF i
  <2>5. FirstOf(base, match, S, i)
    BY <2>4, FirstIs
  <2>6. Together(base, new, match, S) = ReplaceMatch(Together(base, new, match, M), match[i], new[i])
    BY <2>4, <2>5, FirstAdded
  <2>7. M \in SUBSET D /\ new[i] = edits[i].new
    BY <1>1, <2>4
  <2>8. g[S] = ReplaceMatch(g[M], match[i], edits[i].new)
    BY <2>6, <2>7
  <2> QED
    BY <2>3, <2>8 DEF i
<1>4. g[{}] = base
  BY TogetherNone
<1>5. applied = F(applied)
  <2>1. ASSUME NEW S \in SUBSET D
        PROVE  g[S] = IF S = {} THEN base
                      ELSE ReplaceMatch(g[S \ {first(S)}], match[first(S)], edits[first(S)].new)
    BY <1>3, <1>4
  <2>2. g = [S \in SUBSET D |-> g[S]]
    OBVIOUS
  <2> HIDE DEF g, first
  <2>3. g = F(g)
    BY <2>1, <2>2
  <2>4. \E h : h = F(h)
    BY <2>3
  <2> HIDE DEF F
  <2> QED
    BY <2>4
<1> HIDE DEF applied, g
<1> DEFINE P == {k \in 0 .. n : \A S \in SUBSET D : Cardinality(S) = k => applied[S] = g[S]}
<1>6. ASSUME NEW S \in SUBSET D
      PROVE  IsFiniteSet(S) /\ Cardinality(S) \in Nat /\ (Cardinality(S) = 0 <=> S = {})
  <2>1. IsFiniteSet(D)
    BY <1>1, FS_Interval
  <2>2. IsFiniteSet(S)
    BY <2>1, FS_Subset
  <2> QED
    BY <2>2, FS_CardinalityType, FS_EmptySet
<1>7. 0 \in P
  <2>1. applied[{}] = base
    BY <1>5
  <2>2. \A S \in SUBSET D : Cardinality(S) = 0 => applied[S] = g[S]
    BY <1>4, <1>6, <2>1
  <2> QED
    BY <1>1, <2>2
<1>8. ASSUME NEW k \in 0 .. n - 1, k \in P PROVE k + 1 \in P
  <2>1. ASSUME NEW S \in SUBSET D, Cardinality(S) = k + 1 PROVE applied[S] = g[S]
    <3>1. S # {}
      BY <1>6, <2>1
    <3>2. first(S) \in S /\ g[S] = ReplaceMatch(g[S \ {first(S)}], match[first(S)], edits[first(S)].new)
      BY <1>3, <3>1
    <3>3. applied[S] = ReplaceMatch(applied[S \ {first(S)}], match[first(S)], edits[first(S)].new)
      BY <1>5, <3>1
    <3> DEFINE M == S \ {first(S)}
    <3>4. M \in SUBSET D /\ Cardinality(M) = k
      <4>1. Cardinality(M) = Cardinality(S) - 1
        BY <1>6, <3>2, FS_RemoveElement
      <4> QED
        BY <2>1, <4>1
    <3>5. applied[M] = g[M]
      BY <1>8, <3>4
    <3> QED
      BY <3>2, <3>3, <3>5
  <2>2. k + 1 \in 0 .. n
    BY <1>1
  <2> QED
    BY <2>1, <2>2
<1>9. \A k \in 0 .. n : k \in P
  <2> HIDE DEF P
  <2> QED
    BY <1>1, <1>7, <1>8, CountUp
<1>10. Cardinality(D) \in 0 .. n
  <2>1. Cardinality(D) = n
    BY <1>1, FS_Interval
  <2> QED
    BY <1>1, <2>1
<1>11. applied[D] = g[D]
  BY <1>9, <1>10
<1> QED
  BY <1>2, <1>11 DEF g, D

\* Short pieces make no long text.
LEMMA JoinsShort ==
  ASSUME NEW T, NEW s \in Seq(Seq(T)), \A k \in 1 .. Len(s) : Len(s[k]) <= 1
  PROVE  FlattenSeq(s) \in Seq(T) /\ Len(FlattenSeq(s)) <= Len(s)
<1> DEFINE N == Len(s)
<1>1. N \in Nat /\ \A k \in 1 .. N : s[k] \in Seq(T)
  BY LenProperties, ElementOfSeq
<1>2. \A k \in 1 .. N : Len(s[k]) <= 1
  OBVIOUS
<1>3. PICK f : Joins(T, f, s)
  BY JoinsExists
<1>4. FlattenSeq(s) = f[N] /\ FlattenSeq(s) \in Seq(T)
  BY <1>3, FlattenIs
<1>5. f \in [0 .. N -> Seq(T)] /\ f[0] = <<>> /\ \A k \in 1 .. N : f[k] = f[k - 1] \o s[k]
  BY <1>3 DEF Joins
<1> DEFINE P == {k \in 0 .. N : Len(f[k]) <= k}
<1> HIDE DEF N
<1>6. 0 \in P
  BY <1>1, <1>5, EmptySeq
<1>7. ASSUME NEW k \in 0 .. N - 1, k \in P PROVE k + 1 \in P
  <2> DEFINE m == k + 1
  <2>1. m \in 1 .. N /\ m \in 0 .. N /\ m - 1 = k /\ k \in 0 .. N /\ k \in Nat /\ m = k + 1
    BY <1>1
  <2> HIDE DEF m
  <2>2. f[m] = f[m - 1] \o s[m]
    BY <1>5, <2>1
  <2> DEFINE x == f[k]  y == s[m]
  <2>3. x \in Seq(T) /\ y \in Seq(T) /\ Len(x) <= k /\ Len(y) <= 1
    BY <1>1, <1>2, <1>5, <1>7, <2>1
  <2>4. f[m] = x \o y
    BY <2>1, <2>2
  <2> HIDE DEF x, y
  <2>5. Len(x \o y) = Len(x) + Len(y) /\ Len(x) \in Nat /\ Len(y) \in Nat
    BY <2>3, ConcatProperties, LenProperties
  <2>6. Len(f[m]) <= m
    <3>1. Len(x) + Len(y) <= m
      BY ONLY <2>1, <2>3, <2>5
    <3> QED
      BY <2>4, <2>5, <3>1
  <2>7. m \in P
    BY <2>1, <2>6
  <2> QED
    BY <2>7 DEF m
<1>8. \A k \in 0 .. N : k \in P
  <2> HIDE DEF P
  <2> QED
    BY <1>1, <1>6, <1>7, CountUp
<1>9. N \in P
  <2> HIDE DEF P
  <2> QED
    BY <1>1, <1>8
<1> QED
  BY <1>4, <1>9 DEF N

\* The join of two sequences is the join of the one and the join of the other.
LEMMA FlattenBoth ==
  ASSUME NEW T, NEW s \in Seq(Seq(T)), NEW t \in Seq(Seq(T))
  PROVE  IsBoth(FlattenSeq(s \o t), FlattenSeq(s), FlattenSeq(t))
<1> DEFINE u == s \o t  a == Len(s)  b == Len(t)
<1>1. u \in Seq(Seq(T)) /\ Len(u) = a + b /\ a \in Nat /\ b \in Nat
      /\ \A i \in 1 .. a + b : u[i] = IF i <= a THEN s[i] ELSE t[i - a]
  BY ConcatProperties, LenProperties
<1>2. PICK f : Joins(T, f, s)
  BY JoinsExists
<1>3. PICK g : Joins(T, g, t)
  BY JoinsExists
<1> HIDE DEF u
<1>4. PICK h : Joins(T, h, u)
  BY <1>1, JoinsExists
<1>5. FlattenSeq(s) = f[a] /\ FlattenSeq(t) = g[b] /\ FlattenSeq(u) = h[Len(u)]
  BY <1>1, <1>2, <1>3, <1>4, FlattenIs
<1>6. /\ f \in [0 .. a -> Seq(T)] /\ f[0] = <<>> /\ \A k \in 1 .. a : f[k] = f[k - 1] \o s[k]
      /\ g \in [0 .. b -> Seq(T)] /\ g[0] = <<>> /\ \A k \in 1 .. b : g[k] = g[k - 1] \o t[k]
      /\ h \in [0 .. a + b -> Seq(T)] /\ h[0] = <<>> /\ \A k \in 1 .. a + b : h[k] = h[k - 1] \o u[k]
  BY <1>1, <1>2, <1>3, <1>4 DEF Joins
<1>7. (\A k \in 1 .. a : s[k] \in Seq(T)) /\ \A k \in 1 .. b : t[k] \in Seq(T)
  BY ElementOfSeq
<1> HIDE DEF a, b
<1> DEFINE P == {k \in 0 .. a : h[k] = f[k]}
<1>8. h[a] = f[a]
  <2>1. 0 \in P
    BY <1>1, <1>6
  <2>2. ASSUME NEW k \in 0 .. a - 1, k \in P PROVE k + 1 \in P
    <3> DEFINE m == k + 1
    <3>1. m \in 1 .. a /\ m \in 1 .. a + b /\ m <= a /\ m \in 0 .. a /\ m - 1 = k
      BY <1>1
    <3> HIDE DEF m
    <3>2. h[m] = h[m - 1] \o u[m] /\ f[m] = f[m - 1] \o s[m] /\ u[m] = s[m]
      BY <1>1, <1>6, <3>1
    <3>3. h[m] = f[m]
      BY <2>2, <3>1, <3>2
    <3> QED
      BY <3>1, <3>3 DEF m
  <2>3. \A k \in 0 .. a : k \in P
    <3> HIDE DEF P
    <3> QED
      BY <1>1, <2>1, <2>2, CountUp
  <2>4. a \in P
    <3> HIDE DEF P
    <3> QED
      BY <1>1, <2>3
  <2> QED
    BY <2>4
<1> DEFINE Q == {k \in 0 .. b : h[a + k] = f[a] \o g[k]}
<1>9. f[a] \in Seq(T)
  BY <1>1, <1>6
<1>10. 0 \in Q
  <2>1. f[a] \o <<>> = f[a] /\ a + 0 = a
    BY <1>1, <1>9, ConcatEmptySeq
  <2>2. g[0] = <<>>
    BY <1>6
  <2>3. h[a + 0] = f[a] \o g[0]
    BY <1>8, <2>1, <2>2
  <2>4. 0 \in 0 .. b
    BY <1>1
  <2> DEFINE z == 0
  <2>5. h[a + z] = f[a] \o g[z] /\ z \in 0 .. b
    BY <2>3, <2>4
  <2> HIDE DEF z
  <2>6. z \in Q
    BY <2>5
  <2> QED
    BY <2>6 DEF z
<1>11. ASSUME NEW k \in 0 .. b - 1, k \in Q PROVE k + 1 \in Q
  <2> DEFINE m == k + 1  c == a + k + 1
  <2>1. m \in 1 .. b /\ m \in 0 .. b /\ m - 1 = k /\ c \in 1 .. a + b /\ ~(c <= a) /\ c - a = m /\ c - 1 = a + k /\ a + m = c
        /\ k \in 0 .. b
    BY <1>1
  <2> HIDE DEF m, c
  <2> DEFINE x == f[a]  y == g[k]  z == t[m]
  <2>2. h[c] = h[c - 1] \o u[c] /\ u[c] = t[m]
    BY <1>1, <1>6, <2>1
  <2>3. g[m] = y \o z
    <3>1. g[m] = g[m - 1] \o t[m]
      BY <1>6, <2>1
    <3> QED
      BY <2>1, <3>1
  <2>4. h[c - 1] = x \o y
    BY <1>11, <2>1
  <2>5. x \in Seq(T) /\ y \in Seq(T) /\ z \in Seq(T)
    BY <1>6, <1>7, <1>9, <2>1
  <2>6. h[c] = (x \o y) \o z
    BY <2>2, <2>4
  <2> HIDE DEF x, y, z
  <2>7. (x \o y) \o z = x \o (y \o z)
    <3>1. Regroups(x, y, z)
      BY ONLY <2>5, Regroup
    <3> QED
      BY ONLY <3>1 DEF Regroups
  <2>8. h[c] = x \o g[m]
    BY <2>3, <2>6, <2>7
  <2>9. m \in Q
    BY <2>1, <2>8 DEF x
  <2> QED
    BY <2>9 DEF m
<1>12. \A k \in 0 .. b : k \in Q
  <2> HIDE DEF Q
  <2> QED
    BY <1>1, <1>10, <1>11, CountUp
<1>13. b \in Q
  <2> HIDE DEF Q
  <2> QED
    BY <1>1, <1>12
<1> QED
  BY <1>1, <1>5, <1>13 DEF IsBoth, u

-----------------------------------------------------------------------------
(* Line ends, byte order mark and fuzzy matching.                          *)

\* The characters of a file, and those that are left when its line ends are plain newlines.
Plain == {"a", "q", "sp", "nl", "X", "Y", "W"}
Marks == Plain \cup {"cr"}

LfPieces(s) == [i \in DOMAIN s |-> IF i \in CrLfAt(s) THEN <<>> ELSE IF s[i] = "cr" THEN <<"nl">> ELSE <<s[i]>>]

LEMMA LfPiecesAre ==
  ASSUME NEW s \in Seq(Marks)
  PROVE  /\ LfPieces(s) \in Seq(Seq(Plain)) /\ Len(LfPieces(s)) = Len(s)
         /\ \A i \in 1 .. Len(s) :
              LfPieces(s)[i] = IF i < Len(s) /\ s[i] = "cr" /\ s[i + 1] = "nl" THEN <<>>
                               ELSE IF s[i] = "cr" THEN <<"nl">> ELSE <<s[i]>>
<1> DEFINE n == Len(s)  p == LfPieces(s)
<1>1. n \in Nat /\ DOMAIN s = 1 .. n /\ \A i \in 1 .. n : s[i] \in Marks
  BY LenProperties, ElementOfSeq
<1>2. \A i \in 1 .. n : i \in CrLfAt(s) <=> i < n /\ s[i] = "cr" /\ s[i + 1] = "nl"
  BY <1>1 DEF CrLfAt
<1> HIDE DEF n
<1>3. ASSUME NEW i \in 1 .. n
      PROVE  /\ p[i] = IF i < n /\ s[i] = "cr" /\ s[i + 1] = "nl" THEN <<>>
                       ELSE IF s[i] = "cr" THEN <<"nl">> ELSE <<s[i]>>
             /\ p[i] \in Seq(Plain)
  <2>1. p[i] = IF i < n /\ s[i] = "cr" /\ s[i + 1] = "nl" THEN <<>>
               ELSE IF s[i] = "cr" THEN <<"nl">> ELSE <<s[i]>>
    BY <1>1, <1>2 DEF LfPieces
  <2>2. <<>> \in Seq(Plain)
    BY EmptySeq
  <2>3. "nl" \in Plain /\ (s[i] # "cr" => s[i] \in Plain)
    BY <1>1 DEF Marks, Plain
  <2>4. <<"nl">> \in Seq(Plain) /\ (s[i] # "cr" => <<s[i]>> \in Seq(Plain))
    BY <2>3
  <2> HIDE DEF p
  <2> QED
    BY <2>1, <2>2, <2>4
<1>4. p \in [1 .. n -> Seq(Plain)]
  <2>1. p = [i \in 1 .. n |-> p[i]]
    BY <1>1 DEF LfPieces
  <2> HIDE DEF p
  <2> QED
    BY <1>3, <2>1
<1> HIDE DEF p
<1>5. p \in Seq(Seq(Plain)) /\ Len(p) = n
  BY <1>1, <1>4
<1> QED
  BY <1>3, <1>5 DEF p, n

\* A text with its line ends made plain holds no carriage return.
LEMMA NormalizedIs ==
  ASSUME NEW s \in Seq(Marks)
  PROVE  normalizeToLF(s) \in Seq(Plain) /\ normalizeToLF(s) = FlattenSeq(LfPieces(s))
<1>1. normalizeToLF(s) = FlattenSeq(LfPieces(s))
  BY DEF normalizeToLF, LfPieces
<1>2. LfPieces(s) \in Seq(Seq(Plain))
  BY LfPiecesAre
<1>3. PICK f : Joins(Plain, f, LfPieces(s))
  BY <1>2, JoinsExists
<1>4. FlattenSeq(LfPieces(s)) \in Seq(Plain)
  BY <1>2, <1>3, FlattenIs
<1> QED
  BY <1>1, <1>4

\* A text whose line ends are plain newlines stays as it is.
LEMMA NormalizedAlready ==
  ASSUME NEW s \in Seq(Plain)
  PROVE  normalizeToLF(s) = s /\ CrLfAt(s) = {} /\ s \in Seq(Marks)
<1> DEFINE n == Len(s)  p == LfPieces(s)
<1>1. n \in Nat /\ s \in Seq(Marks) /\ \A i \in 1 .. n : s[i] \in Plain /\ s[i] # "cr"
  <2>1. Plain \subseteq Marks
    BY DEF Marks
  <2>2. \A i \in 1 .. n : s[i] \in Plain
    BY ElementOfSeq
  <2>3. "cr" \notin Plain
    BY DEF Plain
  <2> QED
    BY <2>1, <2>2, <2>3, SeqMonotonic, LenProperties
<1>2. p \in Seq(Seq(Plain)) /\ Len(p) = n
  BY <1>1, LfPiecesAre
<1>3. \A i \in 1 .. n : p[i] = <<s[i]>>
  BY <1>1, LfPiecesAre
<1> HIDE DEF p
<1>4. PICK f : Joins(Plain, f, p)
  BY <1>2, JoinsExists
<1>5. IsFront(f[n], s, n)
  <2>1. n \in 0 .. Len(p) /\ n <= Len(s)
    BY <1>1, <1>2
  <2> QED
    BY <1>2, <1>3, <1>4, <2>1, JoinsSingles
<1>6. FlattenSeq(p) = f[n]
  BY <1>2, <1>4, FlattenIs
<1>7. normalizeToLF(s) = FlattenSeq(p)
  BY <1>1, NormalizedIs DEF p
<1>8. CrLfAt(s) = {}
  BY <1>1 DEF CrLfAt
<1> QED
  BY <1>1, <1>5, <1>6, <1>7, <1>8, SubSeqFull DEF IsFront

\* A text that does not end with a carriage return is normalized on its own.
LEMMA NormalizedBoth ==
  ASSUME NEW x \in Seq(Marks), NEW y \in Seq(Marks), Len(x) > 0 => x[Len(x)] # "cr"
  PROVE  IsBoth(normalizeToLF(x \o y), normalizeToLF(x), normalizeToLF(y))
<1> DEFINE u == x \o y  a == Len(x)  b == Len(y)  p == LfPieces(x)  q == LfPieces(y)  r == LfPieces(u)
<1>1. u \in Seq(Marks) /\ Len(u) = a + b /\ a \in Nat /\ b \in Nat
      /\ \A i \in 1 .. a + b : u[i] = IF i <= a THEN x[i] ELSE y[i - a]
  BY ConcatProperties, LenProperties
<1> HIDE DEF u
<1>2. /\ p \in Seq(Seq(Plain)) /\ Len(p) = a
      /\ \A i \in 1 .. a : p[i] = IF i < a /\ x[i] = "cr" /\ x[i + 1] = "nl" THEN <<>>
                                  ELSE IF x[i] = "cr" THEN <<"nl">> ELSE <<x[i]>>
  BY LfPiecesAre
<1>3. /\ q \in Seq(Seq(Plain)) /\ Len(q) = b
      /\ \A i \in 1 .. b : q[i] = IF i < b /\ y[i] = "cr" /\ y[i + 1] = "nl" THEN <<>>
                                  ELSE IF y[i] = "cr" THEN <<"nl">> ELSE <<y[i]>>
  BY LfPiecesAre
<1>4. /\ r \in Seq(Seq(Plain)) /\ Len(r) = Len(u)
      /\ \A i \in 1 .. Len(u) : r[i] = IF i < Len(u) /\ u[i] = "cr" /\ u[i + 1] = "nl" THEN <<>>
                                       ELSE IF u[i] = "cr" THEN <<"nl">> ELSE <<u[i]>>
  BY <1>1, LfPiecesAre
<1>5. a > 0 => x[a] # "cr"
  OBVIOUS
<1> HIDE DEF a, b, p, q, r
<1> DEFINE c == p \o q
<1>6. c \in Seq(Seq(Plain)) /\ Len(c) = a + b /\ \A i \in 1 .. a + b : c[i] = IF i <= a THEN p[i] ELSE q[i - a]
  <2>1. p \in Seq(Seq(Plain)) /\ q \in Seq(Seq(Plain)) /\ Len(p) = a /\ Len(q) = b
    BY <1>2, <1>3
  <2>2. JoinOf(Seq(Plain), p, q)
    BY ONLY <2>1, JoinIs
  <2> QED
    BY ONLY <2>1, <2>2 DEF JoinOf
<1> HIDE DEF c
<1>7. ASSUME NEW i \in 1 .. a + b PROVE r[i] = c[i]
  <2>1. CASE i < a
    <3>1. i \in 1 .. a /\ i + 1 \in 1 .. a + b /\ i <= a /\ i + 1 <= a /\ i < a + b
      BY <1>1, <2>1
    <3>2. u[i] = x[i] /\ u[i + 1] = x[i + 1] /\ c[i] = p[i]
      BY <1>1, <1>6, <3>1
    <3> QED
      BY <1>1, <1>2, <1>4, <2>1, <3>1, <3>2
  <2>2. CASE i = a
    <3>1. i \in 1 .. a /\ i <= a /\ a > 0
      BY <1>1, <2>2
    <3>2. u[i] = x[i] /\ x[i] # "cr" /\ c[i] = p[i]
      BY <1>1, <1>5, <1>6, <2>2, <3>1
    <3>3. p[i] = <<x[i]>>
      BY <1>2, <3>1, <3>2
    <3>4. r[i] = <<u[i]>>
      BY <1>1, <1>4, <3>2
    <3> QED
      BY <3>2, <3>3, <3>4
  <2>3. CASE i > a
    <3> DEFINE j == i - a
    <3>1. j \in 1 .. b /\ ~(i <= a) /\ (i < a + b <=> j < b)
      BY <1>1, <2>3
    <3>2. u[i] = y[j] /\ c[i] = q[j]
      BY <1>1, <1>6, <3>1
    <3>3. i < a + b => u[i + 1] = y[j + 1]
      <4> SUFFICES ASSUME i < a + b PROVE u[i + 1] = y[j + 1]
        OBVIOUS
      <4> DEFINE k == i + 1
      <4>1. k \in 1 .. a + b /\ ~(k <= a) /\ k - a = j + 1
        BY <1>1, <2>3
      <4> HIDE DEF k, j
      <4>2. u[k] = y[k - a]
        BY <1>1, <4>1
      <4> QED
        BY <4>1, <4>2 DEF k
    <3> HIDE DEF j
    <3>4. q[j] = IF j < b /\ y[j] = "cr" /\ y[j + 1] = "nl" THEN <<>>
                 ELSE IF y[j] = "cr" THEN <<"nl">> ELSE <<y[j]>>
      BY <1>3, <3>1
    <3>5. r[i] = IF i < a + b /\ u[i] = "cr" /\ u[i + 1] = "nl" THEN <<>>
                 ELSE IF u[i] = "cr" THEN <<"nl">> ELSE <<u[i]>>
      BY <1>1, <1>4
    <3> QED
      BY ONLY <3>1, <3>2, <3>3, <3>4, <3>5
  <2> QED
    BY <1>1, <2>1, <2>2, <2>3
<1>8. r = c
  <2>1. Len(r) = Len(c) /\ \A i \in 1 .. Len(r) : r[i] = c[i]
    BY <1>1, <1>4, <1>6, <1>7
  <2> QED
    BY <1>4, <1>6, <2>1, SeqEqual
<1>9. IsBoth(FlattenSeq(p \o q), FlattenSeq(p), FlattenSeq(q))
  BY <1>2, <1>3, FlattenBoth
<1>10. normalizeToLF(u) = FlattenSeq(r) /\ normalizeToLF(x) = FlattenSeq(p) /\ normalizeToLF(y) = FlattenSeq(q)
  BY <1>1, NormalizedIs DEF p, q, r
<1> QED
  BY <1>8, <1>9, <1>10 DEF u, c

RestoredPieces(s) == [i \in DOMAIN s |-> IF s[i] = "nl" THEN <<"cr", "nl">> ELSE <<s[i]>>]

\* Line ends that are put back are taken off again.
LEMMA RestoredIs ==
  ASSUME NEW s \in Seq(Plain), NEW ending
  PROVE  restoreLineEndings(s, ending) \in Seq(Marks) /\ normalizeToLF(restoreLineEndings(s, ending)) = s
<1>1. CASE ending = "nl"
  BY <1>1, NormalizedAlready DEF restoreLineEndings
<1>2. CASE ending # "nl"
  <2> DEFINE n == Len(s)  p == RestoredPieces(s)
  <2>1. n \in Nat /\ DOMAIN s = 1 .. n /\ \A i \in 1 .. n : s[i] \in Plain /\ s[i] # "cr"
    <3>1. "cr" \notin Plain
      BY DEF Plain
    <3> QED
      BY <3>1, LenProperties, ElementOfSeq
  <2>2. \A i \in 1 .. n : /\ p[i] = IF s[i] = "nl" THEN <<"cr", "nl">> ELSE <<s[i]>>
                          /\ p[i] \in Seq(Marks)
    <3> TAKE i \in 1 .. n
    <3>1. p[i] = IF s[i] = "nl" THEN <<"cr", "nl">> ELSE <<s[i]>>
      BY <2>1 DEF RestoredPieces
    <3>2. "cr" \in Marks /\ "nl" \in Marks /\ s[i] \in Marks
      BY <2>1 DEF Marks, Plain
    <3>3. <<"cr", "nl">> \in Seq(Marks) /\ <<s[i]>> \in Seq(Marks)
      BY <3>2
    <3> HIDE DEF p
    <3> QED
      BY <3>1, <3>3
  <2>3. p \in Seq(Seq(Marks)) /\ Len(p) = n
    <3>1. p = [i \in 1 .. n |-> p[i]]
      BY <2>1 DEF RestoredPieces
    <3> HIDE DEF p, n
    <3>2. p \in [1 .. n -> Seq(Marks)]
      BY <2>2, <3>1
    <3> QED
      BY <2>1, <3>2
  <2>4. restoreLineEndings(s, ending) = FlattenSeq(p)
    BY <1>2 DEF restoreLineEndings, RestoredPieces
  <2> HIDE DEF p
  <2>5. PICK f : Joins(Marks, f, p)
    BY <2>3, JoinsExists
  <2>6. FlattenSeq(p) = f[n] /\ FlattenSeq(p) \in Seq(Marks)
    BY <2>3, <2>5, FlattenIs
  <2>7. f \in [0 .. n -> Seq(Marks)] /\ f[0] = <<>> /\ \A k \in 1 .. n : f[k] = f[k - 1] \o p[k]
    BY <2>3, <2>5 DEF Joins
  <2> HIDE DEF n
  <2> DEFINE Fine(k) == IsFront(normalizeToLF(f[k]), s, k) /\ (Len(f[k]) > 0 => f[k][Len(f[k])] # "cr")
             P == {k \in 0 .. n : Fine(k)}
  <2>8. 0 \in P
    <3>1. <<>> \in Seq(Plain)
      BY EmptySeq
    <3>2. normalizeToLF(<<>>) = <<>>
      BY <3>1, NormalizedAlready
    <3>3. SubSeq(s, 1, 0) = <<>>
      BY SubSeqEmpty
    <3>4. IsFront(normalizeToLF(f[0]), s, 0)
      BY <2>7, <3>2, <3>3 DEF IsFront
    <3>5. ~(Len(f[0]) > 0)
      BY <2>7, EmptySeq
    <3> HIDE DEF Fine
    <3>6. Fine(0)
      BY <3>4, <3>5 DEF Fine
    <3> QED
      BY <2>1, <3>6
  <2>9. ASSUME NEW k \in 0 .. n - 1, k \in P PROVE k + 1 \in P
    <3> DEFINE m == k + 1  x == f[k]  y == p[m]  z == <<s[m]>>
    <3>1. m \in 1 .. n /\ m \in 0 .. n /\ m - 1 = k /\ k \in 0 .. n
      BY <2>1
    <3>2. f[m] = f[m - 1] \o p[m]
      <4> HIDE DEF m
      <4> QED
        BY <2>7, <3>1
    <3>3. x \in Seq(Marks) /\ y \in Seq(Marks) /\ f[m] = x \o y
      <4> HIDE DEF m
      <4> QED
        BY <2>2, <2>7, <3>1, <3>2
    <3>4. IsFront(normalizeToLF(x), s, k) /\ (Len(x) > 0 => x[Len(x)] # "cr")
      BY <2>9
    <3>5. s[m] \in Plain /\ s[m] # "cr" /\ y = IF s[m] = "nl" THEN <<"cr", "nl">> ELSE <<s[m]>>
      <4> HIDE DEF m
      <4> QED
        BY <2>1, <2>2, <3>1
    <3>6. z \in Seq(Plain)
      BY <3>5
    <3>7. normalizeToLF(y) = z
      <4>1. CASE s[m] = "nl"
        <5> DEFINE v == <<"cr", "nl">>  w == LfPieces(v)
        <5>1. y = v
          BY <3>5, <4>1
        <5>2. w \in Seq(Seq(Plain)) /\ Len(w) = 2 /\ w[1] = <<>> /\ w[2] = <<"nl">>
          <6>1. v \in Seq(Marks) /\ Len(v) = 2 /\ v[1] = "cr" /\ v[2] = "nl"
            BY DEF Marks, Plain
          <6> HIDE DEF v
          <6>2. w \in Seq(Seq(Plain)) /\ Len(w) = Len(v)
            BY <6>1, LfPiecesAre
          <6>3. \A i \in 1 .. Len(v) : w[i] = IF i < Len(v) /\ v[i] = "cr" /\ v[i + 1] = "nl" THEN <<>>
                                              ELSE IF v[i] = "cr" THEN <<"nl">> ELSE <<v[i]>>
            BY <6>1, LfPiecesAre
          <6> HIDE DEF w
          <6>4. w[1] = <<>>
            BY <6>1, <6>3
          <6>5. w[2] = <<v[2]>>
            BY <6>1, <6>3
          <6> QED
            BY <6>1, <6>2, <6>4, <6>5
        <5>3. normalizeToLF(y) = FlattenSeq(w)
          <6> HIDE DEF v, y
          <6> QED
            BY <3>3, <5>1, NormalizedIs
        <5> HIDE DEF v, w
        <5>4. PICK g : Joins(Plain, g, w)
          BY <5>2, JoinsExists
        <5>5. FlattenSeq(w) = g[2]
          BY <5>2, <5>4, FlattenIs
        <5>6. g[0] = <<>> /\ g[1] = g[0] \o w[1] /\ g[2] = g[1] \o w[2]
          <6>1. \A i \in 1 .. 2 : g[i] = g[i - 1] \o w[i]
            BY <5>2, <5>4 DEF Joins
          <6>2. 1 \in 1 .. 2 /\ 2 \in 1 .. 2 /\ 1 - 1 = 0 /\ 2 - 1 = 1
            OBVIOUS
          <6>3. g[0] = <<>>
            BY <5>4 DEF Joins
          <6> QED
            BY <6>1, <6>2, <6>3
        <5>7. "nl" \in Plain
          BY DEF Plain
        <5>8. <<"nl">> \in Seq(Plain)
          BY <5>7
        <5>9. <<>> \o <<>> = <<>> /\ <<>> \o <<"nl">> = <<"nl">>
          BY <5>8, EmptySeq, ConcatEmptySeq
        <5>10. g[2] = <<"nl">>
          BY <5>2, <5>6, <5>9
        <5> QED
          BY <4>1, <5>3, <5>5, <5>10
      <4>2. CASE s[m] # "nl"
        <5>1. y = z
          BY <3>5, <4>2
        <5> HIDE DEF y, z
        <5> QED
          BY <3>6, <5>1, NormalizedAlready
      <4> QED
        BY <4>1, <4>2
    <3>8. Len(y) > 0 /\ y[Len(y)] # "cr"
      BY <3>5
    <3>9. Len(f[m]) > 0 => f[m][Len(f[m])] # "cr"
      <4> HIDE DEF x, y
      <4>1. Len(x \o y) = Len(x) + Len(y) /\ Len(x) \in Nat /\ Len(y) \in Nat
            /\ \A i \in 1 .. Len(x) + Len(y) : (x \o y)[i] = IF i <= Len(x) THEN x[i] ELSE y[i - Len(x)]
        BY <3>3, ConcatProperties, LenProperties
      <4> DEFINE e == Len(x) + Len(y)
      <4>2. e \in 1 .. Len(x) + Len(y) /\ ~(e <= Len(x)) /\ e - Len(x) = Len(y)
        BY <3>8, <4>1
      <4> HIDE DEF e
      <4>3. (x \o y)[e] = y[Len(y)]
        BY <4>1, <4>2
      <4> QED
        BY <3>3, <3>8, <4>1, <4>3 DEF e
    <3>10. IsBoth(normalizeToLF(x \o y), normalizeToLF(x), normalizeToLF(y))
      <4> HIDE DEF x, y
      <4> QED
        BY <3>3, <3>4, NormalizedBoth
    <3>11. SubSeq(s, 1, m) = SubSeq(s, 1, k) \o z
      <4>1. SubSeq(s, 1, m) = SubSeq(s, 1, m - 1) \o <<s[m]>>
        <5>1. 1 \in 1 .. Len(s) /\ m \in 1 .. Len(s)
          BY <2>1, <3>1 DEF n
        <5> HIDE DEF m
        <5> QED
          BY <5>1, SubSeqRecursiveSecond
      <4> QED
        BY <3>1, <4>1
    <3> HIDE DEF x, y, z, m
    <3>12. IsFront(normalizeToLF(f[m]), s, m)
      BY <3>3, <3>4, <3>7, <3>10, <3>11 DEF IsFront, IsBoth
    <3>13. m \in P
      BY <3>1, <3>9, <3>12
    <3> QED
      BY <3>13 DEF m
  <2>10. \A k \in 0 .. n : k \in P
    <3> HIDE DEF P
    <3> QED
      BY <2>1, <2>8, <2>9, CountUp
  <2>11. n \in P
    <3> HIDE DEF P
    <3> QED
      BY <2>1, <2>10
  <2>12. SubSeq(s, 1, n) = s
    BY SubSeqFull DEF n
  <2> QED
    BY <2>4, <2>6, <2>11, <2>12 DEF IsFront
<1> QED
  BY <1>1, <1>2

\* Fuzzy matching never makes a text longer.
LEMMA FuzzyIs ==
  ASSUME NEW s \in Seq(Plain)
  PROVE  normalizeForFuzzyMatch(s) \in Seq(Plain) /\ Len(normalizeForFuzzyMatch(s)) <= Len(s)
<1> DEFINE n == Len(s)
           blank(i) == s[i] = "sp" /\ \A j \in i .. Len(s) : s[j] = "sp" \/ \E k \in i .. j : s[k] = "nl"
           p == [i \in DOMAIN s |-> IF blank(i) THEN <<>> ELSE IF s[i] = "q" THEN <<"a">> ELSE <<s[i]>>]
<1>1. n \in Nat /\ DOMAIN s = 1 .. n /\ \A i \in 1 .. n : s[i] \in Plain
  BY LenProperties, ElementOfSeq
<1>2. normalizeForFuzzyMatch(s) = FlattenSeq(p)
  BY DEF normalizeForFuzzyMatch
<1> HIDE DEF blank, n
<1>3. ASSUME NEW i \in 1 .. n PROVE p[i] \in Seq(Plain) /\ Len(p[i]) <= 1
  <2>1. p[i] = IF blank(i) THEN <<>> ELSE IF s[i] = "q" THEN <<"a">> ELSE <<s[i]>>
    BY <1>1
  <2>2. "a" \in Plain /\ s[i] \in Plain
    BY <1>1 DEF Plain
  <2>3. <<>> \in Seq(Plain) /\ <<"a">> \in Seq(Plain) /\ <<s[i]>> \in Seq(Plain)
    BY <2>2, EmptySeq
  <2>4. Len(<<>>) = 0 /\ Len(<<"a">>) = 1 /\ Len(<<s[i]>>) = 1
    OBVIOUS
  <2> HIDE DEF p
  <2> QED
    BY <2>1, <2>3, <2>4
<1>4. p = [i \in 1 .. n |-> p[i]]
  BY <1>1
<1> HIDE DEF p
<1>5. p \in Seq(Seq(Plain)) /\ Len(p) = n
  <2>1. p \in [1 .. n -> Seq(Plain)]
    BY <1>3, <1>4
  <2> QED
    BY <1>1, <2>1
<1>6. \A k \in 1 .. Len(p) : Len(p[k]) <= 1
  BY <1>3, <1>5
<1>7. FlattenSeq(p) \in Seq(Plain) /\ Len(FlattenSeq(p)) <= Len(p)
  BY <1>5, <1>6, JoinsShort
<1> QED
  BY <1>2, <1>5, <1>7 DEF n

\* Where a text is found first it lies whole in the other.
LEMMA StartsIn ==
  ASSUME NEW a \in Nat, NEW b \in Nat, NEW s, NEW t, Len(s) = a, Len(t) = b, StartsAt(s, t) # {}
  PROVE  Min(StartsAt(s, t)) \in 1 .. a + 1 /\ Min(StartsAt(s, t)) + b <= a + 1
<1>1. \A i \in StartsAt(s, t) : i \in 1 .. a - b + 1
  BY DEF StartsAt
<1>2. StartsAt(s, t) \in SUBSET Nat
  BY <1>1
<1>3. Min(StartsAt(s, t)) \in StartsAt(s, t)
  BY <1>2, SmallestIs
<1> DEFINE m == Min(StartsAt(s, t))
<1>4. m \in 1 .. a - b + 1
  BY <1>1, <1>3
<1> HIDE DEF m
<1>5. m \in 1 .. a + 1 /\ m + b <= a + 1
  BY <1>4
<1> QED
  BY <1>5 DEF m

\* A match lies in the text, and in an empty text only a blank is found.
FoundIn(base, m, old) ==
  /\ m.index \in 1 .. Len(base) + 1 /\ m.length \in Nat /\ m.index + m.length <= Len(base) + 1
  /\ base = <<>> => old = <<>> \/ normalizeForFuzzyMatch(old) = <<>>

\* fuzzyFindText answers a match of that kind, exact or not.
LEMMA FoundIs ==
  ASSUME NEW base \in Seq(Plain), NEW old \in Seq(Plain), fuzzyFindText(base, old).found
  PROVE  FoundIn(base, fuzzyFindText(base, old), old)
<1> DEFINE fb == normalizeForFuzzyMatch(base)  fo == normalizeForFuzzyMatch(old)  m == fuzzyFindText(base, old)
<1>1. fb \in Seq(Plain) /\ fo \in Seq(Plain) /\ Len(fb) <= Len(base)
  BY FuzzyIs
<1>2. /\ StartsAt(base, old) # {} => m.index = Min(StartsAt(base, old)) /\ m.length = Len(old)
      /\ StartsAt(base, old) = {} => /\ StartsAt(fb, fo) # {}
                                     /\ m.index = Min(StartsAt(fb, fo)) /\ m.length = Len(fo)
  BY DEF fuzzyFindText, NotFound
<1> HIDE DEF fb, fo, m
<1>3. Len(base) \in Nat /\ Len(old) \in Nat /\ Len(fb) \in Nat /\ Len(fo) \in Nat
  BY <1>1, LenProperties
<1>4. base = <<>> => Len(base) = 0
  BY EmptySeq
<1>5. CASE StartsAt(base, old) # {}
  <2>1. m.index \in 1 .. Len(base) + 1 /\ m.index + Len(old) <= Len(base) + 1
    BY <1>2, <1>3, <1>5, StartsIn
  <2>2. base = <<>> => Len(old) = 0
    BY <1>3, <1>4, <2>1
  <2>3. base = <<>> => old = <<>>
    BY <2>2, EmptySeq
  <2> QED
    BY <1>2, <1>3, <1>5, <2>1, <2>3 DEF FoundIn, m
<1>6. CASE StartsAt(base, old) = {}
  <2>1. m.index \in 1 .. Len(fb) + 1 /\ m.index + Len(fo) <= Len(fb) + 1
    BY <1>2, <1>3, <1>6, StartsIn
  <2>2. m.index \in 1 .. Len(base) + 1 /\ m.index + Len(fo) <= Len(base) + 1
    BY <1>1, <1>3, <2>1
  <2>3. base = <<>> => Len(fo) = 0
    BY <1>3, <1>4, <2>2
  <2>4. base = <<>> => fo = <<>>
    BY <1>1, <2>3, EmptySeq
  <2> QED
    BY <1>2, <1>3, <1>6, <2>2, <2>4 DEF FoundIn, m, fo
<1> QED
  BY <1>5, <1>6

\* Requests to edit.
Edits == {e \in Seq([old : Seq(Marks), new : Seq(Marks)]) : e # <<>>}
News(edits) == [i \in DOMAIN edits |-> normalizeToLF(edits[i].new)]

\* An edit that goes through: its matches lie in the base text and do not overlap, and the
\* new text is what they make of it at once.
AppliedRight(content, edits, r) ==
  /\ Matching(Plain, r.base, News(edits), r.match)
  /\ DOMAIN r.match = DOMAIN edits
  /\ r.new = Together(r.base, News(edits), r.match, DOMAIN edits)
  /\ r.new \in Seq(Plain)
  /\ content = <<>> => Blank(edits)

LEMMA TogetherIn ==
  ASSUME NEW T, NEW base, NEW new, NEW match, Matching(T, base, new, match), NEW S
  PROVE  Together(base, new, match, S) \in Seq(T)
<1>1. base \in Seq(T) /\ new \in Seq(Seq(T))
  BY DEF Matching
<1>2. Pieces(base, new, match, S) \in Seq(Seq(T))
  BY <1>1, PiecesAre
<1> DEFINE s == Pieces(base, new, match, S)
<1> HIDE DEF s
<1>3. s \in Seq(Seq(T))
  BY <1>2 DEF s
<1>4. PICK f : Joins(T, f, s)
  BY <1>3, JoinsExists
<1>5. FlattenSeq(s) \in Seq(T)
  BY <1>3, <1>4, FlattenIs
<1> QED
  BY <1>5 DEF s, Together

\* applyEditsToNormalizedContent answers such an edit or fails.
LEMMA AppliedIs ==
  ASSUME NEW content \in Seq(Plain), NEW asked \in Edits, NEW r,
         r = applyEditsToNormalizedContent(content, asked), r.ok
  PROVE  AppliedRight(content, asked, r)
<1> DEFINE D == DOMAIN asked
           edits == [i \in D |-> [old |-> normalizeToLF(asked[i].old), new |-> normalizeToLF(asked[i].new)]]
           base == EditBase(content, edits)
           match == [i \in DOMAIN edits |-> fuzzyFindText(base, edits[i].old)]
           new == News(asked)
<1>1. /\ \A i \in DOMAIN edits : edits[i].old # <<>> /\ match[i].found
      /\ ~Overlap(match) /\ r.base = base /\ r.match = match /\ r.new = ApplyMatches(base, edits, match)
  BY DEF applyEditsToNormalizedContent, Failed
<1>2. asked \in Seq([old : Seq(Marks), new : Seq(Marks)]) /\ asked # <<>>
  BY DEF Edits
<1>3. \A i \in D : asked[i].old \in Seq(Marks) /\ asked[i].new \in Seq(Marks)
  <2>1. \A i \in 1 .. Len(asked) : asked[i] \in [old : Seq(Marks), new : Seq(Marks)]
    BY <1>2, ElementOfSeq
  <2>2. D = 1 .. Len(asked)
    BY <1>2, LenProperties
  <2> HIDE DEF D
  <2> QED
    BY <2>1, <2>2
<1>4. D = 1 .. Len(asked) /\ Len(asked) \in Nat
  BY <1>2, LenProperties
<1> HIDE DEF D
<1>5. /\ DOMAIN edits = D
      /\ \A i \in D : /\ edits[i].old = normalizeToLF(asked[i].old) /\ edits[i].old \in Seq(Plain)
                      /\ edits[i].new = normalizeToLF(asked[i].new) /\ edits[i].new \in Seq(Plain)
  BY <1>3, NormalizedIs
<1>6. DOMAIN new = D /\ \A i \in D : new[i] = edits[i].new
  BY <1>5 DEF News, D
<1>7. new = [i \in D |-> edits[i].new]
  BY <1>5 DEF News, D
<1> HIDE DEF edits
<1>8. base \in Seq(Plain) /\ (content = <<>> => base = <<>>)
  <2>1. normalizeForFuzzyMatch(content) \in Seq(Plain) /\ Len(normalizeForFuzzyMatch(content)) <= Len(content)
    BY FuzzyIs
  <2> DEFINE f == normalizeForFuzzyMatch(content)
  <2>2. base = f \/ base = content
    BY DEF EditBase
  <2> HIDE DEF f, base
  <2>3. f \in Seq(Plain) /\ Len(f) <= Len(content)
    BY <2>1 DEF f
  <2>4. Len(f) \in Nat /\ (content = <<>> => Len(content) = 0)
    BY <2>3, LenProperties, EmptySeq
  <2>5. content = <<>> => f = <<>>
    BY <2>3, <2>4, EmptySeq
  <2> QED
    BY <2>2, <2>3, <2>5
<1> HIDE DEF base
<1>9. DOMAIN match = D /\ \A i \in D : match[i] = fuzzyFindText(base, edits[i].old)
  BY <1>5
<1> HIDE DEF match
<1>10. \A i \in D : FoundIn(base, match[i], edits[i].old)
  BY <1>1, <1>5, <1>8, <1>9, FoundIs
<1>11. new \in Seq(Seq(Plain))
  <2>1. new \in [D -> Seq(Plain)]
    BY <1>5, <1>7
  <2> HIDE DEF new
  <2> QED
    BY <1>4, <2>1
<1> HIDE DEF new
<1>12. Matching(Plain, base, new, match)
  <2>1. \A i \in D : /\ match[i].index \in 1 .. Len(base) + 1 /\ match[i].length \in Nat
                     /\ match[i].index + match[i].length <= Len(base) + 1
    BY <1>10 DEF FoundIn
  <2>2. Len(base) \in Nat
    BY <1>8, LenProperties
  <2>3. \A i, j \in D : i # j /\ Precedes(match, i, j) => match[i].index + match[i].length <= match[j].index
    <3> TAKE i, j \in D
    <3>1. match[i].index \in Nat /\ match[i].length \in Nat /\ match[j].index \in Nat
      BY <2>1, <2>2
    <3>2. ~(i # j /\ Precedes(match, i, j) /\ match[i].index + match[i].length > match[j].index)
      BY <1>1, <1>9 DEF Overlap
    <3> QED
      BY <3>1, <3>2
  <2> QED
    BY <1>6, <1>8, <1>11, <2>1, <2>3 DEF Matching
<1>13. ApplyMatches(base, edits, match) = Together(base, new, match, DOMAIN edits)
  BY <1>5, <1>7, <1>12, AppliedTogether
<1>14. Together(base, new, match, D) \in Seq(Plain)
  BY <1>12, TogetherIn
<1>15. content = <<>> => Blank(asked)
  <2>1. 1 \in D
    BY <1>2, <1>4, EmptySeq
  <2>2. FoundIn(base, match[1], edits[1].old) /\ edits[1].old # <<>> /\ edits[1].old = normalizeToLF(asked[1].old)
    BY <1>1, <1>5, <1>10, <2>1
  <2>3. content = <<>> => normalizeForFuzzyMatch(normalizeToLF(asked[1].old)) = <<>>
    BY <1>8, <2>2 DEF FoundIn
  <2> QED
    BY <2>1, <2>3 DEF Blank, D
<1> QED
  BY <1>1, <1>5, <1>9, <1>12, <1>13, <1>14, <1>15 DEF AppliedRight, new, D

\* What the matches make of the text together is what replacing them all at once gives.
LEMMA AtOnce ==
  ASSUME NEW base, NEW edits, NEW match, DOMAIN match = DOMAIN edits
  PROVE  Simultaneous(base, edits, match) = Together(base, News(edits), match, DOMAIN edits)
<1> DEFINE D == DOMAIN edits  new == News(edits)
           inside(p) == \E i \in DOMAIN match : match[i].index <= p /\ p < match[i].index + match[i].length
           started(p) == [i \in D |-> IF i \in {j \in DOMAIN match : match[j].index = p}
                                      THEN normalizeToLF(edits[i].new) ELSE <<>>]
           kept(p) == IF inside(p) \/ p > Len(base) THEN <<>> ELSE <<base[p]>>
           piece(p) == FlattenSeq(started(p)) \o kept(p)
<1>1. Simultaneous(base, edits, match) = FlattenSeq([p \in 1 .. Len(base) + 1 |-> piece(p)])
  BY DEF Simultaneous
<1>2. ASSUME NEW p \in 1 .. Len(base) + 1
      PROVE  piece(p) = FlattenSeq(Started(new, match, D, p)) \o Kept(base, match, D, p)
  <2>1. started(p) = Started(new, match, D, p)
    BY DEF Started, News
  <2>2. kept(p) = Kept(base, match, D, p)
    BY DEF Kept
  <2> HIDE DEF started, kept
  <2> QED
    BY <2>1, <2>2
<1> HIDE DEF piece
<1>3. [p \in 1 .. Len(base) + 1 |-> piece(p)] = Pieces(base, new, match, D)
  BY <1>2 DEF Pieces
<1> QED
  BY <1>1, <1>3 DEF Together

\* A file: a text with or without a byte order mark before it.
WithBom(s, bom, x) == bom \in {<<>>, <<"bom">>} /\ x \in Seq(Marks) /\ s = bom \o x
IsText(s) == \E bom \in {<<>>, <<"bom">>}, x \in Seq(Marks) : WithBom(s, bom, x)

\* The mark before a text is told from the text, and no line end is lost with it.
LEMMA BomIs ==
  ASSUME NEW s, NEW bom, NEW x, WithBom(s, bom, x)
  PROVE  /\ stripBom(s) = x /\ (bom = IF x = s THEN <<>> ELSE <<"bom">>)
         /\ (s # <<>> /\ s[1] = "bom") <=> bom = <<"bom">>
         /\ CrLfAt(s) = {} <=> CrLfAt(x) = {}
<1> DEFINE n == Len(x)
<1>1. n \in Nat /\ x \in Seq(Marks) /\ \A i \in 1 .. n : x[i] \in Marks
  BY LenProperties, ElementOfSeq DEF WithBom
<1>2. "bom" \notin Marks /\ "bom" # "cr"
  BY DEF Marks, Plain
<1>3. CASE bom = <<>>
  <2>1. s = x
    BY <1>1, <1>3, ConcatEmptySeq DEF WithBom
  <2>2. ~(x # <<>> /\ x[1] = "bom")
    <3>1. x # <<>> => 1 \in 1 .. n
      BY <1>1, EmptySeq
    <3> QED
      BY <1>1, <1>2, <3>1
  <2>3. <<>> # <<"bom">>
    OBVIOUS
  <2> HIDE DEF n
  <2> QED
    BY <1>3, <2>1, <2>2, <2>3 DEF stripBom
<1>4. CASE bom = <<"bom">>
  <2> DEFINE b == <<"bom">>
  <2>1. b \in Seq({"bom"} \cup Marks) /\ x \in Seq({"bom"} \cup Marks) /\ Len(b) = 1 /\ b[1] = "bom"
    BY <1>1
  <2>2. s = b \o x
    BY <1>4 DEF WithBom
  <2> HIDE DEF b
  <2>3. s \in Seq({"bom"} \cup Marks) /\ Len(s) = n + 1 /\ \A i \in 1 .. n + 1 : s[i] = IF i <= 1 THEN b[i] ELSE x[i - 1]
    <3>1. /\ b \o x \in Seq({"bom"} \cup Marks) /\ Len(b \o x) = Len(b) + Len(x)
          /\ \A i \in 1 .. Len(b) + Len(x) : (b \o x)[i] = IF i <= Len(b) THEN b[i] ELSE x[i - Len(b)]
      BY <2>1, ConcatProperties
    <3> QED
      BY <1>1, <2>1, <2>2, <3>1
  <2> HIDE DEF n
  <2>4. s[1] = "bom" /\ s # <<>>
    BY <1>1, <2>1, <2>3, EmptySeq
  <2>5. \A i \in 1 .. n : s[i + 1] = x[i]
    BY <1>1, <2>3
  <2>6. Tail(s) = x
    <3>1. Tail(s) \in Seq({"bom"} \cup Marks) /\ Len(Tail(s)) = Len(s) - 1 /\ \A i \in 1 .. Len(Tail(s)) : Tail(s)[i] = s[i + 1]
      BY <2>3, <2>4, HeadTailProperties
    <3> DEFINE t == Tail(s)
    <3> HIDE DEF t
    <3>2. t \in Seq({"bom"} \cup Marks) /\ Len(t) = n /\ \A i \in 1 .. n : t[i] = x[i]
      BY <1>1, <2>3, <2>5, <3>1 DEF t
    <3>3. t = x
      BY <2>1, <3>2, SeqEqual DEF n
    <3> QED
      BY <3>3 DEF t
  <2>7. x # s
    BY <1>1, <2>3 DEF n
  <2>8. CrLfAt(s) = {} <=> CrLfAt(x) = {}
    <3>1. ASSUME NEW i \in CrLfAt(x) PROVE i + 1 \in CrLfAt(s)
      <4>1. i \in 1 .. n - 1 /\ x[i] = "cr" /\ x[i + 1] = "nl"
        BY DEF CrLfAt, n
      <4> DEFINE j == i + 1
      <4>2. i \in 1 .. n /\ j \in 1 .. n /\ j \in 1 .. Len(s) - 1
        BY <1>1, <2>3, <4>1
      <4>3. s[j] = "cr" /\ s[j + 1] = "nl"
        BY <2>5, <4>1, <4>2
      <4> QED
        BY <4>2, <4>3 DEF CrLfAt
    <3>2. ASSUME NEW i \in CrLfAt(s) PROVE i - 1 \in CrLfAt(x)
      <4>1. i \in 1 .. Len(s) - 1 /\ s[i] = "cr" /\ s[i + 1] = "nl"
        BY DEF CrLfAt
      <4>2. i # 1
        BY <1>2, <2>4, <4>1
      <4> DEFINE j == i - 1
      <4>3. j \in 1 .. n - 1 /\ j \in 1 .. n /\ j + 1 \in 1 .. n /\ i = j + 1
        BY <1>1, <2>3, <4>1, <4>2
      <4> HIDE DEF j
      <4>4. x[j] = "cr" /\ x[j + 1] = "nl"
        BY <2>5, <4>1, <4>3
      <4> QED
        BY <4>3, <4>4 DEF CrLfAt, n, j
    <3> QED
      BY <3>1, <3>2
  <2> QED
    BY <1>4, <2>4, <2>6, <2>7, <2>8 DEF stripBom, b
<1> QED
  BY <1>3, <1>4 DEF WithBom

\* What an edit owes to the file it read, as EditsAreSimultaneous says it.
EditedRight(content, edits, wrote) ==
  /\ LET r == EditResult(content, edits).res
     IN  /\ normalizeToLF(stripBom(wrote)) = Simultaneous(r.base, edits, r.match)
         /\ content # <<>> /\ content[1] = "bom" => wrote[1] = "bom"
         /\ CrLfAt(wrote) = {} \/ CrLfAt(content) # {}
  /\ Blank(edits) \/ content # <<>>

\* Every edit that goes through is right, and what it writes is a text again.
LEMMA EditedIs ==
  ASSUME NEW content, IsText(content), NEW edits \in Edits, NEW r, r = EditResult(content, edits), r.ok
  PROVE  IsText(r.final) /\ EditedRight(content, edits, r.final)
<1>1. PICK bom \in {<<>>, <<"bom">>}, text \in Seq(Marks) : WithBom(content, bom, text)
  BY DEF IsText
<1>2. /\ stripBom(content) = text /\ (bom = IF text = content THEN <<>> ELSE <<"bom">>)
      /\ (content # <<>> /\ content[1] = "bom") <=> bom = <<"bom">>
      /\ CrLfAt(content) = {} <=> CrLfAt(text) = {}
  BY <1>1, BomIs
<1> DEFINE lf == normalizeToLF(text)
           res == applyEditsToNormalizedContent(lf, edits)
           put == restoreLineEndings(res.new, detectLineEnding(text))
           final == bom \o put
<1>3. res.ok /\ r.res = res /\ r.final = final
  BY <1>2 DEF EditResult
<1>4. lf \in Seq(Plain)
  BY <1>1, NormalizedIs
<1>5. AppliedRight(lf, edits, res)
  <2> HIDE DEF lf, res
  <2> QED
    BY <1>3, <1>4, AppliedIs DEF res
<1> HIDE DEF lf, res
<1>6. res.new \in Seq(Plain) /\ res.new = Together(res.base, News(edits), res.match, DOMAIN edits)
      /\ DOMAIN res.match = DOMAIN edits /\ (lf = <<>> => Blank(edits))
  BY <1>5 DEF AppliedRight
<1>7. put \in Seq(Marks) /\ normalizeToLF(put) = res.new
  BY <1>6, RestoredIs
<1>8. CrLfAt(text) = {} => CrLfAt(put) = {}
  <2>1. CrLfAt(text) = {} => detectLineEnding(text) = "nl"
    BY DEF detectLineEnding
  <2>2. CrLfAt(text) = {} => put = res.new
    BY <2>1 DEF restoreLineEndings
  <2>3. CrLfAt(res.new) = {}
    BY <1>6, NormalizedAlready
  <2> HIDE DEF put
  <2> QED
    BY <2>2, <2>3
<1> HIDE DEF put
<1>9. WithBom(final, bom, put)
  BY <1>1, <1>7 DEF WithBom
<1>10. /\ stripBom(final) = put
       /\ (final # <<>> /\ final[1] = "bom") <=> bom = <<"bom">>
       /\ CrLfAt(final) = {} <=> CrLfAt(put) = {}
  <2> HIDE DEF final
  <2> QED
    BY <1>9, BomIs
<1> HIDE DEF final
<1>11. IsText(final)
  BY <1>1, <1>7, <1>9 DEF IsText
<1>12. normalizeToLF(stripBom(final)) = Simultaneous(res.base, edits, res.match)
  BY <1>6, <1>7, <1>10, AtOnce
<1>13. content = <<>> => Blank(edits)
  <2>1. content = <<>> => text = <<>>
    BY <1>2 DEF stripBom
  <2>2. <<>> \in Seq(Plain)
    BY EmptySeq
  <2>3. normalizeToLF(<<>>) = <<>>
    BY <2>2, NormalizedAlready
  <2> QED
    BY <1>6, <2>1, <2>3 DEF lf
<1> QED
  BY <1>2, <1>3, <1>8, <1>10, <1>11, <1>12, <1>13 DEF EditedRight

EditInv ==
  /\ DOMAIN editor = {"pc", "edits", "base", "wrote"}
  /\ job = "editing" => IsText(file) /\ editor.edits \in Edits
  /\ editor.pc \in {"truncate", "fill", "done"} =>
       job = "editing" /\ IsText(editor.wrote) /\ EditedRight(editor.base, editor.edits, editor.wrote)

LEMMA EditsEnd == EditInv => EditsAreSimultaneous
  BY DEF EditInv, EditsAreSimultaneous, EditedRight

LEMMA TextIs ==
  ASSUME NEW s \in Seq(Marks)
  PROVE  IsText(s) /\ IsText(<<"bom">> \o s)
<1>1. <<>> \o s = s
  BY ConcatEmptySeq
<1> QED
  BY <1>1 DEF IsText, WithBom

LEMMA FilesAreTexts == \A content \in EditFiles : IsText(content)
<1> DEFINE A == {"a", "q", "sp", "nl", "cr"}  B == {"a", "q", "nl"}
<1>0. A \subseteq Marks /\ B \subseteq Marks
  BY DEF Marks, Plain
<1> HIDE DEF A, B
<1>1. ASSUME NEW n \in 0 .. EditFile, NEW content \in [1 .. n -> A] PROVE IsText(content)
  <2>1. n \in Nat
    BY FileAssumption
  <2>2. content \in [1 .. n -> Marks]
    BY <1>0
  <2>3. content \in Seq(Marks)
    BY <2>1, <2>2
  <2> QED
    BY <2>3, TextIs
<1>2. ASSUME NEW s \in [1 .. EditFile - 1 -> B] PROVE IsText(<<"bom">> \o s)
  <2>1. PICK n \in Nat : 1 .. n = 1 .. EditFile - 1
    <3>1. CASE EditFile = 0
      <4>1. 1 .. 0 = 1 .. EditFile - 1
        BY <3>1
      <4> QED
        BY <4>1
    <3>2. CASE EditFile # 0
      BY <3>2, FileAssumption
    <3> QED
      BY <3>1, <3>2
  <2>2. s \in [1 .. n -> Marks]
    BY <1>0, <2>1
  <2>3. s \in Seq(Marks)
    BY <2>1, <2>2
  <2> QED
    BY <2>3, TextIs
<1>3. ASSUME NEW content \in EditFiles PROVE IsText(content)
  <2>1. (\E n \in 0 .. EditFile : content \in [1 .. n -> A])
        \/ \E s \in [1 .. EditFile - 1 -> B] : content = <<"bom">> \o s
    <3> DEFINE X == {[1 .. n -> A] : n \in 0 .. EditFile}  Y == {<<"bom">> \o s : s \in [1 .. EditFile - 1 -> B]}
    <3>1. EditFiles = (UNION X) \cup Y
      BY DEF EditFiles, A, B
    <3>2. content \in UNION X => \E n \in 0 .. EditFile : content \in [1 .. n -> A]
      BY Zenon
    <3>3. content \in Y => \E s \in [1 .. EditFile - 1 -> B] : content = <<"bom">> \o s
      OBVIOUS
    <3> HIDE DEF X, Y
    <3> QED
      BY <3>1, <3>2, <3>3
  <2> QED
    BY <1>1, <1>2, <2>1
<1> QED
  BY <1>3

\* What a run may ask for is among them.
LEMMA RequestsAreEdits == \A edits \in Requests : edits \in Edits
<1> DEFINE R == [old : Seq(Marks), new : Seq(Marks)]
<1>1. <<>> \in Seq(Marks) /\ <<"X">> \in Seq(Marks) /\ <<"Y">> \in Seq(Marks)
  BY EmptySeq DEF Marks, Plain
<1>2. ASSUME NEW o \in Old PROVE o \in Seq(Marks)
  <2>1. \A x, y, z \in Marks : <<x>> \in Seq(Marks) /\ <<x, y>> \in Seq(Marks) /\ <<x, y, z>> \in Seq(Marks)
    <3> HIDE DEF Marks
    <3> QED
      OBVIOUS
  <2>2. "a" \in Marks /\ "q" \in Marks /\ "sp" \in Marks /\ "nl" \in Marks /\ "cr" \in Marks
    BY DEF Marks, Plain
  <2> QED
    BY <2>1, <2>2, Zenon DEF Old, Short
<1>3. Short \subseteq Old
  BY DEF Old
<1>4. ASSUME NEW a \in R PROVE <<a>> \in Edits
  <2>1. <<a>> \in Seq(R) /\ Len(<<a>>) = 1
    OBVIOUS
  <2>2. <<a>> # <<>>
    OBVIOUS
  <2> QED
    BY <2>1, <2>2 DEF Edits
<1>5. ASSUME NEW a \in R, NEW b \in R PROVE <<a, b>> \in Edits
  <2> HIDE DEF R
  <2>1. <<a, b>> \in Seq(R)
    OBVIOUS
  <2>2. <<a, b>> # <<>>
    OBVIOUS
  <2> QED
    BY <2>1, <2>2 DEF Edits, R
<1> SUFFICES ASSUME NEW edits \in Requests PROVE edits \in Edits
  OBVIOUS
<1>6. CASE \E o \in Old, n \in {<<"X">>, <<>>} : edits = <<[old |-> o, new |-> n]>>
  <2>1. PICK o \in Old, n \in {<<"X">>, <<>>} : edits = <<[old |-> o, new |-> n]>>
    BY <1>6
  <2>2. [old |-> o, new |-> n] \in R
    BY <1>1, <1>2, <2>1
  <2> QED
    BY <1>4, <2>1, <2>2
<1>7. CASE \E o \in Short : edits = <<[old |-> o, new |-> o]>>
  <2>1. PICK o \in Short : edits = <<[old |-> o, new |-> o]>>
    BY <1>7
  <2>2. [old |-> o, new |-> o] \in R
    BY <1>2, <1>3, <2>1
  <2> QED
    BY <1>4, <2>1, <2>2
<1>8. CASE \E o \in Short, p \in Short : edits = <<[old |-> o, new |-> <<"X">>], [old |-> p, new |-> <<"Y">>]>>
  <2>1. PICK o \in Short, p \in Short : edits = <<[old |-> o, new |-> <<"X">>], [old |-> p, new |-> <<"Y">>]>>
    BY <1>8
  <2>2. [old |-> o, new |-> <<"X">>] \in R /\ [old |-> p, new |-> <<"Y">>] \in R
    BY <1>1, <1>2, <1>3, <2>1
  <2> QED
    BY <1>5, <2>1, <2>2
<1> QED
  BY <1>6, <1>7, <1>8 DEF Requests

LEMMA EditStarts == FileInit => EditInv
  BY DEF FileInit, EditInv

LEMMA EditRests == EditInv /\ UNCHANGED fileVars => EditInv'
  BY DEF EditInv, fileVars

LEMMA EditKeeps == EditInv /\ [FileNext]_fileVars => EditInv'
<1> SUFFICES ASSUME EditInv, [FileNext]_fileVars PROVE EditInv'
  OBVIOUS
<1> USE DEF EditInv
<1>1. CASE StartPaging
  BY <1>1 DEF StartPaging
<1>2. CASE ReadNext
  BY <1>2 DEF ReadNext
<1>3. CASE StartEdit
  <2>1. PICK content \in EditFiles, edits \in Requests :
          file' = content /\ editor' = [pc |-> "access", edits |-> edits, base |-> <<>>, wrote |-> <<>>]
    BY <1>3 DEF StartEdit
  <2>2. IsText(content) /\ edits \in Edits
    BY FilesAreTexts, RequestsAreEdits
  <2> QED
    BY <2>1, <2>2
<1>4. CASE EditAccess
  BY <1>4 DEF EditAccess
<1>5. CASE EditRead
  <2>1. PICK rc \in RemoteExits, strict \in BOOLEAN :
          LET r == EditResult(file, editor.edits)
          IN  editor' = IF sshReadFile(rc, strict) = "ok" /\ r.ok
                        THEN [editor EXCEPT !.pc = "truncate", !.base = file, !.wrote = r.final]
                        ELSE [editor EXCEPT !.pc = "refused", !.base = file]
    BY <1>5 DEF EditRead
  <2>2. job = "editing" /\ job' = job /\ file' = file /\ IsText(file) /\ editor.edits \in Edits
    BY <1>5 DEF EditRead
  <2> DEFINE r == EditResult(file, editor.edits)
  <2>3. r.ok => IsText(r.final) /\ EditedRight(file, editor.edits, r.final)
    <3> HIDE DEF r
    <3> QED
      BY <2>2, EditedIs DEF r
  <2>4. \/ editor' = [editor EXCEPT !.pc = "refused", !.base = file]
        \/ r.ok /\ editor' = [editor EXCEPT !.pc = "truncate", !.base = file, !.wrote = r.final]
    BY <2>1
  <2> HIDE DEF r
  <2> QED
    BY <2>2, <2>3, <2>4
<1>6. CASE EditTruncates \/ WriteTruncates
  <2>1. <<>> \in Seq(Marks)
    BY EmptySeq
  <2>2. IsText(<<>>)
    BY <2>1, TextIs
  <2> QED
    BY <1>6, <2>2 DEF EditTruncates, WriteTruncates
<1>7. CASE EditFills
  <2>1. \/ editor' = [editor EXCEPT !.pc = "done"] /\ file' = editor.wrote
        \/ editor' = [editor EXCEPT !.pc = "refused"] /\ file' = file
    BY <1>7 DEF EditFills
  <2>2. job = "editing" /\ job' = job /\ editor.pc = "fill"
    BY <1>7 DEF EditFills
  <2> QED
    BY <2>1, <2>2
<1>8. CASE OpenFails
  BY <1>8 DEF OpenFails
<1>9. CASE WriteRefused
  BY <1>9 DEF WriteRefused
<1>10. CASE WriteFills
  <2>1. <<"a", "W">> \in Seq(Marks)
    BY DEF Marks, Plain
  <2>2. IsText(<<"a", "W">>)
    BY <2>1, TextIs
  <2>3. file' = file \/ file' = <<"a", "W">>
    BY <1>10 DEF WriteFills
  <2> QED
    BY <1>10, <2>2, <2>3 DEF WriteFills
<1>11. CASE UNCHANGED fileVars
  BY <1>11 DEF fileVars
<1> QED
  BY <1>1, <1>2, <1>3, <1>4, <1>5, <1>6, <1>7, <1>8, <1>9, <1>10, <1>11 DEF FileNext

-----------------------------------------------------------------------------
(* The server.                                                             *)

ToolInv == KeepsTheBytes /\ TailInv /\ GateInv /\ Paging /\ SearchInv /\ EditInv

LEMMA ToolStarts == ToolInit => ToolInv
<1>1. FileInit => Paging
  BY DEF FileInit, Paging
<1> QED
  BY <1>1, BashStarts, TailStarts, GateStarts, SearchStarts, EditStarts DEF ToolInit, ToolInv

LEMMA ToolKeeps == ToolInv /\ [ToolNext]_toolVars => ToolInv'
<1> SUFFICES ASSUME ToolInv, [ToolNext]_toolVars PROVE ToolInv'
  OBVIOUS
<1>0. /\ UNCHANGED fileVars => Paging' /\ EditInv'
      /\ UNCHANGED searchVars => SearchInv'
      /\ UNCHANGED bashVars => KeepsTheBytes' /\ TailInv'
      /\ UNCHANGED gateVars => GateInv'
  BY PagingKept, SearchRests, BashRests, TailRests, GateRests, EditRests DEF ToolInv
<1>1. CASE called = "bash" /\ BashNext /\ UNCHANGED <<searchVars, fileVars, gateVars, called, response>>
  BY <1>0, <1>1, BashKeeps, TailKeeps DEF ToolInv
<1>2. CASE called = "search" /\ SearchNext /\ UNCHANGED <<bashVars, fileVars, gateVars, called, response>>
  BY <1>0, <1>2, SearchKeeps DEF ToolInv
<1>3. CASE called = "file" /\ FileNext /\ UNCHANGED <<bashVars, searchVars, gateVars, called, response>>
  BY <1>0, <1>3, PagingKept, EditKeeps DEF ToolInv
<1>4. CASE called = "sandbox" /\ GateNext /\ UNCHANGED <<bashVars, searchVars, fileVars, called, response>>
  BY <1>0, <1>4, GateKeeps DEF ToolInv
<1>5. CASE CallTool
  BY <1>0, <1>5 DEF ToolInv, CallTool
<1>6. CASE UNCHANGED toolVars
  BY <1>0, <1>6 DEF ToolInv, toolVars
<1> QED
  BY <1>1, <1>2, <1>3, <1>4, <1>5, <1>6 DEF ToolNext

\* Whenever the bash tool leaves output out of its answer, every byte the call received is in
\* one file, once and in order: for every limit on lines and bytes, every way the pipe cuts
\* the output, and whether the call is settled by an exit, a timeout or a lost connection
\* (tools/output-accumulator.ts, tools/bash.ts).
THEOREM OutputIsKept == ToolSpec => []FullOutputIsKept
<1>1. ToolInv => FullOutputIsKept
  BY TheFileHasTheOutput DEF ToolInv
<1> QED
  BY <1>1, ToolStarts, ToolKeeps, PTL DEF ToolSpec

\* What the bash tool shows is the end of everything the call received, cut as if all of it
\* had been kept, and its footer names those lines: for every limit on lines and bytes and
\* every way the pipe cuts the output, inside a character or not, as long as no line is longer
\* than the limit on bytes (tools/output-accumulator.ts, tools/truncate.ts, tools/bash.ts).
THEOREM TheTailIsShown == ToolSpec => []BashShowsTheTail
<1>1. ToolInv => BashShowsTheTail
  BY TailIsShown DEF ToolInv
<1> QED
  BY <1>1, ToolStarts, ToolKeeps, PTL DEF ToolSpec

\* No tool operation runs in a session that is not the ready one, however many boots, stops,
\* waiting calls and probes there are and wherever close() falls among them
\* (vm/boot-backend.ts).
THEOREM CacheIsTheReadySession == ToolSpec => []RunsInTheReadySession
<1>1. ToolInv => RunsInTheReadySession
  BY DEF ToolInv, GateInv
<1> QED
  BY <1>1, ToolStarts, ToolKeeps, PTL DEF ToolSpec

\* A reader who follows the offsets the answers of read name gets every line of the file once
\* and in order, for every file and page size, with a limit of one line or more and without
\* one; of a line that is too long to be shown there is the page that says so (tools/read.ts,
\* tools/truncate.ts).
THEOREM PagesCoverTheFile == ToolSpec => []ReadPagesCoverTheFile
<1>1. ToolInv => ReadPagesCoverTheFile
  BY PagingEnds DEF ToolInv
<1> QED
  BY <1>1, ToolStarts, ToolKeeps, PTL DEF ToolSpec

\* What grep, find and ls answer is the results that have a row, in their order from the first
\* on, and an answer that leaves any of those out says so, also when matches without a row
\* (grep's, in a file whose path is no text) used up the limit: for every number of lines,
\* limit, byte cap and way the pipe cuts the lines, on the host, where the stopped process is
\* waited for, and in the guest, where it is not (tools/grep.ts, tools/find.ts, tools/ls.ts,
\* tools/truncate.ts).
THEOREM NothingIsDropped == ToolSpec => []NothingIsDroppedSilently
<1>1. ToolInv => NothingIsDroppedSilently
  BY DEF ToolInv, SearchInv
<1> QED
  BY <1>1, ToolStarts, ToolKeeps, PTL DEF ToolSpec

\* An edit that goes through writes what replacing all its matches at once in the text it read
\* gives, with the line ends and the byte order mark of that text, and goes through on an empty
\* file only if an old text is blank: for files of any length, whatever write of another
\* request comes between its steps.  The specification asks for one edit or two; EditedIs says
\* the same of any number of them and of any texts (tools/edit.ts, tools/edit-diff.ts).
THEOREM EditsAreAtOnce == ToolSpec => []EditsAreSimultaneous
<1>1. ToolInv => EditsAreSimultaneous
  BY EditsEnd DEF ToolInv
<1> QED
  BY <1>1, ToolStarts, ToolKeeps, PTL DEF ToolSpec

=============================================================================
