--------------------------- MODULE QemuProcessProofs ---------------------------
(***************************************************************************)
(* Theorems about QemuProcess.tla, for any set of users and of stop        *)
(* sequences, and for every bound.                                         *)
(***************************************************************************)
EXTENDS QemuProcess, SequenceTheorems, TLAPS

-----------------------------------------------------------------------------
(* The inductive invariant.                                                 *)

(* The process: its exit is seen when it is dead, and a start that gives up *)
(* or a stop sequence that ends has done what it can to get there.          *)
ChildAccountedFor ==
  /\ exitSeen => proc = "dead"
  /\ start.pc = "spawn" => proc = "none"
  /\ start.pc \in {"killWait", "rejected"} => Gone \/ proc = "stuck" \/ "KILL" \in signals
  /\ \A s \in Stoppers : ladder[s] = "gone" => proc = "dead"

(* The start and its connection: a handshake is open, an open connection    *)
(* that is settled belongs to a handle, and a closed one holds nothing.     *)
ConnectionFollowsStart ==
  /\ start.pc = "handshake" <=> ~conn.settled
  /\ ~conn.settled => conn.open
  /\ conn.open /\ conn.settled => start.pc = "up"
  /\ ~conn.open => conn.pending = {} /\ toQemu = <<>> /\ toClient = <<>>
  /\ start.pc \in {"spawn", "poll", "connect", "retry"} => start.attempt < ConnectAttempts

(* The bytes that will still reach the decoder.                             *)
Wire == IF conn.open THEN conn.tail \o toClient ELSE <<>>

(* Bytes B come in lines of two parts, and begin and end with a line.       *)
Whole(B) ==
  \A i \in DOMAIN B :
    /\ B[i].part = 1 => /\ i + 1 \in DOMAIN B /\ B[i + 1].part = 2
                        /\ i > 1 => B[i - 1].part = 2
    /\ B[i].part = 2 => i > 1 /\ B[i - 1].part = 1 /\ B[i - 1].frame = B[i].frame

(* Among the entries P of tasks t, those with the id of x have its serial.  *)
Owners(P) == {e.by : e \in P}
Fits(P, n, t, x) ==
  /\ x.id <= n
  /\ \A e \in P : e.id = x.id => t[e.by].serial = x.serial

IsReply(f) == f.kind \in {"return", "error"}

(* The client's entries P, the last id n it gave out, the tasks t, the      *)
(* commands Q and bytes B under way belong together.                        *)
EntriesFit(P, n, t) ==
  /\ \A e \in P : e.id <= n
  /\ \A e, g \in P : e.id = g.id \/ e.by = g.by => e = g
  /\ \A a \in Activities : /\ t[a].pc = "waiting" <=> a \in Owners(P)
                           /\ t[a].from \in {None, t[a].serial}
WireFits(P, n, t, Q, B) ==
  /\ \A i \in DOMAIN Q : Fits(P, n, t, Q[i])
  /\ \A i \in DOMAIN B : IsReply(B[i].frame) => Fits(P, n, t, B[i].frame)
RepliesFit == EntriesFit(conn.pending, conn.nextId, task)
              /\ WireFits(conn.pending, conn.nextId, task, toQemu, Wire)

(* Who has not asked does not wait.                                         *)
WaitersAsked ==
  /\ ~conn.greeted => "caps" \notin Waiting(conn)
  /\ ~HandleUp => Waiting(conn) \subseteq {"caps"}
  /\ \A s \in Stoppers : s \in Waiting(conn) => ladder[s] \in {"power", "quit"}
  /\ \A s \in Stoppers : ladder[s] # "idle" => HandleUp

(* A line that is not JSON was counted as noise.                            *)
Babbled == noise > 0 /\ "garbage" \in Noise
GarbageIsNoise ==
  /\ conn.poisoned => Babbled
  /\ \A i \in DOMAIN Wire : Wire[i].frame.kind = "garbage" => Babbled

QemuInv ==
  /\ TypeOK /\ ChildAccountedFor /\ ConnectionFollowsStart
  /\ Whole(Wire) /\ RepliesFit /\ WaitersAsked /\ GarbageIsNoise

-----------------------------------------------------------------------------
(* Bytes.                                                                   *)

LEMMA SuffixProperties ==
  ASSUME NEW S, NEW s \in Seq(S), NEW j \in 0 .. Len(s)
  PROVE  /\ SubSeq(s, j + 1, Len(s)) \in Seq(S)
         /\ Len(SubSeq(s, j + 1, Len(s))) = Len(s) - j
         /\ \A k \in 1 .. Len(s) - j : SubSeq(s, j + 1, Len(s))[k] = s[j + k]
<1>1. j \in Nat /\ Len(s) \in Nat /\ j + 1 \in Int /\ \A i \in j + 1 .. Len(s) : s[i] \in S
  BY LenProperties, ElementOfSeq
<1>2. QED
  BY <1>1, SubSeqProperties

LEMMA LineAppended ==
  ASSUME NEW b \in Seq(Byte), NEW w \in Seq(Byte), NEW l \in Seq(Byte)
  PROVE  b \o (w \o l) = (b \o w) \o l
<1>1. (b \o w) \o l = b \o (w \o l)
  BY ConcatAssociative
<1>2. QED
  BY <1>1

LEMMA PairIsItsParts ==
  ASSUME NEW S, NEW l \in Seq(S), Len(l) = 2
  PROVE  l = <<l[1], l[2]>>
  OBVIOUS

LEMMA ByteParts ==
  ASSUME NEW B \in Seq(Byte)
  PROVE  /\ Len(B) \in Nat /\ DOMAIN B = 1 .. Len(B)
         /\ \A i \in 1 .. Len(B) : B[i] \in Byte /\ B[i].part \in {1, 2}
<1>1. \A x \in Byte : x.part \in {1, 2}
  BY DEF Byte
<1>2. Len(B) \in Nat /\ DOMAIN B = 1 .. Len(B)
  BY LenProperties
<1>3. \A i \in 1 .. Len(B) : B[i] \in Byte
  BY ElementOfSeq
<1>4. QED
  BY <1>1, <1>2, <1>3

LEMMA WholeAt ==
  ASSUME NEW B \in Seq(Byte), Whole(B), NEW i \in 1 .. Len(B)
  PROVE  /\ B[i].part = 1 => i + 1 \in 1 .. Len(B) /\ B[i + 1].part = 2
         /\ B[i].part = 1 /\ i > 1 => B[i - 1].part = 2
         /\ B[i].part = 2 => i > 1 /\ B[i - 1].part = 1 /\ B[i - 1].frame = B[i].frame
  BY LenProperties DEF Whole

(* The newline before position i is at j.                                   *)
LEMMA LastNewlineIs ==
  ASSUME NEW B \in Seq(Byte), NEW i \in Nat, NEW j \in Nat, j < i,
         j = 0 \/ j \in Newlines(B), \A k \in Newlines(B) : k < i => k <= j
  PROVE  LastNewline(B, i) = j
<1> DEFINE before == {0} \cup {k \in Newlines(B) : k < i}
<1>1. before \subseteq Nat
  BY DEF Newlines
<1>2. j \in before /\ \A k \in before : k <= j
  OBVIOUS
<1>3. \A x \in before : (\A k \in before : k <= x) => x = j
  BY <1>1, <1>2
<1> HIDE DEF before
<1>4. (CHOOSE x \in before : \A k \in before : k <= x) = j
  BY <1>2, <1>3
<1>5. QED
  BY <1>4 DEF LastNewline, before

(* Every line of whole bytes is one frame; it fails to parse only if it is  *)
(* not JSON.  About QmpDecoder.push().                                      *)
LEMMA LinesAreFrames ==
  ASSUME NEW B \in Seq(Byte), Whole(B), NEW m \in 0 .. Len(B)
  PROVE  LET b == SubSeq(B, 1, m)
         IN  /\ b \in Seq(Byte) /\ Len(b) = m
             /\ \A i \in 1 .. m : b[i] = B[i]
             /\ \A i \in Newlines(b) : LineEndingAt(b, i) = Line(b[i].frame)
             /\ \A i \in BadLines(b) : B[i].frame.kind = "garbage"
<1> DEFINE b == SubSeq(B, 1, m)
<1> DEFINE n == Len(B)
<1>a. n \in Nat /\ DOMAIN B = 1 .. n /\ m \in 0 .. n
  BY LenProperties
<1>b. \A i \in 1 .. n : B[i] \in Byte /\ B[i].part \in {1, 2}
  BY <1>a, ByteParts DEF n
<1>1. b \in Seq(Byte) /\ Len(b) = m /\ \A i \in 1 .. m : b[i] = B[i]
  BY SubSeqProperties
<1>c. DOMAIN b = 1 .. m
  BY <1>1, LenProperties
<1> HIDE DEF n, b
<1>2. ASSUME NEW i \in Newlines(b)
      PROVE  /\ LineEndingAt(b, i) = Line(b[i].frame)
             /\ i \in 1 .. m /\ B[i] = b[i] /\ B[i] \in Byte
  <2>1. i \in 1 .. m /\ b[i] = B[i] /\ B[i].part = 2 /\ B[i] \in Byte
    BY <1>1, <1>2, <1>a, <1>b, <1>c DEF Newlines
  <2>2. i > 1 /\ B[i - 1].part = 1 /\ B[i - 1].frame = B[i].frame /\ B[i - 1] \in Byte
    BY <1>a, <1>b, <2>1, WholeAt DEF n
  <2>3. i - 1 > 1 => B[i - 2].part = 2
    BY <1>a, <1>b, <2>1, <2>2, WholeAt DEF n
  <2>4. i - 2 = 0 \/ i - 2 \in Newlines(b)
    BY <1>1, <1>a, <1>c, <2>1, <2>2, <2>3 DEF Newlines
  <2>5. \A k \in Newlines(b) : k < i => k <= i - 2
    BY <1>1, <1>a, <1>c, <2>1, <2>2 DEF Newlines
  <2>6. LastNewline(b, i) = i - 2
    BY <1>1, <1>a, <2>1, <2>2, <2>4, <2>5, LastNewlineIs
  <2>7. /\ B[i - 1] = [frame |-> B[i].frame, part |-> 1]
        /\ B[i] = [frame |-> B[i].frame, part |-> 2]
    BY <2>1, <2>2 DEF Byte
  <2>8. LineEndingAt(b, i) = SubSeq(b, i - 1, i)
    BY <1>a, <2>1, <2>6, 1 + (i - 2) = i - 1 DEF LineEndingAt
  <2>9. SubSeq(b, i - 1, i) = <<b[i - 1], b[i]>>
    <3> DEFINE l == SubSeq(b, i - 1, i)
    <3>1. l \in Seq(Byte) /\ Len(l) = 2 /\ l[1] = b[i - 1] /\ l[2] = b[i]
      BY <1>1, <1>a, <2>1, <2>2, SubSeqProperties
    <3> HIDE DEF l
    <3>2. l = <<l[1], l[2]>>
      BY <3>1, PairIsItsParts
    <3>3. QED
      BY <3>1, <3>2 DEF l
  <2>10. QED
    BY <1>1, <1>a, <2>1, <2>2, <2>7, <2>8, <2>9 DEF Line
<1>3. ASSUME NEW i \in BadLines(b) PROVE B[i].frame.kind = "garbage"
  <2>1. i \in Newlines(b) /\ ~Parses(LineEndingAt(b, i))
    BY <1>3 DEF BadLines
  <2>2. LineEndingAt(b, i) = Line(B[i].frame) /\ Line(B[i].frame)[1].frame = B[i].frame
    BY <1>2, <2>1 DEF Line
  <2>3. QED
    BY <2>1, <2>2 DEF Parses
<1>4. QED
  BY <1>1, <1>2, <1>3 DEF b

(* What the decoder keeps continues the bytes after it, whole again.        *)
LEMMA RestContinues ==
  ASSUME NEW B \in Seq(Byte), Whole(B), NEW m \in 0 .. Len(B)
  PROVE  \E j \in 0 .. m :
           /\ Rest(SubSeq(B, 1, m)) = SubSeq(B, j + 1, m)
           /\ SubSeq(B, j + 1, m) \o SubSeq(B, m + 1, Len(B)) = SubSeq(B, j + 1, Len(B))
           /\ Whole(SubSeq(B, j + 1, Len(B)))
<1> DEFINE b == SubSeq(B, 1, m)
<1> DEFINE n == Len(B)
<1>a. n \in Nat /\ DOMAIN B = 1 .. n /\ m \in 0 .. n
  BY LenProperties
<1>b. \A i \in 1 .. n : B[i] \in Byte /\ B[i].part \in {1, 2}
  BY <1>a, ByteParts DEF n
<1>1. b \in Seq(Byte) /\ Len(b) = m /\ \A i \in 1 .. m : b[i] = B[i]
  BY SubSeqProperties
<1>c. DOMAIN b = 1 .. m
  BY <1>1, LenProperties
<1> HIDE DEF n, b
<1>2. PICK j \in 0 .. m : /\ j = 0 \/ j \in Newlines(b)
                          /\ \A k \in Newlines(b) : k < m + 1 => k <= j
  <2>1. CASE m = 0
    BY <1>1, <1>a, <1>b, <1>c, <2>1 DEF Newlines
  <2>2. CASE m > 0 /\ B[m].part = 2
    BY <1>1, <1>a, <1>b, <1>c, <2>2 DEF Newlines
  <2>3. CASE m > 0 /\ B[m].part = 1
    <3>a. m \in 1 .. Len(B)
      BY <1>a, <2>3 DEF n
    <3>1. m > 1 => B[m - 1].part = 2
      BY <3>a, <2>3, WholeAt
    <3>2. m - 1 = 0 \/ m - 1 \in Newlines(b)
      BY <1>1, <1>a, <1>b, <1>c, <2>3, <3>1 DEF Newlines
    <3>3. \A k \in Newlines(b) : k <= m - 1
      BY <1>1, <1>a, <1>b, <1>c, <2>3 DEF Newlines
    <3>4. QED
      BY <1>a, <2>3, <3>2, <3>3
  <2>4. m > 0 => B[m].part \in {1, 2}
    BY <1>a, <1>b
  <2>5. QED
    BY <1>a, <2>1, <2>2, <2>3, <2>4
<1>3. LastNewline(b, m + 1) = j
  BY <1>1, <1>a, <1>2, LastNewlineIs
<1>4. Rest(b) = SubSeq(b, j + 1, m)
  BY <1>1, <1>a, <1>b, <1>c, <1>3 DEF Rest
<1>5. SubSeq(b, j + 1, m) = SubSeq(B, j + 1, m)
  <2>1. SubSeq(b, j + 1, m) \in Seq(Byte) /\ SubSeq(B, j + 1, m) \in Seq(Byte)
    BY <1>1, <1>a, SubSeqProperties DEF n
  <2>2. Len(SubSeq(b, j + 1, m)) = Len(SubSeq(B, j + 1, m))
    BY <1>1, <1>a, SubSeqProperties DEF n
  <2>3. \A i \in 1 .. m - j : SubSeq(b, j + 1, m)[i] = SubSeq(B, j + 1, m)[i]
    BY <1>1, <1>a, SubSeqProperties DEF n
  <2>4. Len(SubSeq(b, j + 1, m)) = m - j
    BY <1>1, <1>a, SubSeqProperties DEF n
  <2>5. QED
    BY <2>1, <2>2, <2>3, <2>4, SeqEqual
<1>6. SubSeq(B, j + 1, m) \o SubSeq(B, m + 1, Len(B)) = SubSeq(B, j + 1, Len(B))
  <2>1. PICK k \in 1 .. Len(B) + 1 : k = j + 1
    BY <1>a DEF n
  <2>2. m \in k - 1 .. Len(B) /\ Len(B) \in m .. Len(B)
    BY <1>a, <2>1 DEF n
  <2>3. SubSeq(B, k, m) \o SubSeq(B, m + 1, Len(B)) = SubSeq(B, k, Len(B))
    BY <2>2, ConcatAdjacentSubSeq
  <2>4. QED
    BY <2>1, <2>3
<1>7. Whole(SubSeq(B, j + 1, Len(B)))
  <2> DEFINE C == SubSeq(B, j + 1, Len(B))
  <2>1. C \in Seq(Byte) /\ Len(C) = Len(B) - j /\ \A i \in 1 .. Len(B) - j : C[i] = B[i + j]
    BY <1>a, SubSeqProperties DEF n
  <2>c. DOMAIN C = 1 .. n - j
    BY <2>1, LenProperties DEF n
  <2>d. \A i \in 1 .. n - j : C[i] = B[i + j]
    BY <2>1 DEF n
  <2> HIDE DEF C
  <2>2. j > 0 => B[j].part = 2
    BY <1>1, <1>2, <1>a, <1>c DEF Newlines
  <2>3. ASSUME NEW i \in DOMAIN C, C[i].part = 1
        PROVE  i + 1 \in DOMAIN C /\ C[i + 1].part = 2 /\ (i > 1 => C[i - 1].part = 2)
    <3>1. PICK k \in 1 .. Len(B) : k = i + j /\ B[k].part = 1
      BY <1>a, <2>c, <2>d, <2>3 DEF n
    <3>2. k + 1 \in 1 .. Len(B) /\ B[k + 1].part = 2 /\ (k > 1 => B[k - 1].part = 2)
      BY <3>1, WholeAt
    <3>3. i + 1 \in DOMAIN C /\ C[i + 1] = B[k + 1]
      BY <1>a, <2>c, <2>d, <2>3, <3>1, <3>2 DEF n
    <3>4. i > 1 => k > 1 /\ C[i - 1] = B[k - 1]
      BY <1>a, <2>c, <2>d, <2>3, <3>1 DEF n
    <3>5. QED
      BY <3>2, <3>3, <3>4
  <2>4. ASSUME NEW i \in DOMAIN C, C[i].part = 2
        PROVE  i > 1 /\ C[i - 1].part = 1 /\ C[i - 1].frame = C[i].frame
    <3>1. PICK k \in 1 .. Len(B) : k = i + j /\ B[k].part = 2
      BY <1>a, <2>c, <2>d, <2>4
    <3>2. k > 1 /\ B[k - 1].part = 1 /\ B[k - 1].frame = B[k].frame
      BY <3>1, WholeAt
    <3>3. i # 1
      BY <1>a, <2>2, <3>1, <3>2
    <3>4. QED
      BY <1>a, <2>c, <2>d, <2>4, <3>1, <3>2, <3>3
  <2>5. QED
    <3>1. Whole(C)
      BY <2>3, <2>4 DEF Whole
    <3>2. QED
      BY <3>1 DEF C
<1>8. QED
  BY <1>4, <1>5, <1>6, <1>7 DEF b

(* Bytes stay whole when QEMU writes a line.                                *)
LEMMA LinesStayWhole ==
  ASSUME NEW B \in Seq(Byte), Whole(B), NEW f, Line(f) \in Seq(Byte)
  PROVE  /\ Whole(B \o Line(f)) /\ B \o Line(f) \in Seq(Byte)
         /\ \A i \in DOMAIN (B \o Line(f)) : \/ i \in DOMAIN B /\ (B \o Line(f))[i] = B[i]
                                             \/ (B \o Line(f))[i].frame = f
<1> DEFINE C == B \o Line(f)
<1>1. C \in Seq(Byte) /\ Len(C) = Len(B) + 2
  BY ConcatProperties DEF Line
<1>2. \A i \in 1 .. Len(B) : C[i] = B[i]
  BY ConcatProperties DEF Line
<1>3. /\ C[Len(B) + 1] = [frame |-> f, part |-> 1]
      /\ C[Len(B) + 2] = [frame |-> f, part |-> 2]
  BY ConcatProperties DEF Line
<1>4. Len(B) > 0 => B[Len(B)].part = 2
  <2>1. ASSUME Len(B) > 0 PROVE Len(B) \in 1 .. Len(B) /\ B[Len(B)].part \in {1, 2}
    BY <2>1, ByteParts
  <2>2. ASSUME Len(B) > 0, B[Len(B)].part = 1 PROVE Len(B) + 1 \in 1 .. Len(B)
    BY <2>1, <2>2, WholeAt
  <2>3. QED
    BY <2>1, <2>2, ByteParts
<1>5. Whole(C)
  <2>1. ASSUME NEW i \in DOMAIN C, C[i].part = 1
        PROVE  i + 1 \in DOMAIN C /\ C[i + 1].part = 2 /\ (i > 1 => C[i - 1].part = 2)
    <3>1. CASE i \in DOMAIN B
      <4>1. B[i].part = 1
        BY <1>2, <2>1, <3>1
      <4>2. i + 1 \in DOMAIN B /\ B[i + 1].part = 2 /\ (i > 1 => B[i - 1].part = 2)
        BY <3>1, <4>1, ByteParts, WholeAt
      <4>3. QED
        BY <1>1, <1>2, <3>1, <4>2
    <3>2. CASE i = Len(B) + 1
      BY <1>1, <1>2, <1>3, <1>4, <3>2
    <3>3. QED
      BY <1>1, <1>3, <2>1, <3>1, <3>2
  <2>2. ASSUME NEW i \in DOMAIN C, C[i].part = 2
        PROVE  i > 1 /\ C[i - 1].part = 1 /\ C[i - 1].frame = C[i].frame
    <3>1. CASE i \in DOMAIN B
      <4>1. B[i].part = 2
        BY <1>2, <2>2, <3>1
      <4>2. i > 1 /\ B[i - 1].part = 1 /\ B[i - 1].frame = B[i].frame
        BY <3>1, <4>1, ByteParts, WholeAt
      <4>3. QED
        BY <1>2, <3>1, <4>2
    <3>2. CASE i = Len(B) + 2
      BY <1>1, <1>3, <3>2
    <3>3. QED
      BY <1>1, <1>3, <2>2, <3>1, <3>2
  <2>3. QED
    BY <2>1, <2>2 DEF Whole
<1>6. QED
  BY <1>1, <1>2, <1>3, <1>5


-----------------------------------------------------------------------------
(* The client's entries, and what is under way for them.                    *)

(* Entries go and tasks keep their serials: the rest still fits.            *)
LEMMA WireStillFits ==
  ASSUME NEW P, NEW R \in SUBSET P, NEW n \in Nat, NEW t, NEW u, NEW Q, NEW B,
         \A e \in R : u[e.by].serial = t[e.by].serial,
         WireFits(P, n, t, Q, B)
  PROVE  WireFits(R, n, u, Q, B)
  BY DEF WireFits, Fits

(* Rejecting whoever owns the entries that go.  About teardown(), the timer *)
(* of a command and a closed socket.                                        *)
LEMMA RejectedFits ==
  ASSUME NEW P, NEW n \in Nat, NEW t \in [Activities -> Task],
         NEW A \in SUBSET Activities, EntriesFit(P, n, t)
  PROVE  /\ Rejected(t, A) \in [Activities -> Task]
         /\ \A a \in Activities : Rejected(t, A)[a].serial = t[a].serial
         /\ EntriesFit({e \in P : e.by \notin A}, n, Rejected(t, A))
<1> DEFINE u == Rejected(t, A)
           R == {e \in P : e.by \notin A}
<1>1. ASSUME NEW a \in Activities
      PROVE  /\ u[a] \in Task /\ u[a].serial = t[a].serial /\ u[a].from = t[a].from
             /\ u[a].pc = IF a \in A THEN "failed" ELSE t[a].pc
  BY DEF Rejected, Task
<1>2. u \in [Activities -> Task]
  BY <1>1 DEF Rejected
<1> HIDE DEF u
<1>3. \A a \in Activities : u[a].pc = "waiting" <=> a \in Owners(R)
  <2> TAKE a \in Activities
  <2>1. CASE a \in A
    BY <1>1, <2>1 DEF Owners
  <2>2. CASE a \notin A
    BY <1>1, <2>2 DEF Owners, EntriesFit
  <2>3. QED
    BY <2>1, <2>2
<1>4. EntriesFit(R, n, u)
  BY <1>1, <1>3 DEF EntriesFit
<1>5. QED
  BY <1>1, <1>2, <1>4 DEF u

(* What execute() adds.                                                     *)
Entered(P, id, a) == P \cup {[id |-> id, by |-> a]}
Asking(t, a, k) == [t EXCEPT ![a] = [pc |-> "waiting", serial |-> k, from |-> None]]
Request(id, cmd, k) == [id |-> id, cmd |-> cmd, serial |-> k]

(* A new command: its id is on no entry and on nothing under way.  About    *)
(* execute().                                                               *)
LEMMA IssueFits ==
  ASSUME NEW P \in SUBSET [id : Nat, by : Activities], NEW n \in Nat,
         NEW t \in [Activities -> Task], NEW Q \in Seq(Command), NEW B,
         NEW a \in Activities, NEW k \in Nat, NEW cmd,
         a \notin Owners(P), EntriesFit(P, n, t), WireFits(P, n, t, Q, B),
         \A i \in DOMAIN B : B[i].frame.id \in Nat
  PROVE  /\ Asking(t, a, k) \in [Activities -> Task]
         /\ EntriesFit(Entered(P, n + 1, a), n + 1, Asking(t, a, k))
         /\ WireFits(Entered(P, n + 1, a), n + 1, Asking(t, a, k),
                     Append(Q, Request(n + 1, cmd, k)), B)
<1> DEFINE R == P \cup {[id |-> n + 1, by |-> a]}
           new == [pc |-> "waiting", serial |-> k, from |-> None]
           u == [t EXCEPT ![a] = new]
           x == [id |-> n + 1, cmd |-> cmd, serial |-> k]
<1>1. u \in [Activities -> Task] /\ u[a] = new /\ \A b \in Activities : b # a => u[b] = t[b]
  BY DEF Task
<1>2. \A e \in R : (e \in P /\ e.by # a /\ e.id <= n) \/ e = [id |-> n + 1, by |-> a]
  BY DEF Owners, EntriesFit
<1>3. EntriesFit(R, n + 1, u)
  <2>1. \A e \in R : e.id \in Nat /\ e.id <= n + 1
    BY <1>2
  <2>2. \A e, g \in R : e.id = g.id \/ e.by = g.by => e = g
    BY <1>2 DEF EntriesFit
  <2>3. ASSUME NEW b \in Activities
        PROVE  /\ u[b].pc = "waiting" <=> b \in Owners(R)
               /\ u[b].from \in {None, u[b].serial}
    <3>1. CASE b = a
      <4>1. u[b].pc = "waiting" /\ u[b].from = None
        BY <1>1, <3>1
      <4>2. a \in Owners(R)
        BY DEF Owners
      <4>3. QED
        BY <3>1, <4>1, <4>2
    <3>2. CASE b # a
      <4>1. b \in Owners(R) <=> b \in Owners(P)
        BY <3>2 DEF Owners
      <4>2. QED
        BY <1>1, <3>2, <4>1 DEF EntriesFit
    <3>3. QED
      BY <3>1, <3>2
  <2>4. QED
    BY <2>1, <2>2, <2>3 DEF EntriesFit
<1>4. ASSUME NEW y, y.id \in Nat, Fits(P, n, t, y) PROVE Fits(R, n + 1, u, y)
  <2>1. y.id <= n /\ y.id <= n + 1
    BY <1>4 DEF Fits
  <2>2. ASSUME NEW e \in R, e.id = y.id PROVE u[e.by].serial = y.serial
    <3>1. e \in P /\ e.by # a
      BY <1>2, <2>1, <2>2
    <3>2. u[e.by] = t[e.by]
      BY <1>1, <3>1
    <3>3. QED
      BY <1>4, <2>2, <3>1, <3>2 DEF Fits
  <2>3. QED
    BY <2>1, <2>2 DEF Fits
<1>5. Fits(R, n + 1, u, x)
  <2>1. ASSUME NEW e \in R, e.id = x.id PROVE u[e.by].serial = k
    BY <1>1, <1>2, <2>1
  <2>2. QED
    BY <2>1 DEF Fits
<1>6. \A i \in DOMAIN Q : Q[i].id \in Nat
  <2>1. \A y \in Command : y.id \in Nat
    BY DEF Command
  <2>2. \A i \in DOMAIN Q : Q[i] \in Command
    BY ElementOfSeq, LenProperties
  <2>3. QED
    BY <2>1, <2>2
<1>7. /\ DOMAIN Append(Q, x) = 1 .. Len(Q) + 1 /\ DOMAIN Q = 1 .. Len(Q)
      /\ \A i \in 1 .. Len(Q) : Append(Q, x)[i] = Q[i]
      /\ Append(Q, x)[Len(Q) + 1] = x
  OBVIOUS
<1> HIDE DEF R, u, x
<1>8. WireFits(R, n + 1, u, Append(Q, x), B)
  <2>1. \A i \in DOMAIN Q : Fits(R, n + 1, u, Q[i])
    BY <1>4, <1>6 DEF WireFits
  <2>2. \A i \in DOMAIN Append(Q, x) : Fits(R, n + 1, u, Append(Q, x)[i])
    BY <1>5, <1>7, <2>1, LenProperties
  <2>3. \A i \in DOMAIN B : IsReply(B[i].frame) => Fits(R, n + 1, u, B[i].frame)
    BY <1>4 DEF WireFits
  <2>4. QED
    BY <2>2, <2>3 DEF WireFits
<1>9. QED
  BY <1>1, <1>3, <1>8 DEF R, u, x, Entered, Asking, Request

(* The replies among frames F settle the entries with their ids, each with  *)
(* the serial of its command.  About dispatch().                            *)
LEMMA SettledFits ==
  ASSUME NEW c \in Connection, NEW t \in [Activities -> Task], NEW F,
         EntriesFit(c.pending, c.nextId, t),
         \A f \in F : f.serial \in Nat /\ (IsReply(f) => Fits(c.pending, c.nextId, t, f))
  PROVE  LET u == TasksAfter(c, t, F)
             R == c.pending \ Settling(c, F)
         IN  /\ u \in [Activities -> Task]
             /\ \A a \in Activities : u[a].serial = t[a].serial
             /\ EntriesFit(R, c.nextId, u)
<1> DEFINE P == c.pending
           u == TasksAfter(c, t, F)
           R == P \ Settling(c, F)
<1>1. ASSUME NEW e \in Settling(c, F)
      PROVE  /\ e \in P /\ ReplyTo(F, e) \in F /\ ReplyTo(F, e).serial \in Nat
             /\ ReplyTo(F, e).serial = t[e.by].serial
  <2>1. e \in P /\ \E f \in Replies(F) : f.id = e.id
    BY <1>1 DEF Settling
  <2>2. ReplyTo(F, e) \in Replies(F) /\ ReplyTo(F, e).id = e.id
    BY <2>1 DEF ReplyTo
  <2>3. ReplyTo(F, e) \in F /\ IsReply(ReplyTo(F, e))
    BY <2>2 DEF Replies, IsReply
  <2>4. QED
    BY <2>1, <2>2, <2>3 DEF Fits
<1>2. ASSUME NEW a \in Activities, ~ \E e \in Settling(c, F) : e.by = a
      PROVE  u[a] = t[a]
  BY <1>2 DEF TasksAfter
<1>3. ASSUME NEW a \in Activities, NEW g \in Settling(c, F), g.by = a
      PROVE  /\ u[a] \in Task /\ u[a].serial = t[a].serial
             /\ u[a].from = t[a].serial /\ u[a].pc \in {"answered", "failed"}
  <2> DEFINE e == CHOOSE x \in Settling(c, F) : x.by = a
             f == ReplyTo(F, e)
  <2>1. e \in Settling(c, F) /\ e.by = a
    BY <1>3
  <2>2. f.serial \in Nat /\ f.serial = t[a].serial
    BY <1>1, <2>1
  <2>3. u[a] = [t[a] EXCEPT !.pc = IF f.kind = "return" THEN "answered" ELSE "failed",
                            !.from = f.serial]
    BY <1>3 DEF TasksAfter
  <2> HIDE DEF f
  <2> DEFINE old == t[a]
  <2>4. old \in Task
    OBVIOUS
  <2>5. /\ u[a] = [old EXCEPT !.pc = IF f.kind = "return" THEN "answered" ELSE "failed",
                            !.from = f.serial]
        /\ f.serial \in Nat /\ f.serial = old.serial
    BY ONLY <2>2, <2>3
  <2> HIDE DEF old, u
  <2>6. /\ u[a].serial = old.serial /\ u[a].from = old.serial /\ u[a].pc \in {"answered", "failed"}
    BY ONLY <2>4, <2>5 DEF Task
  <2>7. u[a] \in Task
    BY ONLY <2>4, <2>5 DEF Task
  <2>8. QED
    BY ONLY <2>6, <2>7 DEF old
<1>4. \A a \in Activities : u[a] \in Task /\ u[a].serial = t[a].serial
  BY <1>2, <1>3
<1>5. u \in [Activities -> Task]
  BY <1>4 DEF TasksAfter
<1> HIDE DEF u
<1>6. ASSUME NEW a \in Activities
      PROVE  (u[a].pc = "waiting" <=> a \in Owners(R)) /\ u[a].from \in {None, u[a].serial}
  <2>1. CASE \E e \in Settling(c, F) : e.by = a
    <3>1. PICK g \in Settling(c, F) : g.by = a
      BY <2>1
    <3>2. u[a].from = u[a].serial /\ u[a].pc # "waiting"
      BY <1>3, <3>1
    <3>3. \A e \in P : e.by = a => e = g
      BY <1>1, <3>1 DEF EntriesFit
    <3>4. a \notin Owners(R)
      BY <3>1, <3>3 DEF Owners
    <3>5. QED
      BY <3>2, <3>4
  <2>2. CASE ~ \E e \in Settling(c, F) : e.by = a
    <3>1. u[a] = t[a]
      BY <1>2, <2>2
    <3>2. a \in Owners(R) <=> a \in Owners(P)
      BY <2>2 DEF Owners
    <3>3. QED
      BY <3>1, <3>2 DEF EntriesFit
  <2>3. QED
    BY <2>1, <2>2
<1>7. EntriesFit(R, c.nextId, u)
  BY <1>6 DEF EntriesFit
<1>8. QED
  BY <1>4, <1>5, <1>7 DEF u


(* One chunk of n bytes: its frames were on the wire, it is bad only if a   *)
(* line is not JSON, and what is kept goes on with what is still to come.   *)
LEMMA ChunkRead ==
  ASSUME NEW tail \in Seq(Byte), NEW w \in Seq(Byte), Whole(tail \o w), NEW n \in DOMAIN w
  PROVE  LET B     == tail \o w
             bytes == Buffered(tail, SubSeq(w, 1, n))
             later == SubSeq(w, n + 1, Len(w))
         IN  /\ Rest(bytes) \in Seq(Byte) /\ later \in Seq(Byte)
             /\ Whole(Rest(bytes) \o later)
             /\ \A i \in DOMAIN (Rest(bytes) \o later) :
                  \E k \in DOMAIN B : (Rest(bytes) \o later)[i] = B[k]
             /\ \A f \in GoodFrames(bytes) : \E k \in DOMAIN B : f = B[k].frame
             /\ BadLines(bytes) # {} => \E k \in DOMAIN B : B[k].frame.kind = "garbage"
<1> DEFINE B == tail \o w
           m == Len(tail) + n
           bytes == Buffered(tail, SubSeq(w, 1, n))
           later == SubSeq(w, n + 1, Len(w))
<1>1. /\ B \in Seq(Byte) /\ Len(B) = Len(tail) + Len(w) /\ DOMAIN B = 1 .. Len(B)
      /\ \A i \in 1 .. Len(tail) : B[i] = tail[i]
      /\ \A i \in 1 .. Len(w) : B[Len(tail) + i] = w[i]
  BY ConcatProperties, LenProperties
<1>2. n \in 1 .. Len(w) /\ Len(w) \in Nat /\ Len(tail) \in Nat
  BY LenProperties
<1>3. m \in 0 .. Len(B)
  BY <1>1, <1>2
<1>4. bytes = SubSeq(B, 1, m)
  <2> DEFINE x == SubSeq(w, 1, n)
             y == SubSeq(B, 1, m)
  <2>1. x \in Seq(Byte) /\ Len(x) = n /\ \A i \in 1 .. n : x[i] = w[i]
    BY <1>2, SubSeqProperties
  <2>2. y \in Seq(Byte) /\ Len(y) = m /\ \A i \in 1 .. m : y[i] = B[i]
    BY <1>1, <1>2, <1>3, SubSeqProperties
  <2> HIDE DEF x, y, B
  <2>3. /\ tail \o x \in Seq(Byte) /\ Len(tail \o x) = m
        /\ \A i \in 1 .. m : (tail \o x)[i] = IF i <= Len(tail) THEN tail[i] ELSE x[i - Len(tail)]
    BY <1>2, <2>1, ConcatProperties
  <2>4. ASSUME NEW i \in 1 .. m PROVE (tail \o x)[i] = y[i]
    <3>1. CASE i <= Len(tail)
      BY <1>1, <1>2, <2>2, <2>3, <3>1
    <3>2. CASE ~(i <= Len(tail))
      <4>a. i - Len(tail) \in 1 .. n /\ i = Len(tail) + (i - Len(tail))
        BY <1>2, <3>2
      <4>1. PICK k \in 1 .. n : i = Len(tail) + k
        BY <4>a
      <4>2. y[i] = w[k] /\ (tail \o x)[i] = x[k]
        BY <1>1, <1>2, <2>2, <2>3, <3>2, <4>1
      <4>3. QED
        BY <2>1, <4>2
    <3>3. QED
      BY <3>1, <3>2
  <2>5. tail \o x = y
    BY <2>2, <2>3, <2>4, SeqEqual
  <2>6. QED
    BY <2>5 DEF x, y, B, Buffered
<1>5. later \in Seq(Byte) /\ later = SubSeq(B, m + 1, Len(B))
  <2> DEFINE y == SubSeq(B, m + 1, Len(B))
  <2>1. /\ later \in Seq(Byte) /\ Len(later) = Len(w) - n
        /\ \A i \in 1 .. Len(w) - n : later[i] = w[n + i]
    BY <1>2, SubSeqProperties
  <2>2. /\ y \in Seq(Byte) /\ Len(y) = Len(w) - n
        /\ \A i \in 1 .. Len(w) - n : y[i] = B[m + i]
    <3>1. Len(B) - m = Len(w) - n
      BY <1>1, <1>2
    <3> HIDE DEF m, B
    <3>2. QED
      BY <1>1, <1>3, <3>1, SuffixProperties
  <2> HIDE DEF y, later, B
  <2>3. ASSUME NEW i \in 1 .. Len(w) - n PROVE later[i] = y[i]
    <3>1. PICK k \in 1 .. Len(w) : k = n + i
      BY <1>2
    <3>2. B[Len(tail) + k] = w[k] /\ m + i = Len(tail) + k
      BY <1>1, <1>2, <3>1
    <3>3. QED
      BY <2>1, <2>2, <3>1, <3>2
  <2>4. later = y
    BY <2>1, <2>2, <2>3, SeqEqual
  <2>5. QED
    BY <2>1, <2>4 DEF y
<1>6. PICK j \in 0 .. m :
        /\ Rest(bytes) = SubSeq(B, j + 1, m)
        /\ Rest(bytes) \o later = SubSeq(B, j + 1, Len(B))
        /\ Whole(SubSeq(B, j + 1, Len(B)))
  BY <1>1, <1>3, <1>4, <1>5, RestContinues
<1>7. Rest(bytes) \in Seq(Byte)
  <2>1. SubSeq(B, j + 1, m) \in Seq(Byte)
    BY <1>1, <1>3, SubSeqProperties
  <2>2. QED
    BY <1>6, <2>1
<1>8. ASSUME NEW i \in DOMAIN (Rest(bytes) \o later)
      PROVE  \E k \in DOMAIN B : (Rest(bytes) \o later)[i] = B[k]
  <2> DEFINE y == SubSeq(B, j + 1, Len(B))
  <2>1. y \in Seq(Byte) /\ Len(y) = Len(B) - j /\ \A k \in 1 .. Len(B) - j : y[k] = B[j + k]
    <3>1. j \in 0 .. Len(B)
      BY <1>1, <1>2, <1>3
    <3> HIDE DEF B
    <3>2. QED
      BY <1>1, <3>1, SuffixProperties
  <2> HIDE DEF y, B
  <2>2. i \in 1 .. Len(B) - j
    BY <1>6, <1>8, <2>1, LenProperties DEF y, B
  <2>3. PICK k \in DOMAIN B : k = j + i
    <3>1. j + i \in 1 .. Len(B)
      <4> DEFINE h == Len(B)
      <4>1. h \in Nat /\ j \in 0 .. h /\ i \in 1 .. h - j
        BY <1>1, <1>2, <1>3, <2>2
      <4> HIDE DEF h
      <4>2. j + i \in 1 .. h
        BY ONLY <4>1
      <4>3. QED
        BY ONLY <4>2 DEF h
    <3>2. QED
      BY <1>1, <3>1
  <2>4. y[i] = B[k]
    BY <2>1, <2>2, <2>3
  <2>5. QED
    BY <1>6, <2>4 DEF y, B
<1>9. /\ \A f \in GoodFrames(bytes) : \E k \in DOMAIN B : f = B[k].frame
      /\ BadLines(bytes) # {} => \E k \in DOMAIN B : B[k].frame.kind = "garbage"
  <2>a. B \in Seq(Byte) /\ Whole(B) /\ m \in 0 .. Len(B) /\ bytes = SubSeq(B, 1, m)
    BY <1>1, <1>3, <1>4
  <2> HIDE DEF bytes, B
  <2>1. /\ bytes \in Seq(Byte) /\ Len(bytes) = m
        /\ \A i \in 1 .. m : bytes[i] = B[i]
        /\ \A i \in BadLines(bytes) : B[i].frame.kind = "garbage"
    <3> DEFINE b == SubSeq(B, 1, m)
    <3>1. /\ b \in Seq(Byte) /\ Len(b) = m
          /\ \A i \in 1 .. m : b[i] = B[i]
          /\ \A i \in BadLines(b) : B[i].frame.kind = "garbage"
      BY ONLY <2>a, LinesAreFrames
    <3>2. QED
      BY ONLY <2>a, <3>1
  <2>2. Newlines(bytes) \subseteq 1 .. m /\ BadLines(bytes) \subseteq 1 .. m
    BY <2>1, LenProperties DEF Newlines, BadLines
  <2>3. 1 .. m \subseteq DOMAIN B
    BY <1>1, <1>2, <1>3
  <2>4. \A f \in GoodFrames(bytes) : \E k \in Newlines(bytes) : f = bytes[k].frame
    BY DEF GoodFrames
  <2>5. QED
    BY <2>1, <2>2, <2>3, <2>4
<1>10. QED
  BY <1>5, <1>6, <1>7, <1>8, <1>9


-----------------------------------------------------------------------------
(* What the client does with its connection.                                *)

(* Connection c and tasks t, with bytes w still to come, have lost at most  *)
(* entries, and fit together.                                               *)
Sound(B) == \A i \in DOMAIN B : B[i].frame.kind = "garbage" => Babbled
Narrowed(c, t, w) ==
  /\ c \in Connection /\ t \in [Activities -> Task] /\ w \in Seq(Byte)
  /\ c.open /\ c.settled = conn.settled /\ c.pending \subseteq conn.pending
  /\ conn.greeted => c.greeted
  /\ EntriesFit(c.pending, c.nextId, t)
  /\ WireFits(c.pending, c.nextId, t, toQemu, c.tail \o w)
  /\ Whole(c.tail \o w) /\ Sound(c.tail \o w) /\ (c.poisoned => Babbled)

(* The values that Deliver(n) computes.                                     *)
LaterBytes(n) == SubSeq(toClient, n + 1, Len(toClient))
BytesRead(n) == Buffered(conn.tail, SubSeq(toClient, 1, n))
FramesRead(n) == GoodFrames(BytesRead(n))
BadRead(n) == BadLines(BytesRead(n)) # {}
TasksRead(n) == TasksAfter(conn, task, FramesRead(n))
ConnRead(n) == [AfterReplies(conn, FramesRead(n)) EXCEPT
                  !.poisoned = BadRead(n), !.tail = IF BadRead(n) THEN <<>> ELSE Rest(BytesRead(n))]

LEMMA ByteFrames ==
  \A b \in Byte : /\ b.frame.id \in Nat /\ b.frame.serial \in Nat
                  /\ b.frame.kind \in FrameKinds
  BY DEF Byte

LEMMA WireIsBytes ==
  ASSUME TypeOK
  PROVE  Wire \in Seq(Byte) /\ conn.tail \in Seq(Byte)
<1>1. conn.tail \in Seq(Byte) /\ toClient \in Seq(Byte)
  BY DEF TypeOK, Connection
<1>2. QED
  BY <1>1, ConcatProperties, EmptySeq DEF Wire

(* What is read of a chunk fits.  About onData() and dispatch().            *)
LEMMA DeliverNarrows ==
  ASSUME QemuInv, conn.open, NEW n \in DOMAIN toClient
  PROVE  Narrowed(ConnRead(n), TasksRead(n), IF BadRead(n) THEN <<>> ELSE LaterBytes(n))
<1> DEFINE F == FramesRead(n)
           R == Rest(BytesRead(n))
<1>1. /\ TypeOK /\ Whole(Wire) /\ RepliesFit /\ GarbageIsNoise
      /\ Wire = conn.tail \o toClient /\ Wire \in Seq(Byte)
      /\ conn \in Connection /\ conn.tail \in Seq(Byte) /\ toClient \in Seq(Byte)
      /\ task \in [Activities -> Task]
  BY WireIsBytes DEF QemuInv, Wire, TypeOK
<1>2. /\ R \in Seq(Byte) /\ LaterBytes(n) \in Seq(Byte)
      /\ Whole(R \o LaterBytes(n))
      /\ \A i \in DOMAIN (R \o LaterBytes(n)) :
           \E k \in DOMAIN Wire : (R \o LaterBytes(n))[i] = Wire[k]
      /\ \A f \in F : \E k \in DOMAIN Wire : f = Wire[k].frame
      /\ BadRead(n) => \E k \in DOMAIN Wire : Wire[k].frame.kind = "garbage"
  <2>1. Whole(conn.tail \o toClient)
    BY <1>1
  <2> DEFINE b == BytesRead(n)
             l == LaterBytes(n)
             B == conn.tail \o toClient
  <2>2. /\ Rest(b) \in Seq(Byte) /\ l \in Seq(Byte)
        /\ Whole(Rest(b) \o l)
        /\ \A i \in DOMAIN (Rest(b) \o l) : \E k \in DOMAIN B : (Rest(b) \o l)[i] = B[k]
        /\ \A f \in GoodFrames(b) : \E k \in DOMAIN B : f = B[k].frame
        /\ BadLines(b) # {} => \E k \in DOMAIN B : B[k].frame.kind = "garbage"
    BY <1>1, <2>1, ChunkRead DEF BytesRead, LaterBytes
  <2>3. B = Wire
    BY <1>1
  <2> HIDE DEF b, l, B
  <2>4. QED
    BY <2>2, <2>3 DEF FramesRead, BadRead, b, l
<1>3. /\ EntriesFit(conn.pending, conn.nextId, task)
      /\ WireFits(conn.pending, conn.nextId, task, toQemu, Wire)
  BY <1>1 DEF RepliesFit
<1>4. \A f \in F : f.serial \in Nat /\ (IsReply(f) => Fits(conn.pending, conn.nextId, task, f))
  <2>1. \A k \in DOMAIN Wire : Wire[k] \in Byte
    BY <1>1, ByteParts
  <2>2. \A k \in DOMAIN Wire : Wire[k].frame.serial \in Nat
    BY <2>1, ByteFrames
  <2>3. QED
    BY <1>2, <1>3, <2>2 DEF WireFits
<1> DEFINE t == TasksRead(n)
           P == conn.pending \ Settling(conn, F)
<1>5. /\ t \in [Activities -> Task]
      /\ \A a \in Activities : t[a].serial = task[a].serial
      /\ EntriesFit(P, conn.nextId, t)
  BY <1>1, <1>3, <1>4, SettledFits DEF TasksRead
<1> DEFINE c == ConnRead(n)
<1>6. /\ c \in Connection /\ c.pending = P /\ c.nextId = conn.nextId
      /\ c.settled = conn.settled /\ c.open /\ (conn.greeted => c.greeted)
      /\ c.poisoned = BadRead(n) /\ c.tail = IF BadRead(n) THEN <<>> ELSE R
  <2>1. P \in SUBSET [id : Nat, by : Activities]
    BY <1>1 DEF Connection
  <2>2. BadRead(n) \in BOOLEAN /\ (IF BadRead(n) THEN <<>> ELSE R) \in Seq(Byte)
    BY <1>2, EmptySeq DEF BadRead
  <2>3. (conn.greeted \/ \E f \in F : f.kind = "greeting") \in BOOLEAN
    BY <1>1 DEF Connection
  <2>4. conn.greeted => (conn.greeted \/ \E f \in F : f.kind = "greeting")
    OBVIOUS
  <2> DEFINE g == conn.greeted \/ \E f \in F : f.kind = "greeting"
             bad == BadRead(n)
             T == IF bad THEN <<>> ELSE R
  <2>5. c = [[conn EXCEPT !.pending = P, !.greeted = g] EXCEPT !.poisoned = bad, !.tail = T]
    BY DEF ConnRead, AfterReplies
  <2> HIDE DEF c, P, g, bad, T
  <2>6. QED
    BY <1>1, <2>1, <2>2, <2>3, <2>4, <2>5 DEF Connection, g, bad, T
<1> DEFINE w == IF BadRead(n) THEN <<>> ELSE LaterBytes(n)
<1>7. /\ w \in Seq(Byte) /\ c.tail \o w \in Seq(Byte) /\ Whole(c.tail \o w)
      /\ \A i \in DOMAIN (c.tail \o w) : \E k \in DOMAIN Wire : (c.tail \o w)[i] = Wire[k]
  <2>1. CASE BadRead(n)
    <3>1. c.tail = <<>> /\ w = <<>>
      BY <1>6, <2>1
    <3>2. c.tail \o w = <<>>
      BY <3>1
    <3>3. DOMAIN <<>> = {}
      OBVIOUS
    <3> HIDE DEF c, w
    <3>4. QED
      BY <3>1, <3>2, <3>3, EmptySeq DEF Whole
  <2>2. CASE ~BadRead(n)
    BY <1>2, <1>6, <2>2, ConcatProperties
  <2>3. QED
    BY <2>1, <2>2
<1> HIDE DEF c, t, w, P, F, R
<1>8. Sound(c.tail \o w) /\ (c.poisoned => Babbled)
  <2>1. /\ \A k \in DOMAIN Wire : Wire[k].frame.kind = "garbage" => Babbled
        /\ BadRead(n) => Babbled
    BY <1>1, <1>2 DEF GarbageIsNoise
  <2>2. c.poisoned => Babbled
    BY ONLY <1>6, <2>1
  <2> DEFINE B == c.tail \o w
  <2>3. \A i \in DOMAIN B : \E k \in DOMAIN Wire : B[i] = Wire[k]
    BY <1>7
  <2> HIDE DEF B
  <2>4. Sound(B)
    <3>1. ASSUME NEW i \in DOMAIN B, B[i].frame.kind = "garbage" PROVE Babbled
      <4>1. PICK k \in DOMAIN Wire : B[i] = Wire[k]
        BY ONLY <2>3, i \in DOMAIN B
      <4>2. QED
        BY ONLY <2>1, <3>1, <4>1
    <3>2. QED
      BY ONLY <3>1 DEF Sound
  <2>5. QED
    BY ONLY <2>2, <2>4 DEF B
<1>9. WireFits(c.pending, c.nextId, t, toQemu, c.tail \o w)
  <2>1. WireFits(conn.pending, conn.nextId, task, toQemu, c.tail \o w)
    BY <1>3, <1>7 DEF WireFits
  <2>2. P \in SUBSET conn.pending /\ \A e \in P : e.by \in Activities
    BY <1>1 DEF P, Connection
  <2>3. conn.nextId \in Nat
    BY <1>1 DEF Connection
  <2>4. WireFits(P, conn.nextId, t, toQemu, c.tail \o w)
    BY <1>5, <2>1, <2>2, <2>3, WireStillFits
  <2>5. QED
    BY <1>6, <2>4
<1>10. Narrowed(c, t, w)
  <2>1. c.pending \subseteq conn.pending
    BY <1>6 DEF P
  <2>2. QED
    BY <1>5, <1>6, <1>7, <1>8, <1>9, <2>1 DEF Narrowed
<1>11. QED
  BY <1>10 DEF c, t, w

(* A closed or open connection as it is fits.                               *)
LEMMA OpenNarrows ==
  ASSUME QemuInv, conn.open
  PROVE  Narrowed(conn, task, toClient)
  BY DEF QemuInv, Narrowed, TypeOK, RepliesFit, Wire, GarbageIsNoise, Sound

(* The timer of command e.                                                  *)
LEMMA TimeoutNarrows ==
  ASSUME QemuInv, conn.open, NEW e \in conn.pending
  PROVE  Narrowed([conn EXCEPT !.pending = @ \ {e}], Rejected(task, {e.by}), toClient)
<1>1. Narrowed(conn, task, toClient)
  BY OpenNarrows
<1> DEFINE P == conn.pending \ {e}
           c == [conn EXCEPT !.pending = P]
           u == Rejected(task, {e.by})
<1>2. /\ conn \in Connection /\ conn.pending \in SUBSET [id : Nat, by : Activities]
      /\ conn.nextId \in Nat /\ e.by \in Activities /\ P \in SUBSET conn.pending
  BY <1>1 DEF Narrowed, Connection
<1>3. /\ c \in Connection /\ c.pending = P /\ c.nextId = conn.nextId /\ c.tail = conn.tail
      /\ c.open /\ c.settled = conn.settled /\ c.greeted = conn.greeted /\ c.poisoned = conn.poisoned
  BY <1>1, <1>2 DEF Narrowed, Connection
<1>4. P = {g \in conn.pending : g.by \notin {e.by}}
  BY <1>1 DEF Narrowed, EntriesFit
<1>5. /\ u \in [Activities -> Task] /\ \A a \in Activities : u[a].serial = task[a].serial
      /\ EntriesFit(P, conn.nextId, u)
  <2>1. {e.by} \in SUBSET Activities
    BY <1>2
  <2>2. EntriesFit(conn.pending, conn.nextId, task) /\ task \in [Activities -> Task]
    BY <1>1 DEF Narrowed
  <2> HIDE DEF P
  <2>3. QED
    BY <1>2, <1>4, <2>1, <2>2, RejectedFits
<1>6. WireFits(P, conn.nextId, u, toQemu, conn.tail \o toClient)
  <2>1. \A g \in P : u[g.by].serial = task[g.by].serial
    BY <1>2, <1>5 DEF Connection
  <2>2. WireFits(conn.pending, conn.nextId, task, toQemu, conn.tail \o toClient)
    BY <1>1 DEF Narrowed
  <2> HIDE DEF P, u
  <2>3. QED
    BY <1>2, <2>1, <2>2, WireStillFits
<1> HIDE DEF c, u, P
<1>7. Narrowed(c, u, toClient)
  BY <1>1, <1>2, <1>3, <1>5, <1>6 DEF Narrowed
<1>8. QED
  BY <1>7 DEF c, u, P


-----------------------------------------------------------------------------
(* Steps of the client.                                                     *)

Outside == <<proc, signals, exitSeen, sock, noise>>

(* The invariant after a step, from its parts.                              *)
LEMMA PartsMakeInv ==
  ASSUME TypeOK', ChildAccountedFor', ConnectionFollowsStart', Whole(Wire)',
         RepliesFit', WaitersAsked', GarbageIsNoise'
  PROVE  QemuInv'
  BY DEF QemuInv

(* teardown(): nobody waits any more, and nothing is under way.             *)
LEMMA TeardownKeeps ==
  ASSUME QemuInv, NEW c, NEW t, NEW w, Narrowed(c, t, w), conn.open, Teardown(c, t),
         UNCHANGED <<proc, signals, exitSeen, sock, ladder, sent, noise>>
  PROVE  QemuInv'
<1> DEFINE u == Rejected(t, Waiting(c))
           x == ConnectFailed(start.attempt)
<1>1. /\ TypeOK /\ ChildAccountedFor /\ ConnectionFollowsStart /\ WaitersAsked
      /\ c \in Connection /\ t \in [Activities -> Task] /\ (c.poisoned => Babbled)
      /\ c.settled = conn.settled /\ EntriesFit(c.pending, c.nextId, t) /\ c.nextId \in Nat
      /\ c.pending \subseteq [id : Nat, by : Activities]
  BY DEF QemuInv, Narrowed, Connection
<1>2. /\ conn' = [c EXCEPT !.open = FALSE, !.settled = TRUE, !.pending = {}]
      /\ task' = u
      /\ start' = IF c.settled THEN start ELSE x
      /\ toQemu' = <<>> /\ toClient' = <<>>
  BY DEF Teardown, TornTask
<1>3. /\ conn' \in Connection /\ ~conn'.open /\ conn'.settled /\ conn'.pending = {}
      /\ conn'.nextId = c.nextId /\ conn'.poisoned = c.poisoned
  BY <1>1, <1>2 DEF Connection
<1>4. u \in [Activities -> Task] /\ EntriesFit({}, c.nextId, u)
  <2>1. {e \in c.pending : e.by \notin Waiting(c)} = {}
    BY DEF Waiting
  <2>2. Waiting(c) \in SUBSET Activities
    BY <1>1 DEF Waiting
  <2> DEFINE A == Waiting(c)
             P == c.pending
  <2>3. /\ P = c.pending /\ A \in SUBSET Activities /\ EntriesFit(P, c.nextId, t)
        /\ {e \in P : e.by \notin A} = {}
    BY <1>1, <2>1, <2>2
  <2> HIDE DEF A, P
  <2>4. /\ Rejected(t, A) \in [Activities -> Task]
        /\ EntriesFit({e \in P : e.by \notin A}, c.nextId, Rejected(t, A))
    BY <1>1, <2>3, RejectedFits
  <2>5. QED
    BY <2>3, <2>4 DEF A
<1>5. ~c.settled => /\ start.pc = "handshake" /\ x.attempt = start.attempt
                    /\ x \in [pc : StartPcs, attempt : 0 .. ConnectAttempts]
                    /\ \/ x.pc = "retry" /\ x.attempt < ConnectAttempts
                       \/ x.pc = "rejected" /\ exitSeen
                       \/ x.pc = "abandon"
  <2>1. start.attempt \in 0 .. ConnectAttempts /\ (~c.settled => start.pc = "handshake")
    BY <1>1 DEF TypeOK, ConnectionFollowsStart
  <2>2. QED
    BY <2>1 DEF ConnectFailed, MoreAttempts, StartPcs
<1>6. c.settled => start.pc = "up"
  BY <1>1 DEF ConnectionFollowsStart
<1> HIDE DEF u, x
<1>7. TypeOK'
  BY <1>1, <1>2, <1>3, <1>4, <1>5, EmptySeq DEF TypeOK
<1>8. ChildAccountedFor'
  BY <1>1, <1>2, <1>5, <1>6 DEF ChildAccountedFor, Gone
<1>9. ConnectionFollowsStart'
  BY <1>1, <1>2, <1>3, <1>5, <1>6 DEF ConnectionFollowsStart
<1>10. Wire' = <<>> /\ DOMAIN <<>> = {}
  BY <1>3 DEF Wire
<1>11. Whole(Wire)' /\ GarbageIsNoise'
  BY <1>1, <1>3, <1>10 DEF Whole, GarbageIsNoise, Babbled
<1>12. RepliesFit'
  BY <1>2, <1>3, <1>4, <1>10 DEF RepliesFit, WireFits
<1>13. WaitersAsked'
  <2>1. HandleUp => HandleUp'
    BY <1>2, <1>5 DEF HandleUp
  <2>2. QED
    BY <1>1, <1>3, <2>1 DEF WaitersAsked, Waiting
<1>14. QED
  BY <1>7, <1>8, <1>9, <1>11, <1>12, <1>13, PartsMakeInv

(* A chunk or a timer that leaves the connection open; the first chunk with *)
(* the answer to qmp_capabilities settles the handshake.                    *)
LEMMA NarrowingKeeps ==
  ASSUME QemuInv, NEW c, NEW t, NEW w, Narrowed(c, t, w), conn.open,
         \/ conn' = c /\ start' = start
         \/ conn' = [c EXCEPT !.settled = TRUE] /\ start' = [start EXCEPT !.pc = "up"] /\ ~c.settled,
         task' = t, toClient' = w,
         UNCHANGED <<toQemu, proc, signals, exitSeen, sock, ladder, sent, noise>>
  PROVE  QemuInv'
<1>1. /\ TypeOK /\ ChildAccountedFor /\ ConnectionFollowsStart /\ WaitersAsked
      /\ c \in Connection /\ t \in [Activities -> Task] /\ w \in Seq(Byte)
  BY DEF QemuInv, Narrowed
<1>2. /\ conn' \in Connection /\ conn'.open /\ conn'.pending = c.pending /\ conn'.tail = c.tail
      /\ conn'.nextId = c.nextId /\ conn'.poisoned = c.poisoned /\ conn'.greeted = c.greeted
      /\ conn'.settled = c.settled \/ conn'.settled = TRUE
  BY <1>1 DEF Narrowed, Connection
<1>3. \/ start' = start /\ conn'.settled = c.settled
      \/ start' = [start EXCEPT !.pc = "up"] /\ conn'.settled /\ ~c.settled
  BY <1>1 DEF Connection
<1>4. c.settled = conn.settled /\ c.pending \subseteq conn.pending /\ (conn.greeted => c.greeted)
  BY DEF Narrowed
<1>5. start' \in [pc : StartPcs, attempt : 0 .. ConnectAttempts] /\ start'.pc \in {start.pc, "up"}
  BY <1>1, <1>3 DEF TypeOK, StartPcs
<1>6. TypeOK'
  BY <1>1, <1>2, <1>5 DEF TypeOK
<1>7. ChildAccountedFor'
  BY <1>1, <1>5 DEF ChildAccountedFor, Gone
<1>8. ConnectionFollowsStart'
  BY <1>1, <1>2, <1>3, <1>4, <1>5 DEF ConnectionFollowsStart, TypeOK
<1>9. Wire' = c.tail \o w
  BY <1>2 DEF Wire
<1>10. Whole(Wire)' /\ GarbageIsNoise'
  <2>1. Whole(Wire')
    BY <1>9 DEF Narrowed
  <2>2. Sound(Wire') /\ (conn'.poisoned => Babbled) /\ Babbled' = Babbled
    BY <1>2, <1>9 DEF Narrowed, Babbled
  <2>3. QED
    BY <2>1, <2>2 DEF Sound, GarbageIsNoise, Whole
<1>11. RepliesFit'
  BY <1>2, <1>9 DEF RepliesFit, Narrowed
<1>12. WaitersAsked'
  <2>1. Waiting(conn') \subseteq Waiting(conn)
    BY <1>2, <1>4 DEF Waiting
  <2>2. HandleUp => HandleUp'
    BY <1>3, <1>5 DEF HandleUp
  <2>3. QED
    BY <1>1, <1>2, <1>4, <2>1, <2>2 DEF WaitersAsked
<1>13. QED
  BY <1>6, <1>7, <1>8, <1>10, <1>11, <1>12, PartsMakeInv

(* execute(): a command of somebody who does not wait.                      *)
LEMMA IssueKeeps ==
  ASSUME QemuInv, NEW c, NEW t, NEW w, Narrowed(c, t, w), conn.open,
         NEW a \in Activities, NEW cmd \in {"caps", "query", "powerdown", "quit"},
         a \notin Waiting(c), Issue(c, t, a, cmd), toClient' = w,
         a = "caps" => c.greeted,
         a # "caps" => HandleUp,
         ladder' \in [Stoppers -> LadderPcs],
         \A s \in Stoppers : s # a => ladder'[s] = ladder[s],
         a \in Stoppers => ladder'[a] \in {"power", "quit"},
         UNCHANGED <<start, proc, signals, exitSeen, sock, noise>>
  PROVE  QemuInv'
<1>1. /\ TypeOK /\ ChildAccountedFor /\ ConnectionFollowsStart /\ WaitersAsked
      /\ c \in Connection /\ t \in [Activities -> Task] /\ w \in Seq(Byte)
      /\ c.nextId \in Nat /\ c.tail \in Seq(Byte)
      /\ c.pending \in SUBSET [id : Nat, by : Activities]
      /\ toQemu \in Seq(Command) /\ sent \in Nat
  BY DEF QemuInv, Narrowed, Connection, TypeOK
<1> DEFINE n == c.nextId + 1
           R == Entered(c.pending, n, a)
           u == Asking(t, a, sent + 1)
           x == Request(n, cmd, sent + 1)
           B == c.tail \o w
<1>2. /\ conn' = [c EXCEPT !.nextId = n, !.pending = R]
      /\ task' = u /\ toQemu' = Append(toQemu, x) /\ sent' = sent + 1
  BY DEF Issue, NextId, Entered, Asking, Request
<1>3. n \in Nat /\ R \subseteq [id : Nat, by : Activities] /\ x \in Command
  BY <1>1 DEF Command, Entered, Request
<1>4. u \in [Activities -> Task] /\ EntriesFit(R, n, u) /\ WireFits(R, n, u, Append(toQemu, x), B)
  <2>1. a \notin Owners(c.pending)
    BY DEF Waiting, Owners
  <2>2. B \in Seq(Byte)
    BY <1>1, ConcatProperties
  <2>3. \A i \in DOMAIN B : B[i].frame.id \in Nat
    BY <2>2, ByteParts, ByteFrames
  <2>4. EntriesFit(c.pending, c.nextId, t) /\ WireFits(c.pending, c.nextId, t, toQemu, B)
    BY DEF Narrowed
  <2>5. sent + 1 \in Nat
    BY <1>1
  <2> DEFINE P == c.pending
             m == c.nextId
             k == sent + 1
  <2>6. /\ P \in SUBSET [id : Nat, by : Activities] /\ m \in Nat /\ k \in Nat
        /\ t \in [Activities -> Task] /\ toQemu \in Seq(Command) /\ a \in Activities
        /\ a \notin Owners(P) /\ EntriesFit(P, m, t) /\ WireFits(P, m, t, toQemu, B)
        /\ \A i \in DOMAIN B : B[i].frame.id \in Nat
    BY <1>1, <2>1, <2>3, <2>4, <2>5
  <2> HIDE DEF B, P, m, k
  <2>7. /\ Asking(t, a, k) \in [Activities -> Task]
        /\ EntriesFit(Entered(P, m + 1, a), m + 1, Asking(t, a, k))
        /\ WireFits(Entered(P, m + 1, a), m + 1, Asking(t, a, k), Append(toQemu, Request(m + 1, cmd, k)), B)
    BY ONLY <2>6, IssueFits
  <2>8. QED
    BY ONLY <2>7 DEF P, m, k
<1>5. /\ conn' \in Connection /\ conn'.open = c.open /\ conn'.settled = c.settled
      /\ conn'.greeted = c.greeted /\ conn'.nextId = n /\ conn'.pending = R
      /\ conn'.tail = c.tail /\ conn'.poisoned = c.poisoned
  BY <1>1, <1>2, <1>3 DEF Connection
<1>6. Append(toQemu, x) \in Seq(Command)
  BY <1>1, <1>3, AppendProperties
<1>7. /\ c.open /\ c.settled = conn.settled /\ c.pending \subseteq conn.pending
      /\ conn.greeted => c.greeted
  BY DEF Narrowed
<1> HIDE DEF n, R, u, x, B
<1>8. TypeOK'
  BY <1>1, <1>2, <1>4, <1>5, <1>6 DEF TypeOK
<1>9. ChildAccountedFor'
  <2>1. \A s \in Stoppers : ladder'[s] = "gone" => ladder[s] = "gone"
    OBVIOUS
  <2>2. QED
    BY <1>1, <2>1 DEF ChildAccountedFor, Gone
<1>10. ConnectionFollowsStart'
  BY <1>1, <1>5, <1>7 DEF ConnectionFollowsStart
<1>11. Wire' = B
  BY <1>5, <1>7 DEF Wire, B
<1>12. Whole(Wire)' /\ GarbageIsNoise'
  <2>1. Whole(Wire')
    BY <1>11 DEF Narrowed, B
  <2>2. Sound(Wire') /\ (conn'.poisoned => Babbled) /\ Babbled' = Babbled
    BY <1>5, <1>11 DEF Narrowed, Babbled, B
  <2>3. QED
    BY <2>1, <2>2 DEF Sound, GarbageIsNoise, Whole
<1>13. RepliesFit'
  BY <1>2, <1>4, <1>5, <1>11 DEF RepliesFit
<1>14. WaitersAsked'
  <2>1. Waiting(conn') \subseteq Waiting(c) \cup {a} /\ Waiting(c) \subseteq Waiting(conn)
    <3>1. \A e \in R : e \in c.pending \/ e.by = a
      BY DEF R, Entered
    <3>2. QED
      BY <1>5, <1>7, <3>1 DEF Waiting
  <2>2. "caps" \notin Stoppers
    BY QemuAssumption
  <2>3. HandleUp' = HandleUp
    BY DEF HandleUp
  <2>4. QED
    BY <1>1, <1>5, <1>7, <2>1, <2>2, <2>3 DEF WaitersAsked
<1>15. QED
  BY <1>8, <1>9, <1>10, <1>12, <1>13, <1>14, PartsMakeInv


LEMMA WaitersAreMarked ==
  ASSUME NEW c, NEW t, NEW w, Narrowed(c, t, w), NEW a \in Activities
  PROVE  a \in Waiting(c) <=> t[a].pc = "waiting"
  BY DEF Narrowed, EntriesFit, Owners, Waiting

(* Deliver() is one of the lemmas above.                                    *)
LEMMA DeliverKeeps ==
  ASSUME QemuInv, NEW n \in DOMAIN toClient, Deliver(n)
  PROVE  QemuInv'
<1> DEFINE c == ConnRead(n)
           t == TasksRead(n)
           begin == c.greeted /\ ~conn.greeted
           caps == t["caps"].pc
<1>1. /\ conn.open
      /\ UNCHANGED <<proc, signals, exitSeen, sock, ladder, noise>>
      /\ \/ BadRead(n) /\ Teardown(c, t) /\ UNCHANGED sent
         \/ /\ ~BadRead(n) /\ begin
            /\ Issue(c, t, "caps", "caps") /\ toClient' = LaterBytes(n)
            /\ UNCHANGED start
         \/ /\ ~BadRead(n) /\ ~begin /\ ~c.settled /\ caps = "answered"
            /\ conn' = [c EXCEPT !.settled = TRUE]
            /\ start' = [start EXCEPT !.pc = "up"]
            /\ task' = t /\ toClient' = LaterBytes(n)
            /\ UNCHANGED <<toQemu, sent>>
         \/ ~BadRead(n) /\ Teardown(c, t) /\ UNCHANGED sent
         \/ /\ ~BadRead(n) /\ ~begin
            /\ conn' = c /\ task' = t /\ toClient' = LaterBytes(n)
            /\ UNCHANGED <<start, toQemu, sent>>
  BY DEF Deliver, ConnRead, TasksRead, FramesRead, BytesRead, BadRead, LaterBytes
<1>2. Narrowed(c, t, IF BadRead(n) THEN <<>> ELSE LaterBytes(n))
  BY <1>1, DeliverNarrows
<1>3. QemuInv /\ TypeOK /\ WaitersAsked
  BY DEF QemuInv
<1> HIDE DEF c, t
<1>4. CASE Teardown(c, t) /\ UNCHANGED sent
  BY <1>1, <1>2, <1>4, TeardownKeeps
<1>5. CASE /\ ~BadRead(n) /\ begin
           /\ Issue(c, t, "caps", "caps") /\ toClient' = LaterBytes(n)
           /\ UNCHANGED start
  <2>1. Waiting(c) \subseteq Waiting(conn)
    BY <1>2 DEF Narrowed, Waiting
  <2>2. "caps" \notin Waiting(c)
    BY <1>3, <1>5, <2>1 DEF WaitersAsked
  <2>3. "caps" \in Activities /\ "caps" \notin Stoppers
    BY QemuAssumption DEF Activities
  <2>4. ladder' \in [Stoppers -> LadderPcs]
    BY <1>1, <1>3 DEF TypeOK
  <2>5. Narrowed(c, t, LaterBytes(n))
    BY <1>2, <1>5
  <2>6. QED
    BY <1>1, <1>5, <2>2, <2>3, <2>4, <2>5, IssueKeeps
<1>6. CASE /\ ~BadRead(n) /\ ~c.settled
           /\ conn' = [c EXCEPT !.settled = TRUE]
           /\ start' = [start EXCEPT !.pc = "up"]
           /\ task' = t /\ toClient' = LaterBytes(n)
           /\ UNCHANGED <<toQemu, sent>>
  <2>1. Narrowed(c, t, LaterBytes(n))
    BY <1>2, <1>6
  <2>2. QED
    BY <1>1, <1>6, <2>1, NarrowingKeeps
<1>7. CASE /\ ~BadRead(n)
           /\ conn' = c /\ task' = t /\ toClient' = LaterBytes(n)
           /\ UNCHANGED <<start, toQemu, sent>>
  <2>1. Narrowed(c, t, LaterBytes(n))
    BY <1>2, <1>7
  <2>2. QED
    BY <1>1, <1>7, <2>1, NarrowingKeeps
<1>8. QED
  BY <1>1, <1>4, <1>5, <1>6, <1>7

LEMMA CommandTimeoutKeeps ==
  ASSUME QemuInv, NEW e \in conn.pending, CommandTimeout(e)
  PROVE  QemuInv'
<1> DEFINE c == [conn EXCEPT !.pending = @ \ {e}]
           t == Rejected(task, {e.by})
<1>1. conn.open
  BY DEF QemuInv, ConnectionFollowsStart
<1>2. Narrowed(c, t, toClient)
  BY <1>1, TimeoutNarrows
<1>3. /\ \/ Teardown(c, t)
         \/ conn' = c /\ task' = t /\ UNCHANGED <<start, toQemu, toClient>>
      /\ UNCHANGED <<proc, signals, exitSeen, sock, ladder, sent, noise>>
  BY DEF CommandTimeout
<1> HIDE DEF c, t
<1>4. CASE Teardown(c, t)
  BY <1>1, <1>2, <1>3, <1>4, TeardownKeeps
<1>5. CASE conn' = c /\ task' = t /\ UNCHANGED <<start, toQemu, toClient>>
  BY <1>1, <1>2, <1>3, <1>5, NarrowingKeeps
<1>6. QED
  BY <1>3, <1>4, <1>5

LEMMA SocketEndKeeps ==
  ASSUME QemuInv, SocketCloses \/ HandshakeTimeout
  PROVE  QemuInv'
<1>1. /\ conn.open /\ Teardown(conn, task)
      /\ UNCHANGED <<proc, signals, exitSeen, sock, ladder, sent, noise>>
  BY DEF SocketCloses, HandshakeTimeout
<1>2. Narrowed(conn, task, toClient)
  BY <1>1, OpenNarrows
<1>3. QED
  BY <1>1, <1>2, TeardownKeeps

(* A caller of execute(): a user, or a stop sequence that has moved on to   *)
(* the rung that waits for the answer.                                      *)
LEMMA ExecuteKeeps ==
  ASSUME QemuInv, NEW a \in Users \cup Stoppers, NEW cmd \in {"query", "powerdown", "quit"},
         task[a].pc # "waiting", Execute(a, cmd), HandleUp,
         ladder' \in [Stoppers -> LadderPcs],
         \A s \in Stoppers : s # a => ladder'[s] = ladder[s],
         a \in Stoppers => ladder'[a] \in {"power", "quit"},
         UNCHANGED <<start, proc, signals, exitSeen, sock, toClient, noise>>
  PROVE  QemuInv'
<1>1. /\ TypeOK /\ ChildAccountedFor /\ ConnectionFollowsStart /\ WaitersAsked
      /\ Whole(Wire) /\ RepliesFit /\ GarbageIsNoise
  BY DEF QemuInv
<1>2. a \in Activities /\ a # "caps"
  BY QemuAssumption DEF Activities
<1>3. CASE conn.open /\ Issue(conn, task, a, cmd)
  <2>1. Narrowed(conn, task, toClient)
    BY <1>3, OpenNarrows
  <2>2. a \notin Waiting(conn)
    BY <1>2, <2>1, WaitersAreMarked
  <2>3. QED
    BY <1>2, <1>3, <2>1, <2>2, IssueKeeps
<1>4. CASE ~conn.open /\ task' = Rejected(task, {a}) /\ UNCHANGED <<conn, toQemu, sent>>
  <2>1. /\ conn.pending = {} /\ conn.nextId \in Nat /\ task \in [Activities -> Task]
        /\ EntriesFit({}, conn.nextId, task) /\ {a} \in SUBSET Activities
    BY <1>1, <1>2, <1>4 DEF TypeOK, ConnectionFollowsStart, RepliesFit, Connection
  <2> DEFINE P == {}
  <2>2. /\ task' \in [Activities -> Task]
        /\ EntriesFit({e \in P : e.by \notin {a}}, conn.nextId, task')
    BY <1>4, <2>1, RejectedFits
  <2>3. EntriesFit({}, conn.nextId, task')
    <3>1. {e \in P : e.by \notin {a}} = {}
      OBVIOUS
    <3> HIDE DEF P
    <3>2. QED
      BY <2>2, <3>1
  <2>4. TypeOK'
    BY <1>1, <1>4, <2>2 DEF TypeOK
  <2>5. ChildAccountedFor'
    <3>1. \A s \in Stoppers : ladder'[s] = "gone" => ladder[s] = "gone"
      OBVIOUS
    <3>2. QED
      BY <1>1, <3>1 DEF ChildAccountedFor, Gone
  <2>6. ConnectionFollowsStart'
    BY <1>1, <1>4 DEF ConnectionFollowsStart
  <2>7. Wire' = Wire /\ Wire' = <<>> /\ toQemu' = <<>>
    BY <1>1, <1>4 DEF Wire, ConnectionFollowsStart
  <2>8. Whole(Wire)' /\ GarbageIsNoise'
    BY <1>1, <1>4, <2>7 DEF Whole, GarbageIsNoise, Babbled
  <2>9. DOMAIN <<>> = {}
    OBVIOUS
  <2>10. RepliesFit'
    BY <1>4, <2>1, <2>3, <2>7, <2>9 DEF RepliesFit, WireFits
  <2>11. WaitersAsked'
    BY <1>1, <1>4, <2>1 DEF WaitersAsked, Waiting, HandleUp
  <2>12. QED
    BY <2>4, <2>5, <2>6, <2>8, <2>10, <2>11, PartsMakeInv
<1>5. QED
  BY <1>3, <1>4 DEF Execute


-----------------------------------------------------------------------------
(* The start, the stop sequences and QEMU.                                  *)

Client == <<conn, toQemu, toClient, task, sent, noise>>

(* Steps that leave the client alone.                                       *)
LEMMA QuietKeeps ==
  ASSUME QemuInv, UNCHANGED Client, TypeOK', ChildAccountedFor',
         start'.pc = start.pc
           \/ /\ start.pc \notin {"handshake", "up"} /\ start'.pc \notin {"handshake", "up"}
              /\ start'.pc \in {"poll", "connect", "retry"} => start'.attempt < ConnectAttempts,
         start'.pc = start.pc => start' = start,
         \A s \in Stoppers : ladder'[s] = ladder[s] \/ (task[s].pc # "waiting" /\ HandleUp),
         start'.pc # "spawn" \/ start' = start
  PROVE  QemuInv'
<1>1. /\ TypeOK /\ ChildAccountedFor /\ ConnectionFollowsStart /\ WaitersAsked
      /\ Whole(Wire) /\ RepliesFit /\ GarbageIsNoise
  BY DEF QemuInv
<1>2. ConnectionFollowsStart'
  BY <1>1 DEF ConnectionFollowsStart, Client
<1>3. Wire' = Wire
  BY DEF Wire, Client
<1>4. Whole(Wire)' /\ GarbageIsNoise'
  BY <1>1, <1>3 DEF Whole, GarbageIsNoise, Babbled, Client
<1>5. RepliesFit'
  BY <1>1, <1>3 DEF RepliesFit, Client
<1>6. WaitersAsked'
  <2>1. \A s \in Stoppers : s \in Waiting(conn) => task[s].pc = "waiting"
    BY <1>1 DEF RepliesFit, EntriesFit, Owners, Waiting, Activities
  <2>2. HandleUp => HandleUp'
    BY DEF HandleUp
  <2>3. QED
    BY <1>1, <2>1, <2>2 DEF WaitersAsked, Client
<1>7. QED
  BY <1>2, <1>4, <1>5, <1>6, PartsMakeInv

LEMMA SpawnKeeps ==
  ASSUME QemuInv, Spawn \/ PollSocket \/ RetryDelay \/ AbandonQemu
  PROVE  QemuInv'
<1>1. /\ TypeOK /\ ChildAccountedFor /\ ConnectionFollowsStart
      /\ start \in [pc : StartPcs, attempt : 0 .. ConnectAttempts]
  BY DEF QemuInv, TypeOK
<1>2. /\ UNCHANGED Client /\ UNCHANGED <<exitSeen, sock, ladder>>
      /\ start'.attempt = start.attempt
      /\ start' \in [pc : StartPcs, attempt : 0 .. ConnectAttempts]
      /\ start.pc \notin {"handshake", "up"} /\ start'.pc \notin {"handshake", "up", "spawn"}
      /\ start'.pc # start.pc
      /\ start'.pc \in {"poll", "connect", "retry"} => start.pc \in {"spawn", "poll", "retry"}
  BY <1>1 DEF Spawn, PollSocket, RetryDelay, AbandonQemu, AfterTermWait, Client, StartPcs
<1>3. proc' \in {"none", "alive", "wedged", "stuck", "dead"} /\ signals' \subseteq {"TERM", "KILL"}
  BY <1>1 DEF Spawn, PollSocket, RetryDelay, AbandonQemu, Signal, TypeOK
<1>4. TypeOK'
  BY <1>1, <1>2, <1>3 DEF TypeOK, Client
<1>5. ChildAccountedFor'
  <2>1. CASE Spawn
    BY <1>1, <1>2, <2>1 DEF Spawn, ChildAccountedFor, Gone
  <2>2. CASE PollSocket
    BY <1>1, <1>2, <2>2 DEF PollSocket, ChildAccountedFor, Gone
  <2>3. CASE RetryDelay
    BY <1>1, <1>2, <2>3 DEF RetryDelay, ChildAccountedFor, Gone
  <2>4. CASE AbandonQemu
    BY <1>1, <1>2, <2>4 DEF AbandonQemu, AfterTermWait, ChildAccountedFor, Gone, Signal
  <2>5. QED
    BY <2>1, <2>2, <2>3, <2>4
<1>6. start'.pc \in {"poll", "connect", "retry"} => start'.attempt < ConnectAttempts
  BY <1>1, <1>2 DEF ConnectionFollowsStart
<1>7. QED
  <2>1. \A s \in Stoppers : ladder'[s] = ladder[s] \/ (task[s].pc # "waiting" /\ HandleUp)
    BY <1>2
  <2>2. QED
    BY <1>2, <1>4, <1>5, <1>6, <2>1, QuietKeeps

LEMMA ConnectKeeps ==
  ASSUME QemuInv, Connect
  PROVE  QemuInv'
<1>1. /\ TypeOK /\ ChildAccountedFor /\ ConnectionFollowsStart /\ WaitersAsked
      /\ Whole(Wire) /\ RepliesFit /\ GarbageIsNoise
      /\ start \in [pc : StartPcs, attempt : 0 .. ConnectAttempts]
      /\ start.pc = "connect"
  BY DEF QemuInv, TypeOK, Connect
<1>2. /\ ~conn.open /\ conn.pending = {} /\ toQemu = <<>> /\ toClient = <<>>
      /\ start.attempt + 1 \in 0 .. ConnectAttempts
  BY <1>1, QemuAssumption DEF ConnectionFollowsStart
<1>3. CASE /\ start' = ConnectFailed(start.attempt + 1) /\ UNCHANGED <<conn, task>>
           /\ UNCHANGED <<proc, signals, exitSeen, sock, toQemu, toClient, ladder, sent, noise>>
  <2>1. /\ start' \in [pc : StartPcs, attempt : 0 .. ConnectAttempts]
        /\ \/ start'.pc = "retry" /\ start'.attempt < ConnectAttempts
           \/ start'.pc = "rejected" /\ exitSeen
           \/ start'.pc = "abandon"
    BY <1>2, <1>3 DEF ConnectFailed, MoreAttempts, StartPcs
  <2>2. TypeOK'
    BY <1>1, <1>3, <2>1 DEF TypeOK
  <2>3. ChildAccountedFor'
    BY <1>1, <1>3, <2>1 DEF ChildAccountedFor, Gone
  <2>4. \A s \in Stoppers : ladder'[s] = ladder[s] \/ (task[s].pc # "waiting" /\ HandleUp)
    BY <1>3
  <2>5. UNCHANGED Client
    BY <1>3 DEF Client
  <2>6. QED
    BY <1>1, <2>1, <2>2, <2>3, <2>4, <2>5, QuietKeeps
<1>4. CASE /\ conn' = FreshConn /\ task' = [task EXCEPT !["caps"] = IdleTask]
           /\ start' = [pc |-> "handshake", attempt |-> start.attempt + 1]
           /\ UNCHANGED <<proc, signals, exitSeen, sock, toQemu, toClient, ladder, sent, noise>>
  <2>1. /\ conn' \in Connection /\ conn'.open /\ ~conn'.settled /\ ~conn'.greeted
        /\ conn'.pending = {} /\ conn'.nextId \in Nat /\ conn'.tail = <<>> /\ ~conn'.poisoned
    BY <1>4, EmptySeq DEF FreshConn, NoConn, Connection
  <2>2. IdleTask \in Task
    BY DEF IdleTask, Task
  <2>3. /\ task' \in [Activities -> Task]
        /\ \A a \in Activities : task'[a] = task[a] \/ task'[a] = IdleTask
    BY <1>1, <1>4, <2>2 DEF TypeOK
  <2>4. TypeOK'
    BY <1>1, <1>2, <1>4, <2>1, <2>3 DEF TypeOK, StartPcs
  <2>5. ChildAccountedFor'
    BY <1>1, <1>4 DEF ChildAccountedFor, Gone
  <2>6. ConnectionFollowsStart'
    BY <1>4, <2>1 DEF ConnectionFollowsStart
  <2>7. Wire' = <<>> /\ DOMAIN <<>> = {}
    BY <1>2, <1>4, <2>1 DEF Wire
  <2>8. Whole(Wire)' /\ GarbageIsNoise'
    BY <2>1, <2>7 DEF Whole, GarbageIsNoise
  <2>9. RepliesFit'
    <3>1. \A a \in Activities : /\ task[a].pc # "waiting"
                                /\ task[a].from \in {None, task[a].serial}
      BY <1>1, <1>2 DEF RepliesFit, EntriesFit, Owners
    <3>2. IdleTask.pc # "waiting" /\ IdleTask.from = None
      BY DEF IdleTask
    <3>3. \A a \in Activities : /\ task'[a].pc # "waiting"
                                /\ task'[a].from \in {None, task'[a].serial}
      BY <2>3, <3>1, <3>2
    <3>4. EntriesFit({}, conn'.nextId, task')
      BY <3>3 DEF EntriesFit, Owners
    <3>5. QED
      BY <1>2, <1>4, <2>1, <2>7, <3>4 DEF RepliesFit, WireFits
  <2>10. WaitersAsked'
    BY <1>1, <1>4, <2>1 DEF WaitersAsked, Waiting, HandleUp
  <2>11. QED
    BY <2>4, <2>5, <2>6, <2>8, <2>9, <2>10, PartsMakeInv
<1>5. QED
  BY <1>3, <1>4 DEF Connect

LEMMA StopKeeps ==
  ASSUME QemuInv, NEW s \in Stoppers, StopStep(s)
  PROVE  QemuInv'
<1>1. /\ TypeOK /\ ChildAccountedFor /\ ConnectionFollowsStart /\ WaitersAsked
      /\ RepliesFit /\ ladder \in [Stoppers -> LadderPcs]
  BY DEF QemuInv, TypeOK
<1>2. s \in Waiting(conn) <=> task[s].pc = "waiting"
  BY <1>1 DEF RepliesFit, EntriesFit, Owners, Waiting, Activities
<1>3. ASSUME NEW pc \in LadderPcs, LadderGoto(s, pc)
      PROVE  /\ ladder' \in [Stoppers -> LadderPcs] /\ ladder'[s] = pc
             /\ \A r \in Stoppers : r # s => ladder'[r] = ladder[r]
  BY <1>1, <1>3 DEF LadderGoto
<1>4. ASSUME NEW pc \in LadderPcs, LadderGoto(s, pc), task[s].pc # "waiting", HandleUp,
             pc = "gone" => exitSeen, UNCHANGED Client,
             UNCHANGED <<proc, exitSeen, sock, start>>,
             signals' = signals \/ signals' = signals \cup {"TERM"} \/ signals' = signals \cup {"KILL"}
      PROVE  QemuInv'
  <2>1. TypeOK'
    BY <1>1, <1>3, <1>4 DEF TypeOK, Client
  <2>2. ChildAccountedFor'
    BY <1>1, <1>3, <1>4 DEF ChildAccountedFor, Gone
  <2>3. QED
    BY <1>3, <1>4, <2>1, <2>2, QuietKeeps
<1>5. ASSUME NEW cmd \in {"powerdown", "quit"}, NEW pc \in {"power", "quit"},
             LadderGoto(s, pc), Execute(s, cmd), HandleUp, task[s].pc # "waiting",
             UNCHANGED <<start, proc, signals, exitSeen, sock, toClient, noise>>
      PROVE  QemuInv'
  <2>1. pc \in LadderPcs
    BY DEF LadderPcs
  <2>2. QED
    BY <1>3, <1>5, <2>1, ExecuteKeeps
<1>6. ladder[s] \notin {"power", "quit"} => task[s].pc # "waiting"
  BY <1>1, <1>2 DEF WaitersAsked
<1>7. CASE StopBegins(s)
  <2>1. CASE /\ exitSeen /\ LadderGoto(s, "gone") /\ UNCHANGED <<conn, task, toQemu, sent>>
             /\ UNCHANGED <<proc, signals, exitSeen, sock, start, toClient, noise>>
    BY <1>4, <1>6, <1>7, <2>1 DEF StopBegins, Client, LadderPcs
  <2>2. CASE /\ LadderGoto(s, "power") /\ Execute(s, "powerdown")
             /\ UNCHANGED <<proc, signals, exitSeen, sock, start, toClient, noise>>
    BY <1>5, <1>6, <1>7, <2>2 DEF StopBegins
  <2>3. QED
    BY <1>7, <2>1, <2>2 DEF StopBegins
<1>8. CASE CommandSettles(s)
  <2>1. /\ LadderGoto(s, "powerWait") \/ LadderGoto(s, "quitWait")
        /\ task[s].pc # "waiting" /\ HandleUp
        /\ UNCHANGED Client /\ UNCHANGED <<proc, signals, exitSeen, sock, start>>
    BY <1>1, <1>8 DEF CommandSettles, Settled, WaitersAsked, Client
  <2>2. {"powerWait", "quitWait"} \subseteq LadderPcs
    BY DEF LadderPcs, Waits
  <2>3. QED
    BY <1>4, <2>1, <2>2
<1>9. CASE WaitEnds(s)
  <2>1. /\ LadderGoto(s, "gone") /\ exitSeen /\ ladder[s] \in Waits
        /\ UNCHANGED Client /\ UNCHANGED <<proc, signals, exitSeen, sock, start>>
    BY <1>9 DEF WaitEnds, SeesExit, Client
  <2>2. task[s].pc # "waiting" /\ HandleUp
    BY <1>1, <1>6, <2>1 DEF WaitersAsked, Waits
  <2>3. "gone" \in LadderPcs
    BY DEF LadderPcs
  <2>4. QED
    BY <1>4, <2>1, <2>2, <2>3
<1>10. CASE WaitExpires(s)
  <2>1. ladder[s] \in Waits
    BY <1>10 DEF WaitExpires, Waits
  <2>2. task[s].pc # "waiting" /\ HandleUp
    BY <1>1, <1>6, <2>1 DEF WaitersAsked, Waits
  <2>3. UNCHANGED <<proc, exitSeen, sock, start, toClient, noise>>
    BY <1>10 DEF WaitExpires
  <2>4. CASE LadderGoto(s, "quit") /\ Execute(s, "quit") /\ UNCHANGED signals
    BY <1>5, <2>2, <2>3, <2>4
  <2>5. CASE /\ \/ LadderGoto(s, "termWait") /\ Signal("TERM")
                \/ LadderGoto(s, "killWait") /\ Signal("KILL")
                \/ LadderGoto(s, "threw") /\ UNCHANGED signals
             /\ UNCHANGED <<conn, task, toQemu, sent>>
    <3>1. PICK pc \in {"termWait", "killWait", "threw"} : LadderGoto(s, pc)
      BY <2>5
    <3>2. pc \in LadderPcs /\ pc # "gone"
      BY DEF LadderPcs, Waits
    <3>3. signals' = signals \/ signals' = signals \cup {"TERM"} \/ signals' = signals \cup {"KILL"}
      BY <2>5 DEF Signal
    <3>4. QED
      BY <1>4, <2>2, <2>3, <2>5, <3>1, <3>2, <3>3 DEF Client
  <2>6. QED
    BY <1>10, <2>4, <2>5 DEF WaitExpires
<1>11. QED
  BY <1>7, <1>8, <1>9, <1>10 DEF StopStep

(* Steps of QEMU and of the kernel that write nothing to the client.        *)
LEMMA QemuKeeps ==
  ASSUME QemuInv, QemuBinds \/ QemuFails \/ SignalKills \/ ExitEvent
  PROVE  QemuInv'
<1>1. /\ TypeOK /\ ChildAccountedFor
      /\ UNCHANGED Client /\ UNCHANGED <<start, ladder>>
  BY DEF QemuInv, QemuBinds, QemuFails, SignalKills, ExitEvent, Client
<1>2. TypeOK'
  BY <1>1 DEF TypeOK, QemuBinds, QemuFails, SignalKills, ExitEvent, Client
<1>3. /\ exitSeen' => proc' = "dead"
      /\ proc = "none" => proc' = "none"
      /\ proc = "dead" => proc' = "dead"
      /\ proc = "stuck" => proc' = "stuck"
      /\ signals' = signals \/ proc' = "dead"
  BY <1>1 DEF ChildAccountedFor, QemuBinds, QemuFails, SignalKills, ExitEvent
<1>4. ChildAccountedFor'
  BY <1>1, <1>3 DEF ChildAccountedFor, Gone
<1>5. \A s \in Stoppers : ladder'[s] = ladder[s] \/ (task[s].pc # "waiting" /\ HandleUp)
  BY <1>1
<1>6. QED
  BY <1>1, <1>2, <1>4, <1>5, QuietKeeps

(* QEMU writes a line: a greeting or noise, or the answer to the oldest     *)
(* command.                                                                 *)
LEMMA LineKeeps ==
  ASSUME QemuInv, conn.open, NEW f \in [kind : FrameKinds, id : Nat, serial : Nat],
         toClient' = toClient \o Line(f),
         toQemu' = toQemu \/ (toQemu # <<>> /\ toQemu' = Tail(toQemu)),
         IsReply(f) => Fits(conn.pending, conn.nextId, task, f),
         f.kind = "garbage" => Babbled', Babbled => Babbled',
         noise' \in Nat, TypeOK', ChildAccountedFor',
         UNCHANGED <<conn, task, start, ladder>>
  PROVE  QemuInv'
<1>1. /\ TypeOK /\ ChildAccountedFor /\ ConnectionFollowsStart /\ WaitersAsked
      /\ Whole(Wire) /\ RepliesFit /\ GarbageIsNoise
      /\ toClient \in Seq(Byte) /\ conn.tail \in Seq(Byte) /\ toQemu \in Seq(Command)
      /\ Wire \in Seq(Byte)
  BY WireIsBytes DEF QemuInv, TypeOK
<1>2. Line(f) \in Seq(Byte)
  BY DEF Line, Byte
<1>3. Wire' = Wire \o Line(f)
  <2>1. Wire' = conn.tail \o (toClient \o Line(f)) /\ Wire = conn.tail \o toClient
    BY DEF Wire
  <2> DEFINE l == Line(f)
             b == conn.tail
  <2>2. b \in Seq(Byte) /\ l \in Seq(Byte) /\ toClient \in Seq(Byte)
    BY <1>1, <1>2
  <2> HIDE DEF l, b
  <2>3. b \o (toClient \o l) = (b \o toClient) \o l
    BY <2>2, LineAppended
  <2>4. QED
    BY <2>1, <2>3 DEF l, b
<1>4. /\ Whole(Wire')
      /\ \A i \in DOMAIN Wire' : (i \in DOMAIN Wire /\ Wire'[i] = Wire[i]) \/ Wire'[i].frame = f
  BY <1>1, <1>2, <1>3, LinesStayWhole
<1>5. ConnectionFollowsStart'
  BY <1>1 DEF ConnectionFollowsStart
<1>6. Whole(Wire)' /\ GarbageIsNoise'
  BY <1>1, <1>4 DEF Whole, GarbageIsNoise
<1>7. \A i \in DOMAIN toQemu' : \E k \in DOMAIN toQemu : toQemu'[i] = toQemu[k]
  <2>1. CASE toQemu' = toQemu
    BY <2>1
  <2>2. CASE toQemu # <<>> /\ toQemu' = Tail(toQemu)
    <3>1. toQemu \in Seq(Command) /\ toQemu # <<>>
      BY <1>1, <2>2
    <3> DEFINE q == Tail(toQemu)
               h == Len(toQemu)
    <3>2. /\ h \in Nat /\ DOMAIN toQemu = 1 .. h
          /\ q \in Seq(Command) /\ Len(q) = h - 1 /\ \A i \in 1 .. Len(q) : q[i] = toQemu[i + 1]
      BY ONLY <3>1, HeadTailProperties, LenProperties
    <3>3. DOMAIN q = 1 .. Len(q)
      BY ONLY <3>2, LenProperties
    <3> HIDE DEF q, h
    <3>4. ASSUME NEW i \in DOMAIN q PROVE \E k \in DOMAIN toQemu : q[i] = toQemu[k]
      <4>1. i \in 1 .. Len(q) /\ i + 1 \in 1 .. h
        BY ONLY <3>2, <3>3, i \in DOMAIN q
      <4>2. q[i] = toQemu[i + 1] /\ i + 1 \in DOMAIN toQemu
        BY ONLY <3>2, <4>1
      <4>3. QED
        BY ONLY <4>2
    <3>5. toQemu' = q
      BY ONLY <2>2 DEF q
    <3>6. QED
      BY ONLY <3>4, <3>5
  <2>3. QED
    BY <2>1, <2>2
<1>8. RepliesFit'
  BY <1>1, <1>4, <1>7 DEF RepliesFit, WireFits
<1>9. WaitersAsked'
  BY <1>1 DEF WaitersAsked, HandleUp
<1>10. QED
  BY <1>5, <1>6, <1>8, <1>9, PartsMakeInv

LEMMA QemuWritesKeeps ==
  ASSUME QemuInv, QemuGreets \/ QemuAnswers \/ QemuSpeaks
  PROVE  QemuInv'
<1>1. /\ TypeOK /\ ChildAccountedFor /\ ConnectionFollowsStart /\ RepliesFit /\ Whole(Wire)
      /\ toClient \in Seq(Byte) /\ toQemu \in Seq(Command) /\ noise \in Nat
  BY DEF QemuInv, TypeOK
<1>2. ASSUME NEW f \in [kind : FrameKinds, id : Nat, serial : Nat]
      PROVE  toClient \o Line(f) \in Seq(Byte)
  BY <1>1, ConcatProperties DEF Line, Byte
<1>3. CASE QemuGreets
  <2> DEFINE f == Frame("greeting", 0, 0)
  <2>1. f \in [kind : FrameKinds, id : Nat, serial : Nat] /\ f.kind = "greeting"
    BY DEF Frame, FrameKinds
  <2>2. toClient' = toClient \o Line(f)
    BY <1>3, <1>1 DEF QemuGreets, Greeted, Line
  <2> HIDE DEF f
  <2>3. TypeOK'
    BY <1>1, <1>2, <1>3, <2>1, <2>2 DEF QemuGreets, TypeOK
  <2>4. ChildAccountedFor'
    BY <1>1, <1>3 DEF QemuGreets, ChildAccountedFor, Gone
  <2>5. QED
    BY <1>1, <1>3, <2>1, <2>2, <2>3, <2>4, LineKeeps DEF QemuGreets, IsReply, Babbled
<1>4. CASE QemuSpeaks
  <2>1. PICK kind \in Noise : toClient' = toClient \o Line(Frame(kind, 0, 0))
    BY <1>4 DEF QemuSpeaks
  <2> DEFINE f == Frame(kind, 0, 0)
  <2>2. /\ f \in [kind : FrameKinds, id : Nat, serial : Nat] /\ f.kind = kind
        /\ kind \in {"stray", "garbage"}
    BY QemuAssumption DEF Frame, FrameKinds
  <2>3. toClient' = toClient \o Line(f)
    BY <2>1
  <2>4. noise' = noise + 1 /\ noise' \in Nat /\ noise' > 0
    BY <1>1, <1>4 DEF QemuSpeaks
  <2> HIDE DEF f
  <2>5. TypeOK'
    BY <1>1, <1>2, <1>4, <2>2, <2>3, <2>4 DEF QemuSpeaks, TypeOK
  <2>6. ChildAccountedFor'
    BY <1>1, <1>4 DEF QemuSpeaks, ChildAccountedFor, Gone
  <2>7. (f.kind = "garbage" => Babbled') /\ (Babbled => Babbled')
    BY <2>2, <2>4 DEF Babbled
  <2>8. QED
    BY <1>1, <1>4, <2>2, <2>3, <2>4, <2>5, <2>6, <2>7, LineKeeps DEF QemuSpeaks, IsReply
<1>5. CASE QemuAnswers
  <2> DEFINE h == Head(toQemu)
  <2>1. /\ toQemu # <<>> /\ conn.open /\ toQemu' = Tail(toQemu) /\ toQemu' \in Seq(Command)
        /\ UNCHANGED <<signals, exitSeen, sock, start, conn, task, ladder, sent, noise>>
        /\ proc = "alive" /\ proc' \in {"alive", "dead"}
    BY <1>1, <1>5, HeadTailProperties DEF QemuAnswers, ConnectionFollowsStart
  <2>2. h \in Command /\ 1 \in DOMAIN toQemu /\ h = toQemu[1]
    BY <1>1, <2>1, HeadTailProperties, LenProperties
  <2>3. Fits(conn.pending, conn.nextId, task, h) /\ h.id \in Nat /\ h.serial \in Nat
    BY <1>1, <2>2 DEF RepliesFit, WireFits, Command
  <2>4. ChildAccountedFor'
    BY <1>1, <2>1 DEF ChildAccountedFor, Gone
  <2> HIDE DEF h
  <2>5. ASSUME NEW kind \in {"return", "error"}, toClient' = toClient \o Line(Frame(kind, h.id, h.serial))
        PROVE  QemuInv'
    <3> DEFINE f == Frame(kind, h.id, h.serial)
    <3>1. /\ f \in [kind : FrameKinds, id : Nat, serial : Nat] /\ f.kind = kind
          /\ f.id = h.id /\ f.serial = h.serial
      BY <2>3 DEF Frame, FrameKinds
    <3>2. toClient' = toClient \o Line(f)
      BY <2>5
    <3> HIDE DEF f
    <3>3. Fits(conn.pending, conn.nextId, task, f)
      BY <2>3, <3>1 DEF Fits
    <3>4. TypeOK'
      BY <1>1, <1>2, <2>1, <3>1, <3>2 DEF TypeOK
    <3>5. QED
      BY <1>1, <2>1, <2>4, <3>1, <3>2, <3>3, <3>4, LineKeeps DEF Babbled
  <2>6. CASE UNCHANGED toClient
    <3>1. TypeOK'
      BY <1>1, <2>1, <2>6 DEF TypeOK
    <3>2. ConnectionFollowsStart'
      BY <1>1, <2>1, <2>6 DEF ConnectionFollowsStart
    <3>3. Wire' = Wire
      BY <2>1, <2>6 DEF Wire
    <3>4. \A i \in DOMAIN toQemu' : \E k \in DOMAIN toQemu : toQemu'[i] = toQemu[k]
      BY <1>1, <2>1, HeadTailProperties, LenProperties
    <3>5. RepliesFit'
      BY <1>1, <2>1, <3>3, <3>4 DEF RepliesFit, WireFits
    <3>6. Whole(Wire)' /\ GarbageIsNoise'
      BY <1>1, <2>1, <3>3 DEF Whole, QemuInv, GarbageIsNoise, Babbled
    <3>7. WaitersAsked'
      BY <2>1 DEF QemuInv, WaitersAsked, HandleUp
    <3>8. QED
      BY <2>4, <3>1, <3>2, <3>5, <3>6, <3>7, PartsMakeInv
  <2>7. QED
    BY <1>5, <2>5, <2>6 DEF QemuAnswers, h
<1>6. QED
  BY <1>3, <1>4, <1>5

-----------------------------------------------------------------------------
(* The theorems.                                                            *)

LEMMA InitInv == Init => QemuInv
<1>1. SUFFICES ASSUME Init PROVE QemuInv
  OBVIOUS
<1>2. /\ conn = NoConn /\ toQemu = <<>> /\ toClient = <<>> /\ task = Asleep /\ noise = 0
      /\ start = [pc |-> "spawn", attempt |-> 0] /\ ladder = [s \in Stoppers |-> "idle"]
  BY <1>1 DEF Init
<1>3. IdleTask \in Task /\ \A a \in Activities : task[a] = IdleTask
  BY <1>2 DEF IdleTask, Task, Asleep
<1>4. TypeOK
  <2>1. conn \in Connection
    BY <1>2, EmptySeq DEF NoConn, Connection
  <2>2. task \in [Activities -> Task]
    BY <1>2, <1>3 DEF Asleep
  <2>3. start \in [pc : StartPcs, attempt : 0 .. ConnectAttempts]
    BY <1>2, QemuAssumption DEF StartPcs
  <2>4. ladder \in [Stoppers -> LadderPcs]
    BY <1>2 DEF LadderPcs
  <2>5. toQemu \in Seq(Command) /\ toClient \in Seq(Byte)
    BY <1>2, EmptySeq
  <2>6. QED
    BY <1>1, <2>1, <2>2, <2>3, <2>4, <2>5 DEF Init, TypeOK
<1>5. ChildAccountedFor
  BY <1>1 DEF Init, ChildAccountedFor
<1>6. ConnectionFollowsStart
  BY <1>2, QemuAssumption DEF ConnectionFollowsStart, NoConn
<1>7. Wire = <<>> /\ DOMAIN <<>> = {}
  BY <1>2 DEF Wire, NoConn
<1>8. Whole(Wire) /\ GarbageIsNoise
  BY <1>2, <1>7 DEF Whole, GarbageIsNoise, NoConn
<1>9. RepliesFit
  <2>1. \A a \in Activities : task[a].pc # "waiting" /\ task[a].from = None
    BY <1>3 DEF IdleTask
  <2>2. conn.pending = {}
    BY <1>2 DEF NoConn
  <2>3. QED
    BY <1>2, <1>7, <2>1, <2>2 DEF RepliesFit, EntriesFit, WireFits, Owners
<1>10. WaitersAsked
  BY <1>2 DEF WaitersAsked, Waiting, NoConn
<1>11. QED
  BY <1>4, <1>5, <1>6, <1>8, <1>9, <1>10 DEF QemuInv

LEMMA StepInv == QemuInv /\ [Next]_vars => QemuInv'
<1>1. SUFFICES ASSUME QemuInv, [Next]_vars PROVE QemuInv'
  OBVIOUS
<1>2. CASE ClientStep
  BY <1>1, <1>2, DeliverKeeps, SocketEndKeeps, CommandTimeoutKeeps DEF ClientStep
<1>3. CASE StartStep
  BY <1>1, <1>3, SpawnKeeps, ConnectKeeps DEF StartStep
<1>4. ASSUME NEW u \in Users, Ask(u) PROVE QemuInv'
  <2>1. /\ HandleUp /\ task[u].pc # "waiting" /\ Execute(u, "query")
        /\ UNCHANGED <<proc, signals, exitSeen, sock, start, toClient, ladder, noise>>
    BY <1>4 DEF Ask
  <2>2. ladder' \in [Stoppers -> LadderPcs] /\ u \notin Stoppers
    BY <1>1, <2>1, QemuAssumption DEF QemuInv, TypeOK
  <2>3. QED
    BY <1>1, <2>1, <2>2, ExecuteKeeps
<1>5. ASSUME NEW s \in Stoppers, StopStep(s) PROVE QemuInv'
  BY <1>1, <1>5, StopKeeps
<1>6. CASE QemuStep \/ SignalKills \/ ExitEvent
  BY <1>1, <1>6, QemuKeeps, QemuWritesKeeps DEF QemuStep
<1>7. CASE UNCHANGED vars
  <2>1. TypeOK'
    BY <1>1, <1>7 DEF QemuInv, TypeOK, vars
  <2>2. ChildAccountedFor'
    BY <1>1, <1>7 DEF QemuInv, ChildAccountedFor, Gone, vars
  <2>3. QED
    BY <1>1, <1>7, <2>1, <2>2, QuietKeeps DEF vars, Client
<1>8. QED
  BY <1>1, <1>2, <1>3, <1>4, <1>5, <1>6, <1>7 DEF Next, Finished

LEMMA Invariance == Spec => []QemuInv
  BY InitInv, StepInv, PTL DEF Spec

(* The process, the stream and the awaits keep their types.                 *)
THEOREM QemuTypes == Spec => []TypeOK
<1>1. QemuInv => TypeOK
  BY DEF QemuInv
<1>2. QED
  BY <1>1, Invariance, PTL

(* However QEMU's bytes are cut into chunks, and whatever times out and is  *)
(* answered late, each answer goes to the command it answers, and the       *)
(* stream is given up only for a line that is not JSON.  About              *)
(* QmpDecoder.push(), dispatch() and execute().                             *)
THEOREM StreamRead == Spec => []StreamIsReadRight
<1>1. QemuInv => StreamIsReadRight
  BY DEF QemuInv, RepliesFit, EntriesFit, GarbageIsNoise, Babbled, Owners, Waiting,
         StreamIsReadRight, ReplySettlesItsCommand, PoisonedOnlyByGarbage
<1>2. QED
  BY <1>1, Invariance, PTL

(* A start that fails and a stop sequence that ends without throwing leave  *)
(* no child they have not killed.  About startQemu(), abandonQemu() and     *)
(* stopQemu().                                                              *)
THEOREM NoChildIsLeft == Spec => []NoChildLeftBehind
<1>1. QemuInv => NoChildLeftBehind
  BY DEF QemuInv, ChildAccountedFor, NoChildLeftBehind
<1>2. QED
  BY <1>1, Invariance, PTL


=============================================================================
