---------------------------- MODULE QemuProcess ----------------------------
(***************************************************************************)
(* One QEMU child and everything that talks to it: startQemu() of          *)
(* vm/qemu/process.ts with its socket wait and connect retries, the QMP    *)
(* client of vm/qmp/ with its framing, id-correlated commands and timers,  *)
(* the users of the handle (discoverSshPort, sendText), and the stop       *)
(* sequence of vm/service.ts on top of stopQemu().                         *)
(*                                                                         *)
(* Time is abstract: a timer that is armed may fire at any moment.  Code   *)
(* between two awaits is one step.                                         *)
(***************************************************************************)
EXTENDS Naturals, Sequences, FiniteSets, Functions

CONSTANTS
  Users,            \* activities that send commands one after another
  Stoppers,         \* activations of the stop sequence on the one handle
  ConnectAttempts,  \* CONNECT_ATTEMPTS
  MaxCommands,      \* bound: commands the users send
  MaxNoise,         \* bound: lines QEMU sends unasked
  Noise,            \* the kinds of these lines
  Faults,           \* "stuck": a process may survive SIGKILL
  None              \* undefined

ASSUME QemuAssumption ==
  /\ ConnectAttempts \in Nat \ {0} /\ MaxCommands \in Nat /\ MaxNoise \in Nat
  /\ Noise \subseteq {"stray", "garbage"} /\ Faults \subseteq {"stuck"}
  /\ "caps" \notin Users \cup Stoppers /\ Users \cap Stoppers = {}

VARIABLES
  proc,      \* the process: none, alive, wedged (main loop hangs), stuck, dead
  signals,   \* signals sent to it and not yet taken
  exitSeen,  \* observedExit() # undefined
  sock,      \* the file qmp.sock: none, stale (no listener), listening
  start,     \* startQemu(): its await, and connects begun
  conn,      \* the closure of the current connectQmp()
  toQemu,    \* commands on the wire
  toClient,  \* bytes on the wire
  task,      \* who awaits which command, and what settled the last one
  ladder,    \* the stop sequence of each stopper
  sent,      \* execute() calls that reached the wire, over all connections
  noise      \* lines QEMU sent unasked

vars == <<proc, signals, exitSeen, sock, start, conn, toQemu, toClient,
          task, ladder, sent, noise>>

Activities == Users \cup Stoppers \cup {"caps"}

-----------------------------------------------------------------------------
(* Frames and bytes.  A line is cut into two parts, the second ending in the *)
(* newline, so that a chunk may end inside a line.                          *)

Frame(kind, id, serial) == [kind |-> kind, id |-> id, serial |-> serial]
Line(f) == <<[frame |-> f, part |-> 1], [frame |-> f, part |-> 2]>>

(* QmpDecoder.push: the lines that tail and chunk complete, each named by    *)
(* the position of its newline; the first one that does not parse poisons    *)
(* the stream.                                                               *)
Newlines(bytes) == {i \in DOMAIN bytes : bytes[i].part = 2}
LastNewline(bytes, i) ==
  LET before == {0} \cup {j \in Newlines(bytes) : j < i}
  IN  CHOOSE j \in before : \A k \in before : k <= j
LineEndingAt(bytes, i) == SubSeq(bytes, 1 + LastNewline(bytes, i), i)
Parses(line) == line = Line(line[1].frame) /\ line[1].frame.kind # "garbage"
BadLines(bytes) == {i \in Newlines(bytes) : ~Parses(LineEndingAt(bytes, i))}
GoodFrames(bytes) ==
  {bytes[i].frame : i \in {j \in Newlines(bytes) : \A b \in BadLines(bytes) : j < b}}
Rest(bytes) == SubSeq(bytes, 1 + LastNewline(bytes, Len(bytes) + 1), Len(bytes))

(* The bytes the decoder looks at.                                           *)
Buffered(tail, chunk) == tail \o chunk

-----------------------------------------------------------------------------
(* States.                                                                  *)

NoConn == [open |-> FALSE, settled |-> TRUE, greeted |-> FALSE, nextId |-> 0,
           pending |-> {}, tail |-> <<>>, poisoned |-> FALSE]
FreshConn == [NoConn EXCEPT !.open = TRUE, !.settled = FALSE]

IdleTask == [pc |-> "idle", serial |-> 0, from |-> None]
Asleep == [a \in Activities |-> IdleTask]

Init ==
  /\ proc = "none" /\ signals = {} /\ exitSeen = FALSE
  /\ sock \in {"none", "stale"}
  /\ start = [pc |-> "spawn", attempt |-> 0]
  /\ conn = NoConn /\ toQemu = <<>> /\ toClient = <<>>
  /\ task = Asleep
  /\ ladder = [s \in Stoppers |-> "idle"]
  /\ sent = 0 /\ noise = 0

HandleUp == start.pc = "up"
Gone == proc \in {"none", "dead"}

-----------------------------------------------------------------------------
(* The client.                                                              *)

(* The awaits of activities A end without an answer.                        *)
Rejected(t, A) == [a \in Activities |-> IF a \in A THEN [t[a] EXCEPT !.pc = "failed"] ELSE t[a]]

Waiting(c) == {e.by : e \in c.pending}

(* teardown(): every command in flight is rejected.  Broken variant: the    *)
(* entries are forgotten with their timers, and nobody is told.             *)
TornTaskForgotten(t, c) == t
TornTask(t, c) == Rejected(t, Waiting(c))

(* A connect attempt has failed: another one, or the cleanup.                *)
MoreAttempts(attempt) == attempt < ConnectAttempts
ConnectFailed(attempt) ==
  [attempt |-> attempt,
   pc |-> IF MoreAttempts(attempt) THEN "retry" ELSE IF exitSeen THEN "rejected" ELSE "abandon"]

(* teardown() as a step: the socket is destroyed with what is on the wire;  *)
(* an unsettled handshake is rejected, which ends this connect attempt.     *)
Teardown(c, t) ==
  /\ conn' = [c EXCEPT !.open = FALSE, !.settled = TRUE, !.pending = {}]
  /\ task' = TornTask(t, c)
  /\ start' = IF c.settled THEN start ELSE ConnectFailed(start.attempt)
  /\ toQemu' = <<>> /\ toClient' = <<>>

(* execute() on an open connection: a new id, a timer, a frame.  Broken     *)
(* variant: the id counts only the commands in flight.                      *)
NextIdOfPending(c) == Cardinality(c.pending) + 1
NextId(c) == c.nextId + 1

Issue(c, t, a, cmd) ==
  LET id == NextId(c)
  IN  /\ conn' = [c EXCEPT !.nextId = id, !.pending = @ \cup {[id |-> id, by |-> a]}]
      /\ task' = [t EXCEPT ![a] = [pc |-> "waiting", serial |-> sent + 1, from |-> None]]
      /\ toQemu' = Append(toQemu, [id |-> id, cmd |-> cmd, serial |-> sent + 1])
      /\ sent' = sent + 1

(* execute() as callers see it: a closed socket rejects at once.            *)
Execute(a, cmd) ==
  \/ conn.open /\ Issue(conn, task, a, cmd)
  \/ /\ ~conn.open
     /\ task' = Rejected(task, {a})
     /\ UNCHANGED <<conn, toQemu, sent>>

(* dispatch() of the replies among frames F: the entry with the id of the   *)
(* reply is settled by it; a reply whose entry is gone is dropped.          *)
Replies(F) == {f \in F : f.kind \in {"return", "error"}}
Settling(c, F) == {e \in c.pending : \E f \in Replies(F) : f.id = e.id}
ReplyTo(F, e) == CHOOSE f \in Replies(F) : f.id = e.id
AfterReplies(c, F) == [c EXCEPT !.pending = @ \ Settling(c, F),
                                !.greeted = @ \/ \E f \in F : f.kind = "greeting"]
TasksAfter(c, t, F) ==
  [a \in Activities |->
     IF \E e \in Settling(c, F) : e.by = a
     THEN LET f == ReplyTo(F, CHOOSE e \in Settling(c, F) : e.by = a)
          IN  [t[a] EXCEPT !.pc = IF f.kind = "return" THEN "answered" ELSE "failed",
                           !.from = f.serial]
     ELSE t[a]]

(* One chunk: onData, and the handshake's continuation after it.            *)
Deliver(n) ==
  /\ conn.open /\ n \in DOMAIN toClient
  /\ LET bytes == Buffered(conn.tail, SubSeq(toClient, 1, n))
         F     == GoodFrames(bytes)
         bad   == BadLines(bytes) # {}
         t     == TasksAfter(conn, task, F)
         c     == [AfterReplies(conn, F) EXCEPT !.poisoned = bad,
                     !.tail = IF bad THEN <<>> ELSE Rest(bytes)]
         begin == c.greeted /\ ~conn.greeted
         caps  == t["caps"].pc
     IN  \/ bad /\ Teardown(c, t) /\ UNCHANGED sent
         \/ /\ ~bad /\ begin
            /\ Issue(c, t, "caps", "caps")
            /\ toClient' = SubSeq(toClient, n + 1, Len(toClient))
            /\ UNCHANGED start
         \/ /\ ~bad /\ ~begin /\ ~c.settled /\ caps = "answered"
            /\ conn' = [c EXCEPT !.settled = TRUE]
            /\ start' = [start EXCEPT !.pc = "up"]
            /\ task' = t /\ toClient' = SubSeq(toClient, n + 1, Len(toClient))
            /\ UNCHANGED <<toQemu, sent>>
         \/ ~bad /\ ~begin /\ ~c.settled /\ caps = "failed" /\ Teardown(c, t) /\ UNCHANGED sent
         \/ /\ ~bad /\ ~begin /\ (c.settled \/ caps \notin {"answered", "failed"})
            /\ conn' = c /\ task' = t
            /\ toClient' = SubSeq(toClient, n + 1, Len(toClient))
            /\ UNCHANGED <<start, toQemu, sent>>
  /\ UNCHANGED <<proc, signals, exitSeen, sock, ladder, noise>>

(* The socket closes: QEMU is gone.  What was on the wire may still arrive  *)
(* first, or be lost with an error event.                                   *)
SocketCloses ==
  /\ conn.open /\ proc = "dead" /\ Teardown(conn, task)
  /\ UNCHANGED <<proc, signals, exitSeen, sock, ladder, sent, noise>>

HandshakeTimeout ==
  /\ conn.open /\ ~conn.settled /\ Teardown(conn, task)
  /\ UNCHANGED <<proc, signals, exitSeen, sock, ladder, sent, noise>>

(* The timer of a command: its entry goes, a later reply finds none.  A     *)
(* timeout of qmp_capabilities also ends the handshake.                     *)
CommandTimeout(e) ==
  /\ e \in conn.pending
  /\ LET c == [conn EXCEPT !.pending = @ \ {e}]
         t == Rejected(task, {e.by})
     IN  \/ e.by = "caps" /\ Teardown(c, t)
         \/ /\ e.by # "caps" /\ conn' = c /\ task' = t
            /\ UNCHANGED <<start, toQemu, toClient>>
  /\ UNCHANGED <<proc, signals, exitSeen, sock, ladder, sent, noise>>

-----------------------------------------------------------------------------
(* startQemu().                                                             *)

(* The child is spawned, or has no pid.                                     *)
Spawn ==
  /\ start.pc = "spawn"
  /\ \/ proc' = "alive" /\ start' = [start EXCEPT !.pc = "poll"]
     \/ proc' = "none" /\ start' = [start EXCEPT !.pc = "rejected"]
  /\ UNCHANGED <<signals, exitSeen, sock, conn, toQemu, toClient, task, ladder, sent, noise>>

(* The poll for the socket file: found; a dead child noticed; the budget    *)
(* spent.                                                                   *)
PollSocket ==
  /\ start.pc = "poll"
  /\ \/ sock # "none" /\ start' = [start EXCEPT !.pc = "connect"]
     \/ sock = "none" /\ exitSeen /\ start' = [start EXCEPT !.pc = "rejected"]
     \/ sock = "none" /\ ~exitSeen /\ start' = [start EXCEPT !.pc = "abandon"]
  /\ UNCHANGED <<proc, signals, exitSeen, sock, conn, toQemu, toClient, task, ladder, sent, noise>>

(* connectQmpWithRetry(): the kernel accepts for a listener, even a hanging *)
(* one; nobody listens on a stale file.                                     *)
Listens == sock = "listening" /\ proc \in {"alive", "wedged", "stuck"}
Connect ==
  /\ start.pc = "connect"
  /\ IF Listens
     THEN /\ conn' = FreshConn /\ task' = [task EXCEPT !["caps"] = IdleTask]
          /\ start' = [pc |-> "handshake", attempt |-> start.attempt + 1]
     ELSE start' = ConnectFailed(start.attempt + 1) /\ UNCHANGED <<conn, task>>
  /\ UNCHANGED <<proc, signals, exitSeen, sock, toQemu, toClient, ladder, sent, noise>>

RetryDelay ==
  /\ start.pc = "retry" /\ start' = [start EXCEPT !.pc = "connect"]
  /\ UNCHANGED <<proc, signals, exitSeen, sock, conn, toQemu, toClient, task, ladder, sent, noise>>

(* abandonQemu(): SIGTERM, a bounded wait, SIGKILL, a bounded wait.  Broken *)
(* variant: the wait after SIGTERM is the last.                             *)
AfterTermWaitGivesUp == "rejected"
AfterTermWait == "killChild"

Signal(sig) == signals' = IF Gone THEN signals ELSE signals \cup {sig}

AbandonQemu ==
  /\ \/ start.pc = "abandon" /\ Signal("TERM") /\ start' = [start EXCEPT !.pc = "termWait"]
     \/ /\ start.pc = "termWait" /\ UNCHANGED signals
        /\ start' = [start EXCEPT !.pc = IF exitSeen THEN "rejected" ELSE AfterTermWait]
     \/ start.pc = "killChild" /\ Signal("KILL") /\ start' = [start EXCEPT !.pc = "killWait"]
     \/ start.pc = "killWait" /\ UNCHANGED signals /\ start' = [start EXCEPT !.pc = "rejected"]
  /\ UNCHANGED <<proc, exitSeen, sock, conn, toQemu, toClient, task, ladder, sent, noise>>

-----------------------------------------------------------------------------
(* The users of the handle.                                                 *)

(* discoverSshPort() and sendText(): one command after the other.           *)
Ask(u) ==
  /\ HandleUp /\ task[u].pc # "waiting" /\ sent < MaxCommands
  /\ Execute(u, "query")
  /\ UNCHANGED <<proc, signals, exitSeen, sock, start, toClient, ladder, noise>>

(* powerdownOrLadder() and stop(): system_powerdown, a bounded wait, then   *)
(* stopQemu(): quit, SIGTERM and SIGKILL, a bounded wait after each.        *)
LadderGoto(s, pc) == ladder' = [ladder EXCEPT ![s] = pc]
Settled(s) == task[s].pc # "waiting"
Waits == {"powerWait", "quitWait", "termWait", "killWait"}

StopBegins(s) ==
  /\ HandleUp /\ ladder[s] = "idle"
  /\ IF exitSeen
     THEN LadderGoto(s, "gone") /\ UNCHANGED <<conn, task, toQemu, sent>>
     ELSE LadderGoto(s, "power") /\ Execute(s, "powerdown")
  /\ UNCHANGED <<proc, signals, exitSeen, sock, start, toClient, noise>>

CommandSettles(s) ==
  /\ ladder[s] \in {"power", "quit"} /\ Settled(s)
  /\ LadderGoto(s, IF ladder[s] = "power" THEN "powerWait" ELSE "quitWait")
  /\ UNCHANGED <<proc, signals, exitSeen, sock, start, conn, toQemu, toClient, task, sent, noise>>

(* A wait sees the exit.                                                    *)
SeesExit(s) == exitSeen
WaitEnds(s) ==
  /\ ladder[s] \in Waits /\ SeesExit(s) /\ LadderGoto(s, "gone")
  /\ UNCHANGED <<proc, signals, exitSeen, sock, start, conn, toQemu, toClient, task, sent, noise>>

(* A wait expires, and the next rung begins.                                *)
WaitExpires(s) ==
  /\ ~exitSeen
  /\ \/ ladder[s] = "powerWait" /\ LadderGoto(s, "quit") /\ Execute(s, "quit") /\ UNCHANGED signals
     \/ /\ ladder[s] = "quitWait" /\ LadderGoto(s, "termWait") /\ Signal("TERM")
        /\ UNCHANGED <<conn, task, toQemu, sent>>
     \/ /\ ladder[s] = "termWait" /\ LadderGoto(s, "killWait") /\ Signal("KILL")
        /\ UNCHANGED <<conn, task, toQemu, sent>>
     \/ /\ ladder[s] = "killWait" /\ LadderGoto(s, "threw")
        /\ UNCHANGED <<signals, conn, task, toQemu, sent>>
  /\ UNCHANGED <<proc, exitSeen, sock, start, toClient, noise>>

-----------------------------------------------------------------------------
(* QEMU and the kernel (external).                                          *)

QemuBinds ==
  /\ proc = "alive" /\ sock # "listening" /\ sock' = "listening"
  /\ UNCHANGED <<proc, signals, exitSeen, start, conn, toQemu, toClient, task, ladder, sent, noise>>

(* QEMU greets, then answers in the order of the commands.  quit ends it.   *)
Greeted == conn.greeted \/ toClient # <<>> \/ conn.tail # <<>>
QemuGreets ==
  /\ proc = "alive" /\ conn.open /\ ~Greeted
  /\ toClient' = Line(Frame("greeting", 0, 0))
  /\ UNCHANGED <<proc, signals, exitSeen, sock, start, conn, toQemu, task, ladder, sent, noise>>

QemuAnswers ==
  /\ proc = "alive" /\ toQemu # <<>>
  /\ LET c == Head(toQemu)
     IN  \/ \E kind \in {"return", "error"} :
              toClient' = toClient \o Line(Frame(kind, c.id, c.serial))
         \/ c.cmd = "quit" /\ UNCHANGED toClient
  /\ proc' \in IF Head(toQemu).cmd = "quit" THEN {"alive", "dead"} ELSE {"alive"}
  /\ toQemu' = Tail(toQemu)
  /\ UNCHANGED <<signals, exitSeen, sock, start, conn, task, ladder, sent, noise>>

(* A line that settles nothing (an event, a reply without an id), or one    *)
(* that is not JSON.                                                        *)
QemuSpeaks ==
  /\ proc = "alive" /\ conn.open /\ conn.greeted /\ noise < MaxNoise
  /\ \E kind \in Noise : toClient' = toClient \o Line(Frame(kind, 0, 0))
  /\ noise' = noise + 1
  /\ UNCHANGED <<proc, signals, exitSeen, sock, start, conn, toQemu, task, ladder, sent>>

(* The guest powers off, QEMU crashes or is killed from outside; or its     *)
(* main loop hangs.                                                         *)
QemuFails ==
  /\ \/ proc \in {"alive", "wedged"} /\ proc' = "dead"
     \/ proc = "alive" /\ proc' = "wedged"
     \/ "stuck" \in Faults /\ proc \in {"alive", "wedged"} /\ proc' = "stuck"
  /\ UNCHANGED <<signals, exitSeen, sock, start, conn, toQemu, toClient, task, ladder, sent, noise>>

SignalKills ==
  /\ \/ "KILL" \in signals /\ proc \in {"alive", "wedged"}
     \/ "TERM" \in signals /\ proc = "alive"
  /\ proc' = "dead" /\ signals' = {}
  /\ UNCHANGED <<exitSeen, sock, start, conn, toQemu, toClient, task, ladder, sent, noise>>

ExitEvent ==
  /\ proc = "dead" /\ ~exitSeen /\ exitSeen' = TRUE
  /\ UNCHANGED <<proc, signals, sock, start, conn, toQemu, toClient, task, ladder, sent, noise>>

-----------------------------------------------------------------------------
Finished ==
  /\ start.pc \in {"up", "rejected"} /\ Waiting(conn) = {}
  /\ proc \in {"none", "dead", "stuck"}
  /\ UNCHANGED vars

ClientStep == \/ \E n \in DOMAIN toClient : Deliver(n)
              \/ SocketCloses \/ HandshakeTimeout
              \/ \E e \in conn.pending : CommandTimeout(e)
StartStep == Spawn \/ PollSocket \/ Connect \/ RetryDelay \/ AbandonQemu
StopStep(s) == StopBegins(s) \/ CommandSettles(s) \/ WaitEnds(s) \/ WaitExpires(s)
QemuStep == QemuBinds \/ QemuGreets \/ QemuAnswers \/ QemuSpeaks \/ QemuFails

Next ==
  \/ ClientStep \/ StartStep
  \/ \E u \in Users : Ask(u)
  \/ \E s \in Stoppers : StopStep(s)
  \/ QemuStep \/ SignalKills \/ ExitEvent
  \/ Finished

Spec == Init /\ [][Next]_vars

(* Timers fire, a signal that kills kills, Node reports an exit, and a      *)
(* socket of a dead peer closes.  QEMU itself owes nothing.                 *)
Fairness ==
  /\ WF_vars(StartStep) /\ WF_vars(HandshakeTimeout) /\ WF_vars(SocketCloses)
  /\ \A a \in Activities : WF_vars(\E e \in conn.pending : e.by = a /\ CommandTimeout(e))
  /\ \A s \in Stoppers : WF_vars(CommandSettles(s) \/ WaitEnds(s) \/ WaitExpires(s))
  /\ WF_vars(SignalKills) /\ WF_vars(ExitEvent)
FairSpec == Spec /\ Fairness

-----------------------------------------------------------------------------
(* Properties.                                                              *)

StartPcs == {"spawn", "poll", "connect", "handshake", "retry", "abandon", "termWait",
             "killChild", "killWait", "rejected", "up"}
LadderPcs == Waits \cup {"idle", "power", "quit", "gone", "threw"}

FrameKinds == {"greeting", "return", "error", "stray", "garbage"}
Byte == [frame : [kind : FrameKinds, id : Nat, serial : Nat], part : {1, 2}]
Command == [id : Nat, cmd : {"caps", "query", "powerdown", "quit"}, serial : Nat]
Connection == [open : BOOLEAN, settled : BOOLEAN, greeted : BOOLEAN, nextId : Nat,
               pending : SUBSET [id : Nat, by : Activities],
               tail : Seq(Byte), poisoned : BOOLEAN]
Task == [pc : {"idle", "waiting", "answered", "failed"}, serial : Nat, from : Nat \cup {None}]

TypeOK ==
  /\ proc \in {"none", "alive", "wedged", "stuck", "dead"}
  /\ signals \subseteq {"TERM", "KILL"} /\ exitSeen \in BOOLEAN
  /\ sock \in {"none", "stale", "listening"}
  /\ start \in [pc : StartPcs, attempt : 0 .. ConnectAttempts]
  /\ conn \in Connection
  /\ toQemu \in Seq(Command) /\ toClient \in Seq(Byte)
  /\ task \in [Activities -> Task]
  /\ ladder \in [Stoppers -> LadderPcs]
  /\ sent \in Nat /\ noise \in Nat

(* A command is settled by the answer QEMU gave to it, whatever timed out   *)
(* before and answered late, and whoever else is waiting; and an activity   *)
(* waits exactly as long as the client has an entry for its command.        *)
ReplySettlesItsCommand ==
  \A a \in Activities :
    /\ task[a].from \in {None, task[a].serial}
    /\ task[a].pc = "waiting" <=> a \in Waiting(conn)

(* However the stream is cut into chunks, the decoder gives up on it only   *)
(* when QEMU wrote a line that is not JSON.                                 *)
PoisonedOnlyByGarbage == conn.poisoned => noise > 0 /\ "garbage" \in Noise

(* The stream is read as QEMU wrote it: frames whole whatever the chunks,   *)
(* answers given to the command they answer.                                *)
StreamIsReadRight == ReplySettlesItsCommand /\ PoisonedOnlyByGarbage

(* Nobody leaves a child behind unknowingly.  When the start has failed, the *)
(* child is gone or has been sent SIGKILL; when a stop sequence settles      *)
(* without throwing, its process is dead, also beside another sequence on    *)
(* the same handle, and whatever replies were lost.                          *)
NoChildLeftBehind ==
  /\ start.pc = "rejected" => Gone \/ proc = "stuck" \/ "KILL" \in signals
  /\ \A s \in Stoppers : ladder[s] = "gone" => proc = "dead"

(* Nothing waits for ever on a QEMU that hangs or dies: the start settles,  *)
(* every command settles, every stop sequence settles.                      *)
EverythingSettles ==
  /\ <>(start.pc \in {"up", "rejected"})
  /\ \A a \in Activities : task[a].pc = "waiting" ~> task[a].pc # "waiting"
  /\ \A s \in Stoppers : ladder[s] # "idle" ~> ladder[s] \in {"gone", "threw"}
=============================================================================
