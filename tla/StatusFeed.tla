------------------------------ MODULE StatusFeed ------------------------------
(***************************************************************************)
(* The feed of a running server: the request ring (mcp/telemetry.ts), the  *)
(* status socket that dumps it to every new connection and streams what    *)
(* follows (observability/status-socket.ts), and its clients: the          *)
(* dashboard, which reconnects for ever (tui/dashboard/socket-client.ts),  *)
(* `openhammer monitor` (cli/monitor.ts), `openhammer vm status` (cli.ts)  *)
(* and the dashboard's one-shot commands (tui/dashboard/vm-commands.ts).   *)
(*                                                                         *)
(* A line is on the wire from the moment it is written until its reader    *)
(* takes it; write() says FALSE, but still sends, once more than HighWater *)
(* lines are unread.  Events and vm states are numbered within one life of *)
(* the server.  JSON, chunking and the client statistics are left out.     *)
(***************************************************************************)
EXTENDS Naturals, Sequences

CONSTANTS Clients,    \* processes connected to the socket
          RingCap,    \* capacity of the request ring
          HighWater,  \* unread lines at which write() returns false
          MaxEvents,  \* bound: requests recorded in one life of the server
          MaxVmLines, \* bound: vm transitions in one life
          MaxLives    \* bound: servers, one after another

ASSUME FeedAssumption ==
  /\ RingCap \in Nat \ {0} /\ HighWater \in Nat \ {0}
  /\ MaxEvents \in Nat /\ MaxVmLines \in Nat /\ MaxLives \in Nat

Kinds == {"dashboard", "monitor", "status", "command"}

VARIABLES
  ring,    \* RequestRecorder: buf, head, len, and the number of events so far
  vmLine,  \* latestVmState of main.ts: 0 before the first transition
  socket,  \* "down", "up" or "crashed", and the lives so far
  kinds,   \* what each client is
  conn,    \* each client's connection, both ends
  reader   \* each client: what it has made of its connection

feedVars == <<ring, vmLine, socket, kinds, conn, reader>>

Line == {"event", "vm"} \X (0 .. MaxEvents + MaxVmLines) \cup {<<"channel", 0>>, <<"result", 0>>, <<"result", 1>>}

\* open: the server's end.  sub, data, heard: its subscription to the recorder,
\* its data listener and its close and error listeners.  first: the oldest event owed.
NoConn == [open |-> FALSE, sub |-> FALSE, data |-> FALSE, heard |-> FALSE, wire |-> <<>>, first |-> 1]
NoReader == [at |-> "idle", got |-> <<>>, vm |-> 0, sent |-> FALSE, result |-> "none"]

FreshRing == [buf |-> [i \in 0 .. RingCap - 1 |-> 0], head |-> 0, len |-> 0, total |-> 0]

FeedInit ==
  /\ ring = FreshRing /\ vmLine = 0
  /\ socket = [state |-> "down", lives |-> 0]
  /\ kinds \in [Clients -> Kinds]
  /\ conn = [c \in Clients |-> NoConn]
  /\ reader = [c \in Clients |-> NoReader]

-----------------------------------------------------------------------------
(* The request ring.                                                       *)

\* Broken variant: the ring is read from its first cell instead of its oldest.
RecentUnrotated == [i \in 1 .. ring.len |-> ring.buf[i - 1]]

\* recent(): oldest to newest.
Recent ==
  IF ring.len < RingCap THEN [i \in 1 .. ring.len |-> ring.buf[i - 1]]
  ELSE [i \in 1 .. RingCap |-> ring.buf[(ring.head + i - 1) % RingCap]]

Recorded(e) == [buf |-> [ring.buf EXCEPT ![ring.head] = e], head |-> (ring.head + 1) % RingCap,
                len |-> IF ring.len < RingCap THEN ring.len + 1 ELSE RingCap, total |-> e]

-----------------------------------------------------------------------------
(* The server's end of a connection.                                       *)

Backed(k) == Len(k.wire) > HighWater

Written(k, line) == [k EXCEPT !.wire = Append(@, line)]

\* cleanup: the subscription and the data listener go, the socket stays.
CleanedUp(k) == [k EXCEPT !.sub = FALSE, !.data = FALSE]

\* One line to one subscriber, which is dropped when its reader is behind.
Fanned(k, line) == LET w == Written(k, line) IN IF Backed(w) THEN CleanedUp(w) ELSE w

\* The snapshot a new connection gets: the channel, the latest vm state, the ring.
Dump == <<<<"channel", 0>>>>
        \o (IF vmLine = 0 THEN <<>> ELSE <<<<"vm", vmLine>>>>)
        \o [i \in 1 .. ring.len |-> <<"event", Recent[i]>>]

\* handleConnection: subscribe, then dump.  A dump the socket will not take at
\* once ends it before the close and error listeners are registered.
Accepted ==
  LET whole == [NoConn EXCEPT !.open = TRUE, !.sub = TRUE, !.data = TRUE, !.heard = TRUE,
                              !.wire = Dump, !.first = ring.total - ring.len + 1]
  IN IF ~Backed(whole) THEN whole
     ELSE [CleanedUp(whole) EXCEPT !.wire = SubSeq(Dump, 1, HighWater + 1), !.heard = FALSE]

\* destroy(): the client may still read part of what was on its way.
Destroyed(k, kept) == [NoConn EXCEPT !.wire = SubSeq(k.wire, 1, kept)]

\* startStatusSocket, with what the last life left at the path unlinked first.
OpenSocket ==
  /\ socket.state # "up" /\ socket.lives < MaxLives
  /\ \A c \in Clients : ~conn[c].open
  /\ socket' = [state |-> "up", lives |-> socket.lives + 1]
  /\ UNCHANGED <<ring, vmLine, kinds, conn, reader>>

\* A request has been answered: it is recorded and fanned out in one go.
Record ==
  /\ socket.state = "up" /\ ring.total < MaxEvents
  /\ ring' = Recorded(ring.total + 1)
  /\ conn' = [c \in Clients |->
                IF conn[c].sub THEN Fanned(conn[c], <<"event", ring.total + 1>>) ELSE conn[c]]
  /\ UNCHANGED <<vmLine, socket, kinds, reader>>

\* Broken variant: vm states go to the subscribers of the recorder only.
TransitionToSubscribers ==
  /\ socket.state = "up" /\ vmLine < MaxVmLines
  /\ vmLine' = vmLine + 1
  /\ conn' = [c \in Clients |->
                IF conn[c].sub THEN Fanned(conn[c], <<"vm", vmLine + 1>>) ELSE conn[c]]
  /\ UNCHANGED <<ring, socket, kinds, reader>>

\* A vm transition is held and goes to every socket; one that is behind is destroyed.
Transition ==
  /\ socket.state = "up" /\ vmLine < MaxVmLines
  /\ vmLine' = vmLine + 1
  /\ \E kept \in 0 .. HighWater + MaxVmLines + 2 :
       conn' = [c \in Clients |->
                  LET w == Written(conn[c], <<"vm", vmLine + 1>>)
                  IN IF ~conn[c].open THEN conn[c]
                     ELSE IF ~Backed(w) THEN w
                     ELSE Destroyed(w, IF kept < Len(w.wire) THEN kept ELSE Len(w.wire))]
  /\ UNCHANGED <<ring, socket, kinds, reader>>

\* runVmCommand: the executor accepts or refuses at once, the work comes later.
RunCommand(c) ==
  /\ conn[c].open /\ conn[c].data /\ reader[c].sent
  /\ \E ok \in 0 .. 1 : conn' = [conn EXCEPT ![c] = Fanned(@, <<"result", ok>>)]
  /\ reader' = [reader EXCEPT ![c].sent = FALSE]
  /\ UNCHANGED <<ring, vmLine, socket, kinds>>

\* The shutdown destroys every socket and removes the path; the ring and the
\* latest vm state end with the process.
CloseSocket ==
  /\ socket.state = "up"
  /\ socket' = [socket EXCEPT !.state = "down"]
  /\ ring' = FreshRing /\ vmLine' = 0
  /\ conn' = [c \in Clients |-> IF conn[c].open THEN Destroyed(conn[c], Len(conn[c].wire)) ELSE conn[c]]
  /\ UNCHANGED <<kinds, reader>>

-----------------------------------------------------------------------------
(* The clients.                                                            *)

\* connect(): refused while no server listens; the dashboard tries again.
Connect(c) ==
  /\ reader[c].at = "idle"
  /\ IF socket.state = "up"
     THEN /\ conn' = [conn EXCEPT ![c] = Accepted]
          /\ reader' = [reader EXCEPT ![c] = [NoReader EXCEPT !.at = "reading", !.sent = (kinds[c] = "command")]]
     ELSE /\ kinds[c] # "dashboard"
          /\ reader' = [reader EXCEPT ![c].at = "done", ![c].result = "refused"]
          /\ UNCHANGED conn
  /\ UNCHANGED <<ring, vmLine, socket, kinds>>

\* What a line does to its reader; a kind it does not know is skipped.
Took(c, line) ==
  CASE line[1] = "event" /\ kinds[c] \in {"dashboard", "monitor"} ->
         [reader[c] EXCEPT !.got = Append(@, line[2])]
    [] line[1] = "vm" /\ kinds[c] = "dashboard" -> [reader[c] EXCEPT !.vm = line[2]]
    [] line[1] = "vm" /\ kinds[c] = "status" ->
         [reader[c] EXCEPT !.vm = line[2], !.at = "done", !.result = "shown"]
    [] line[1] = "result" /\ kinds[c] = "command" ->
         [reader[c] EXCEPT !.at = "done", !.result = IF line[2] = 1 THEN "accepted" ELSE "refused"]
    [] OTHER -> reader[c]

\* A client that has its answer destroys its end.
Read(c) ==
  /\ reader[c].at = "reading" /\ conn[c].wire # <<>>
  /\ reader' = [reader EXCEPT ![c] = Took(c, Head(conn[c].wire))]
  /\ conn' = [conn EXCEPT ![c] = IF reader'[c].at = "done" THEN NoConn ELSE [conn[c] EXCEPT !.wire = Tail(@)]]
  /\ UNCHANGED <<ring, vmLine, socket, kinds>>

\* The server has closed: the dashboard retires the connection and starts over.
SeesClose(c) ==
  /\ reader[c].at = "reading" /\ ~conn[c].open /\ conn[c].wire = <<>>
  /\ reader' = [reader EXCEPT ![c] = IF kinds[c] = "dashboard" THEN NoReader
                                     ELSE [NoReader EXCEPT !.at = "done", !.result = "closed"]]
  /\ UNCHANGED <<ring, vmLine, socket, kinds, conn>>

\* The timeouts of status and command, Ctrl-C, a dashboard that quits: the client
\* destroys its end.  Lines it had not read are an error on the server's socket,
\* and one without an error listener takes the server down.
Leave(c) ==
  /\ reader[c].at = "reading"
  /\ reader' = [reader EXCEPT ![c] = [NoReader EXCEPT !.at = "done", !.result = "left"]]
  /\ \E crash \in {FALSE, conn[c].open /\ ~conn[c].heard /\ conn[c].wire # <<>>} :
       IF crash
       THEN /\ socket' = [socket EXCEPT !.state = "crashed"] /\ ring' = FreshRing /\ vmLine' = 0
            /\ conn' = [k \in Clients |-> IF k = c THEN NoConn
                                          ELSE IF conn[k].open THEN Destroyed(conn[k], Len(conn[k].wire))
                                          ELSE conn[k]]
       ELSE UNCHANGED <<ring, vmLine, socket>> /\ conn' = [conn EXCEPT ![c] = NoConn]
  /\ UNCHANGED kinds

FeedNext ==
  \/ OpenSocket \/ Record \/ Transition \/ CloseSocket
  \/ \E c \in Clients : RunCommand(c) \/ Connect(c) \/ Read(c) \/ SeesClose(c) \/ Leave(c)

FeedSpec == FeedInit /\ [][FeedNext]_feedVars

-----------------------------------------------------------------------------
FeedTypeOK ==
  /\ ring.head \in 0 .. RingCap - 1 /\ ring.len \in 0 .. RingCap /\ ring.total \in 0 .. MaxEvents
  /\ vmLine \in 0 .. MaxVmLines
  /\ socket.state \in {"down", "up", "crashed"} /\ kinds \in [Clients -> Kinds]
  /\ \A c \in Clients : \A i \in 1 .. Len(conn[c].wire) : conn[c].wire[i] \in Line

\* Where the lines of a kind are.
Due(lines, kind) == {i \in 1 .. Len(lines) : lines[i][1] = kind}

(* Whatever the interleaving of requests, connections and slow readers,    *)
(* the events a client of the feed has seen and has still to read are the  *)
(* ones from the oldest in the ring when it connected, in order, without a *)
(* gap or a repetition, and up to the last request for as long as it is    *)
(* subscribed.  About record, recent and handleConnection.                 *)
FeedIsComplete ==
  \A c \in Clients : kinds[c] \in {"dashboard", "monitor"} /\ conn[c].open =>
    LET wire == conn[c].wire
        due  == Due(wire, "event")
        got  == reader[c].got
        next == conn[c].first + Len(got)
    IN /\ \A i \in 1 .. Len(got) : got[i] = conn[c].first + i - 1
       /\ \A i, j \in due : i < j => wire[i][2] < wire[j][2]
       /\ \E last \in next - 1 .. ring.total :
            /\ {wire[i][2] : i \in due} = next .. last
            /\ conn[c].sub => last = ring.total

(* A client the server has not hung up on is shown the latest vm state, or *)
(* has it on the way, also when its event subscription was dropped and     *)
(* also when the transition fell between its connection and its dump.      *)
(* About emitVmState and the getter behind vmState().                      *)
ConnectedSeesLatestVm ==
  \A c \in Clients : kinds[c] = "dashboard" /\ conn[c].open =>
    LET due == Due(conn[c].wire, "vm")
    IN IF due = {} THEN reader[c].vm = vmLine
       ELSE \E i \in due : conn[c].wire[i][2] = vmLine /\ \A j \in due : j <= i
=============================================================================
