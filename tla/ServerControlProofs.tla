-------------------------- MODULE ServerControlProofs --------------------------
(***************************************************************************)
(* Theorems about ServerControl.tla and the servers of ServerProcess.tla   *)
(* beside it, for any number of servers, any channels, and with or without *)
(* a sandbox.                                                              *)
(***************************************************************************)
EXTENDS ServerControl, FiniteSetTheorems, TLAPS

(* What is raised outside a server is in its hands: a tunnel that main()    *)
(* holds no handle of is an ngrok agent, which dies with the process, and   *)
(* a shutdown that has come to the guest has no handle left.  One that      *)
(* called close() in the quiet has no QEMU but the one it powers down.      *)
Boot == {"unborn", "config", "channel"}
TunnelInHand(p) ==
  /\ p.at \in {"unborn", "config"} => p.tunnel = "none" /\ ~p.handle
  /\ p.at = "channel" => p.tunnel = "racing" /\ p.channel # "none" /\ ~p.handle
  /\ p.at \notin Boot \cup {"exited"} /\ p.tunnel # "none" /\ ~p.handle => p.channel = "ngrok"
  /\ p.at \in {"unguest", "powering"} => ~p.handle
  /\ p.at # "exited" /\ p.tunnel = "late" => p.channel = "ngrok"
  /\ p.at = "powering" /\ p.quiet => ~p.boot /\ ~p.again /\ ~p.loose
  /\ p.at = "exited" /\ ~p.cut => p.tunnel = "none" /\ (p.quiet /\ ~p.wedged => ~QemuLeft(p))
TunnelsInHand == \A s \in Servers : TunnelInHand(srv[s])

(* The one child the dashboard has not told to end, if there is one.        *)
Charge == IF Waiting THEN {keeper.fresh}
          ELSE IF keeper.at = "up" /\ keeper.owns /\ ~keeper.stopped THEN {keeper.launched}
          ELSE {}

(* The operations of the dashboard: a restart and a quit begin when it is   *)
(* up, and a child was stopped before another takes its place.              *)
OperationsInOrder ==
  /\ keeper.at # "up" => keeper.renew = "idle"
  /\ keeper.renew # "idle" => keeper.stopped /\ keeper.owns
  /\ keeper.at \in {"off", "probing", "waiting"} => keeper.quit = "no"
  /\ keeper.at = "waiting" => keeper.owns
  /\ keeper.quit = "grace" /\ keeper.at = "up" => keeper.stopped /\ keeper.renew = "idle"
  /\ keeper.crashed => keeper.at = "gone"

ChargeIsGuarded ==
  /\ ~keeper.crashed => Unended \subseteq Charge \cap guard
  /\ \A s, t \in Unended : s = t

ControlInv == ControlTypeOK /\ TunnelsInHand /\ OperationsInOrder /\ ChargeIsGuarded

-----------------------------------------------------------------------------
(* The servers.                                                             *)

LEMMA ExitedProcess ==
  ASSUME NEW p \in Process, NEW cut \in BOOLEAN
  PROVE  /\ Exited(p, cut) \in Process
         /\ Exited(p, cut).at = "exited" /\ Exited(p, cut).cut = cut
         /\ Exited(p, cut).by = "nobody" /\ Exited(p, cut).quiet = p.quiet
         /\ Exited(p, cut).wedged = p.wedged
         /\ Exited(p, cut).loose = p.loose /\ Exited(p, cut).held = p.held
         /\ Exited(p, cut).tunnel = IF p.channel = "ngrok" THEN "none" ELSE p.tunnel
<1>1. /\ p.loose \in BOOLEAN /\ p.held \in BOOLEAN /\ p.wedged \in BOOLEAN /\ p.quiet \in BOOLEAN
      /\ p.channel \in {"none"} \cup Tunnels
      /\ p.tunnel \in {"none", "racing", "late", "up"}
  BY DEF Process
<1>2. ASSUME NEW ch \in {"none"} \cup Tunnels, NEW tn \in {"none", "racing", "late", "up"},
             Exited(p, cut) = [at |-> "exited", channel |-> ch, by |-> "nobody", signal |-> "none",
                               cut |-> cut, tunnel |-> tn, handle |-> FALSE, boot |-> FALSE,
                               again |-> FALSE, loose |-> p.loose, held |-> p.held,
                               wedged |-> p.wedged, quiet |-> p.quiet]
      PROVE  /\ Exited(p, cut) \in Process
             /\ Exited(p, cut).at = "exited" /\ Exited(p, cut).cut = cut
             /\ Exited(p, cut).by = "nobody" /\ Exited(p, cut).quiet = p.quiet
             /\ Exited(p, cut).wedged = p.wedged
             /\ Exited(p, cut).loose = p.loose /\ Exited(p, cut).held = p.held
             /\ Exited(p, cut).tunnel = tn
  <2>1. Exited(p, cut) \in Process
    BY ONLY <1>1, <1>2, cut \in BOOLEAN DEF Process, Phases
  <2>2. QED
    BY ONLY <1>2, <2>1
<1>3. CASE p.channel = "ngrok"
  <2>1. Exited(p, cut) = [at |-> "exited", channel |-> "none", by |-> "nobody", signal |-> "none",
                          cut |-> cut, tunnel |-> "none", handle |-> FALSE, boot |-> FALSE,
                          again |-> FALSE, loose |-> p.loose, held |-> p.held,
                          wedged |-> p.wedged, quiet |-> p.quiet]
    BY <1>3 DEF Exited, Unborn
  <2>2. QED
    BY <1>2, <1>3, <2>1
<1>4. CASE p.channel # "ngrok"
  <2>1. Exited(p, cut) = [at |-> "exited", channel |-> p.channel, by |-> "nobody", signal |-> "none",
                          cut |-> cut, tunnel |-> p.tunnel, handle |-> FALSE, boot |-> FALSE,
                          again |-> FALSE, loose |-> p.loose, held |-> p.held,
                          wedged |-> p.wedged, quiet |-> p.quiet]
    BY <1>4 DEF Exited, Unborn
  <2>2. QED
    BY <1>1, <1>2, <1>4, <2>1
<1>5. QED
  BY <1>3, <1>4

(* What a process does next keeps its type, and its tunnel in hand; no step *)
(* of a server starts one for the dashboard or takes back a signal.         *)
Steps(p, q) ==
  /\ q \in Process /\ TunnelInHand(q)
  /\ q.by # "dashboard" \/ (p.by = "dashboard" /\ p.at \notin {"unborn", "exited"})
       \/ q.at \in {"unborn", "exited"}
  /\ q.signal = "none" => p.signal = "none" \/ q.at \in {"unborn", "exited"}

LEMMA ServerStepSteps ==
  ASSUME srv \in [Servers -> Process], TunnelsInHand, NEW s \in Servers, ServerStep(s)
  PROVE  /\ srv' = [srv EXCEPT ![s] = srv'[s]]
         /\ Steps(srv[s], srv'[s])
<1> DEFINE p == srv[s]
<1>1. p \in Process /\ TunnelInHand(p) /\ Tunnels \subseteq {"cloudflare", "ngrok"}
  BY DEF TunnelsInHand, Tunnels
<1>2. ASSUME NEW q \in Process, srv' = [srv EXCEPT ![s] = q], Steps(p, q)
      PROVE  /\ srv' = [srv EXCEPT ![s] = srv'[s]]
             /\ Steps(srv[s], srv'[s])
  BY <1>2
<1>3. ASSUME NEW cut \in BOOLEAN, NEW r \in Process, srv' = [srv EXCEPT ![s] = Exited(r, cut)],
             \/ cut
             \/ /\ r.quiet /\ ~r.wedged => ~QemuLeft(r)
                /\ r.channel # "ngrok" => r.tunnel = "none"
      PROVE  /\ srv' = [srv EXCEPT ![s] = srv'[s]]
             /\ Steps(srv[s], srv'[s])
  <2> DEFINE q == Exited(r, cut)
  <2>1. q \in Process /\ q.at = "exited" /\ q.cut = cut /\ q.quiet = r.quiet
        /\ q.wedged = r.wedged /\ q.loose = r.loose /\ q.held = r.held
        /\ q.tunnel = IF r.channel = "ngrok" THEN "none" ELSE r.tunnel
    BY <1>3, ExitedProcess
  <2> HIDE DEF q
  <2>2. TunnelInHand(q)
    BY <1>3, <2>1 DEF TunnelInHand, Boot, QemuLeft
  <2>3. Steps(p, q)
    BY <2>1, <2>2 DEF Steps
  <2>4. srv' = [srv EXCEPT ![s] = q]
    BY <1>3 DEF q
  <2>5. QED
    BY <1>2, <2>1, <2>3, <2>4
<1>4. CASE Configure(s)
  <2>1. CASE srv' = [srv EXCEPT ![s] = Exited(@, TRUE)]
    BY <1>1, <1>3, <2>1
  <2>2. CASE srv' = [srv EXCEPT ![s].at = "listen"]
    <3>1. [p EXCEPT !.at = "listen"] \in Process /\ Steps(p, [p EXCEPT !.at = "listen"])
      BY <1>1, <1>4 DEF Configure, Steps, Process, Phases, TunnelInHand, Boot
    <3>2. QED
      BY <1>2, <2>2, <3>1
  <2>3. ASSUME NEW c \in Tunnels,
               srv' = [srv EXCEPT ![s].at = "channel", ![s].tunnel = "racing", ![s].channel = c]
        PROVE  /\ srv' = [srv EXCEPT ![s] = srv'[s]]
               /\ Steps(srv[s], srv'[s])
    <3> DEFINE q == [p EXCEPT !.at = "channel", !.tunnel = "racing", !.channel = c]
    <3>1. q \in Process /\ Steps(p, q)
      BY <1>1, <1>4 DEF Configure, Steps, Process, Phases, TunnelInHand, Boot
    <3>2. srv' = [srv EXCEPT ![s] = q]
      BY <2>3
    <3>3. QED
      BY <1>2, <3>1, <3>2
  <2>4. QED
    BY <1>4, <2>1, <2>2, <2>3 DEF Configure, Resolvable, Tunnels
<1>5. CASE SkipChannel(s) \/ TunnelRaised(s) \/ TunnelTimeout(s)
  <2> DEFINE q1 == [p EXCEPT !.at = "listen", !.tunnel = "none", !.channel = "none"]
             q2 == [p EXCEPT !.at = "listen", !.tunnel = "up", !.handle = TRUE]
             q3 == [p EXCEPT !.at = "listen", !.tunnel = "late"]
  <2>1. p.at = "channel" /\ p.tunnel = "racing"
    BY <1>5 DEF SkipChannel, TunnelRaised, TunnelTimeout
  <2>2. p.channel # "none" /\ p.channel \in {"none"} \cup Tunnels /\ ~p.handle
    BY ONLY <1>1, <2>1 DEF TunnelInHand, Process
  <2>3. q1 \in Process /\ q2 \in Process /\ q3 \in Process
    BY ONLY <1>1 DEF Process, Phases
  <2>6. /\ q1.at = "listen" /\ q1.tunnel = "none" /\ q1.handle = p.handle
        /\ q2.at = "listen" /\ q2.tunnel = "up" /\ q2.handle
        /\ q3.at = "listen" /\ q3.tunnel = "late" /\ q3.channel = p.channel
        /\ \A q \in {q1, q2, q3} : q.by = p.by /\ q.signal = p.signal
    BY ONLY <1>1 DEF Process
  <2>4. \/ srv' = [srv EXCEPT ![s] = q1]
        \/ srv' = [srv EXCEPT ![s] = q2]
        \/ srv' = [srv EXCEPT ![s] = q3] /\ p.channel # "cloudflare"
    BY <1>5 DEF SkipChannel, TunnelRaised, TunnelTimeout, NoTunnel
  <2> HIDE DEF q1, q2, q3
  <2>7. TunnelInHand(q1) /\ TunnelInHand(q2) /\ (p.channel # "cloudflare" => TunnelInHand(q3))
    BY ONLY <1>1, <2>2, <2>6 DEF TunnelInHand, Boot
  <2>8. Steps(p, q1) /\ Steps(p, q2) /\ (p.channel # "cloudflare" => Steps(p, q3))
    BY ONLY <2>1, <2>3, <2>6, <2>7 DEF Steps
  <2>5. QED
    BY <1>2, <2>3, <2>4, <2>8
<1>6. CASE LateTunnel(s) \/ TunnelDies(s)
  <2> DEFINE q1 == [p EXCEPT !.tunnel = "none", !.channel = "none"]
             q2 == [p EXCEPT !.tunnel = "up"]
  <2>1. p.tunnel \in {"late", "up"} /\ p.at # "channel"
    BY <1>1, <1>6 DEF LateTunnel, TunnelDies, TunnelInHand
  <2>2. q1 \in Process /\ q2 \in Process
    BY ONLY <1>1 DEF Process
  <2>6. /\ q1.tunnel = "none" /\ q2.tunnel = "up"
        /\ \A q \in {q1, q2} :
             /\ q.at = p.at /\ q.handle = p.handle /\ q.by = p.by /\ q.signal = p.signal
             /\ q.cut = p.cut /\ q.quiet = p.quiet /\ q.boot = p.boot /\ q.again = p.again
             /\ q.loose = p.loose /\ q.held = p.held /\ q.wedged = p.wedged
        /\ q2.channel = p.channel
    BY ONLY <1>1 DEF Process
  <2>4. \/ srv' = [srv EXCEPT ![s] = q1]
        \/ srv' = [srv EXCEPT ![s] = q2] /\ p.tunnel = "late" /\ p.at # "exited"
    BY <1>6 DEF LateTunnel, TunnelDies, NoTunnel, Alive
  <2> HIDE DEF q1, q2
  <2>7. TunnelInHand(q1)
    BY ONLY <1>1, <2>1, <2>6 DEF TunnelInHand, Boot, QemuLeft
  <2>8. p.at # "exited" /\ p.tunnel = "late" => TunnelInHand(q2)
    BY ONLY <1>1, <2>1, <2>6 DEF TunnelInHand, Boot, QemuLeft
  <2>3. Steps(p, q1) /\ (p.at # "exited" /\ p.tunnel = "late" => Steps(p, q2))
    BY ONLY <2>2, <2>6, <2>7, <2>8 DEF Steps
  <2>5. QED
    BY <1>2, <2>2, <2>3, <2>4
<1>7. CASE ListenFails(s) \/ DieOfSignal(s) \/ ServerCrashes(s)
  BY <1>1, <1>3, <1>7 DEF ListenFails, DieOfSignal, ServerCrashes
<1>8. CASE Listen(s) \/ HandleSignals(s) \/ Shutdown(s)
  <2>1. PICK ph \in {"socket", "serving", "closing"}, b \in BOOLEAN :
          srv' = [srv EXCEPT ![s] = [p EXCEPT !.at = ph, !.boot = b]]
    <3>1. CASE Listen(s)
      <4>1. (s \in Sandboxed) \in BOOLEAN
        OBVIOUS
      <4>2. srv' = [srv EXCEPT ![s] = [p EXCEPT !.at = "socket", !.boot = s \in Sandboxed]]
        BY <3>1 DEF Listen
      <4>3. QED
        BY <4>1, <4>2
    <3>2. CASE HandleSignals(s) \/ Shutdown(s)
      <4>1. p = [p EXCEPT !.boot = p.boot] /\ p.boot \in BOOLEAN
        BY <1>1 DEF Process
      <4>2. PICK ph \in {"socket", "serving", "closing"} : srv' = [srv EXCEPT ![s] = [p EXCEPT !.at = ph]]
        BY <3>2 DEF HandleSignals, Shutdown
      <4>3. [p EXCEPT !.at = ph] = [p EXCEPT !.at = ph, !.boot = p.boot]
        BY <1>1 DEF Process
      <4>4. QED
        BY <4>1, <4>2, <4>3
    <3>3. QED
      BY <1>8, <3>1, <3>2
  <2>2. p.at \in {"listen", "socket", "serving"}
    BY <1>8 DEF Listen, HandleSignals, Shutdown
  <2> DEFINE q == [p EXCEPT !.at = ph, !.boot = b]
  <2>3. q \in Process /\ Steps(p, q)
    <3>1. /\ q \in Process /\ q.at = ph /\ q.channel = p.channel /\ q.tunnel = p.tunnel
          /\ q.handle = p.handle /\ q.by = p.by /\ q.signal = p.signal
      BY ONLY <1>1, ph \in {"socket", "serving", "closing"}, b \in BOOLEAN DEF Process, Phases
    <3> HIDE DEF q
    <3>2. TunnelInHand(q)
      BY ONLY <1>1, <2>2, <3>1 DEF TunnelInHand, Boot
    <3>3. QED
      BY ONLY <2>2, <3>1, <3>2 DEF Steps
  <2>4. QED
    BY <1>2, <2>1, <2>3
<1>9. CASE \/ BootSpawns(s) \/ StartQemuReturns(s) \/ HeldQemuEnds(s) \/ QemuWedges(s)
           \/ OrdersBoot(s) \/ BootsAgain(s)
  <2>1. ASSUME NEW q \in Process, srv' = [srv EXCEPT ![s] = q], p.at \notin {"unborn", "exited"},
               q.at = p.at, q.channel = p.channel, q.tunnel = p.tunnel, q.handle = p.handle,
               q.by = p.by, q.signal = p.signal, q.quiet = p.quiet,
               p.at = "powering" /\ p.quiet => ~q.boot /\ ~q.again /\ ~q.loose
        PROVE  /\ srv' = [srv EXCEPT ![s] = srv'[s]]
               /\ Steps(srv[s], srv'[s])
    <3>1. TunnelInHand(q)
      BY ONLY <1>1, <2>1 DEF TunnelInHand, Boot
    <3>2. Steps(p, q)
      BY ONLY <2>1, <3>1 DEF Steps
    <3>3. QED
      BY <1>2, <2>1, <3>2
  <2>2. p.at = "powering" /\ p.quiet => ~p.boot /\ ~p.again /\ ~p.loose
    BY ONLY <1>1 DEF TunnelInHand
  <2>3. CASE BootSpawns(s)
    <3> DEFINE q1 == [p EXCEPT !.boot = FALSE]
               q2 == [p EXCEPT !.boot = FALSE, !.loose = TRUE]
    <3>1. /\ p.boot /\ p.at \notin {"unborn", "exited"}
          /\ srv' = [srv EXCEPT ![s] = q1] \/ srv' = [srv EXCEPT ![s] = q2]
      BY <2>3 DEF BootSpawns, Alive
    <3>2. q1 \in Process /\ q2 \in Process
      BY ONLY <1>1 DEF Process
    <3>3. \A q \in {q1, q2} :
            /\ q.at = p.at /\ q.channel = p.channel /\ q.tunnel = p.tunnel /\ q.handle = p.handle
            /\ q.by = p.by /\ q.signal = p.signal /\ q.quiet = p.quiet
      BY ONLY <1>1 DEF Process
    <3> HIDE DEF q1, q2
    <3>4. QED
      BY <2>1, <2>2, <3>1, <3>2, <3>3
  <2>4. CASE StartQemuReturns(s)
    <3> DEFINE q1 == [p EXCEPT !.loose = FALSE, !.held = TRUE]
               q2 == [p EXCEPT !.loose = FALSE]
    <3>1. /\ p.loose /\ p.at \notin {"unborn", "exited"}
          /\ srv' = [srv EXCEPT ![s] = q1] \/ srv' = [srv EXCEPT ![s] = q2]
      BY <2>4 DEF StartQemuReturns, Alive
    <3>2. q1 \in Process /\ q2 \in Process
      BY ONLY <1>1 DEF Process
    <3>3. \A q \in {q1, q2} :
            /\ q.at = p.at /\ q.channel = p.channel /\ q.tunnel = p.tunnel /\ q.handle = p.handle
            /\ q.by = p.by /\ q.signal = p.signal /\ q.quiet = p.quiet
      BY ONLY <1>1 DEF Process
    <3> HIDE DEF q1, q2
    <3>4. QED
      BY <2>1, <2>2, <3>1, <3>2, <3>3
  <2>5. CASE HeldQemuEnds(s) \/ QemuWedges(s)
    <3> DEFINE q1 == [p EXCEPT !.held = FALSE]
               q2 == [p EXCEPT !.wedged = TRUE]
    <3>1. /\ p.at \notin {"unborn", "exited"}
          /\ srv' = [srv EXCEPT ![s] = q1] \/ srv' = [srv EXCEPT ![s] = q2]
      BY <2>5 DEF HeldQemuEnds, QemuWedges, Alive
    <3>2. q1 \in Process /\ q2 \in Process
      BY ONLY <1>1 DEF Process
    <3>3. \A q \in {q1, q2} :
            /\ q.at = p.at /\ q.channel = p.channel /\ q.tunnel = p.tunnel /\ q.handle = p.handle
            /\ q.by = p.by /\ q.signal = p.signal /\ q.quiet = p.quiet
            /\ q.boot = p.boot /\ q.again = p.again /\ q.loose = p.loose
      BY ONLY <1>1 DEF Process
    <3> HIDE DEF q1, q2
    <3>4. QED
      BY <2>1, <2>2, <3>1, <3>2, <3>3
  <2>6. CASE OrdersBoot(s) \/ BootsAgain(s)
    <3> DEFINE q1 == [p EXCEPT !.again = TRUE]
               q2 == [p EXCEPT !.again = FALSE, !.boot = TRUE]
    <3>1. /\ p.at \notin {"unborn", "exited"} /\ (p.at # "powering" \/ p.again)
          /\ srv' = [srv EXCEPT ![s] = q1] \/ srv' = [srv EXCEPT ![s] = q2]
      BY <2>6 DEF OrdersBoot, BootsAgain, Alive
    <3>2. q1 \in Process /\ q2 \in Process
      BY ONLY <1>1 DEF Process
    <3>3. \A q \in {q1, q2} :
            /\ q.at = p.at /\ q.channel = p.channel /\ q.tunnel = p.tunnel /\ q.handle = p.handle
            /\ q.by = p.by /\ q.signal = p.signal /\ q.quiet = p.quiet
      BY ONLY <1>1 DEF Process
    <3> HIDE DEF q1, q2
    <3>4. QED
      BY <2>1, <2>2, <3>1, <3>2, <3>3
  <2>7. QED
    BY <1>9, <2>3, <2>4, <2>5, <2>6
<1>10. CASE CloseFastify(s)
  <2> DEFINE q == [p EXCEPT !.at = IF p.handle THEN "unchannel" ELSE "unguest"]
  <2>1. srv' = [srv EXCEPT ![s] = q] /\ p.at = "closing"
    BY <1>10 DEF CloseFastify
  <2>2. q \in Process /\ Steps(p, q)
    BY <1>1, <2>1 DEF Steps, Process, Phases, TunnelInHand, Boot
  <2>3. QED
    BY <1>2, <2>1, <2>2
<1>11. CASE StopChannel(s)
  <2> DEFINE q == [p EXCEPT !.at = "unguest", !.handle = FALSE, !.tunnel = "none", !.channel = "none"]
  <2>1. srv' = [srv EXCEPT ![s] = q] /\ p.at = "unchannel"
    BY <1>11 DEF StopChannel, NoTunnel
  <2>2. q \in Process
    BY ONLY <1>1 DEF Process, Phases
  <2>3. /\ q.at = "unguest" /\ ~q.handle /\ q.tunnel = "none"
        /\ q.by = p.by /\ q.signal = p.signal
    BY ONLY <1>1 DEF Process
  <2>4. TunnelInHand(q)
    <3> HIDE DEF q
    <3>1. QED
      BY ONLY <2>3 DEF TunnelInHand
  <2>5. Steps(p, q)
    <3> HIDE DEF q
    <3>1. QED
      BY ONLY <2>1, <2>2, <2>3, <2>4 DEF Steps
  <2>6. QED
    BY <1>2, <2>1, <2>2, <2>5
<1>12. CASE CloseBackend(s)
  <2> DEFINE quiet == ~p.boot /\ ~p.again /\ ~p.loose
             r == [p EXCEPT !.quiet = quiet]
             q == [r EXCEPT !.at = "powering"]
  <2>1. /\ r.at = "unguest"
        /\ srv' = [srv EXCEPT ![s] = IF r.held THEN q ELSE Exited(r, FALSE)]
    BY ONLY <1>12 DEF CloseBackend
  <2>2. r \in Process /\ q \in Process
    BY ONLY <1>1 DEF Process, Phases
  <2>3. /\ r.quiet = quiet /\ r.channel = p.channel /\ r.tunnel = p.tunnel /\ r.loose = p.loose
        /\ q.at = "powering" /\ q.quiet = quiet /\ q.boot = p.boot /\ q.again = p.again
        /\ q.loose = p.loose /\ q.handle = p.handle /\ q.tunnel = p.tunnel
        /\ q.channel = p.channel /\ q.by = p.by /\ q.signal = p.signal /\ p.at = "unguest"
    BY ONLY <1>1, <2>1 DEF Process
  <2>4. ~p.handle /\ (p.tunnel # "none" => p.channel = "ngrok")
    BY ONLY <1>1, <2>3 DEF TunnelInHand, Boot
  <2> HIDE DEF r, q
  <2>5. CASE r.held /\ srv' = [srv EXCEPT ![s] = q]
    <3>1. TunnelInHand(q)
      BY ONLY <2>3, <2>4 DEF TunnelInHand, Boot
    <3>2. Steps(p, q)
      BY ONLY <2>2, <2>3, <3>1 DEF Steps
    <3>3. QED
      BY <1>2, <2>2, <2>5, <3>2
  <2>6. CASE ~r.held /\ srv' = [srv EXCEPT ![s] = Exited(r, FALSE)]
    <3>1. /\ r.quiet /\ ~r.wedged => ~QemuLeft(r)
          /\ r.channel # "ngrok" => r.tunnel = "none"
      BY ONLY <2>3, <2>4, <2>6 DEF QemuLeft
    <3>2. QED
      BY <1>3, <2>2, <2>6, <3>1
  <2>7. QED
    BY <2>1, <2>5, <2>6
<1>15. CASE StopReturns(s)
  <2>1. p.at = "powering" /\ (p.wedged \/ ~p.held) /\ srv' = [srv EXCEPT ![s] = Exited(p, FALSE)]
    BY <1>15 DEF StopReturns
  <2>2. /\ p.quiet /\ ~p.wedged => ~QemuLeft(p)
        /\ p.channel # "ngrok" => p.tunnel = "none"
    BY ONLY <1>1, <2>1 DEF TunnelInHand, Boot, QemuLeft
  <2>3. QED
    BY <1>1, <1>3, <2>1, <2>2
<1>13. CASE OperatorStarts(s)
  <2> DEFINE q == [p EXCEPT !.at = "config", !.by = "operator"]
  <2>1. srv' = [srv EXCEPT ![s] = q] /\ p.at = "unborn"
    BY <1>13 DEF OperatorStarts, Spawned, Next_
  <2>2. q \in Process /\ Steps(p, q)
    BY <1>1, <2>1 DEF Steps, Process, Phases, TunnelInHand, Boot
  <2>3. QED
    BY <1>2, <2>1, <2>2
<1>14. CASE OperatorStops(s)
  <2> DEFINE q == [p EXCEPT !.signal = "term"]
  <2>1. srv' = [srv EXCEPT ![s] = q] /\ p.by = "operator"
    BY <1>14 DEF OperatorStops
  <2>2. q \in Process
    BY ONLY <1>1 DEF Process
  <2>3. /\ q.signal = "term" /\ q.by = p.by /\ q.at = p.at /\ q.channel = p.channel
        /\ q.tunnel = p.tunnel /\ q.handle = p.handle /\ q.cut = p.cut /\ q.quiet = p.quiet
        /\ q.boot = p.boot /\ q.again = p.again /\ q.loose = p.loose /\ q.held = p.held
        /\ q.wedged = p.wedged
    BY ONLY <1>1 DEF Process
  <2> HIDE DEF q
  <2>4. TunnelInHand(q)
    BY ONLY <1>1, <2>3 DEF TunnelInHand, Boot, QemuLeft
  <2>5. Steps(p, q)
    BY ONLY <2>1, <2>2, <2>3, <2>4 DEF Steps
  <2>6. QED
    BY <1>2, <2>1, <2>2, <2>5
<1>16. QED
  BY <1>4, <1>5, <1>6, <1>7, <1>8, <1>9, <1>10, <1>11, <1>12, <1>13, <1>14, <1>15 DEF ServerStep

LEMMA ServersKeep ==
  ASSUME srv \in [Servers -> Process], TunnelsInHand, NEW s \in Servers, ServerStep(s)
  PROVE  srv' \in [Servers -> Process] /\ TunnelsInHand' /\ Unended' \subseteq Unended
<1>1. srv' = [srv EXCEPT ![s] = srv'[s]] /\ Steps(srv[s], srv'[s])
  BY ServerStepSteps
<1>2. /\ srv' \in [Servers -> Process]
      /\ \A t \in Servers : t # s => srv'[t] = srv[t]
  BY <1>1 DEF Steps
<1>3. TunnelsInHand'
  BY <1>1, <1>2 DEF TunnelsInHand, Steps
<1>4. ASSUME NEW t \in Unended' PROVE t \in Unended
  <2>1. t \in Servers /\ srv'[t].by = "dashboard" /\ srv'[t].at \notin {"unborn", "exited"}
        /\ srv'[t].signal = "none"
    BY <1>4 DEF Unended, Alive
  <2>2. srv[t].by = "dashboard" /\ srv[t].at \notin {"unborn", "exited"} /\ srv[t].signal = "none"
    BY <1>1, <1>2, <2>1 DEF Steps
  <2>3. QED
    BY <2>1, <2>2 DEF Unended, Alive
<1>5. QED
  BY <1>2, <1>3, <1>4

(* A signal ends what it is sent to, sooner or later, and starts nothing.   *)
LEMMA SignalsKeep ==
  ASSUME srv \in [Servers -> Process], TunnelsInHand, NEW kids, NEW how \in {"term", "kill"},
         srv' = Signalled(srv, kids, how)
  PROVE  srv' \in [Servers -> Process] /\ TunnelsInHand' /\ Unended' \subseteq Unended \ kids
<1>1. ASSUME NEW t \in Servers
      PROVE  /\ srv'[t] \in Process /\ TunnelInHand(srv'[t])
             /\ srv'[t].by = srv[t].by /\ srv'[t].at = srv[t].at
             /\ srv'[t].signal = "none" => srv[t].signal = "none"
             /\ t \in kids /\ srv[t].at # "exited" => srv'[t].signal # "none"
  <2>1. srv[t] \in Process /\ TunnelInHand(srv[t])
    BY DEF TunnelsInHand
  <2>2. CASE srv'[t] = srv[t] /\ ~(t \in kids /\ srv[t].at # "exited" /\ srv[t].signal # "kill")
    BY <2>1, <2>2
  <2>3. CASE srv'[t] = [srv[t] EXCEPT !.signal = how]
    <3> DEFINE p == srv[t]
               q == srv'[t]
    <3>1. q \in Process
      BY ONLY <2>1, <2>3, how \in {"term", "kill"} DEF Process
    <3>2. /\ q.signal = how /\ q.by = p.by /\ q.at = p.at /\ q.channel = p.channel
          /\ q.tunnel = p.tunnel /\ q.handle = p.handle /\ q.cut = p.cut /\ q.quiet = p.quiet
          /\ q.boot = p.boot /\ q.again = p.again /\ q.loose = p.loose /\ q.held = p.held
          /\ q.wedged = p.wedged
      BY ONLY <2>1, <2>3 DEF Process
    <3>3. TunnelInHand(q)
      BY ONLY <2>1, <3>2 DEF TunnelInHand, Boot, QemuLeft
    <3>4. QED
      BY ONLY <3>1, <3>2, <3>3, how \in {"term", "kill"}
  <2>4. QED
    BY <2>2, <2>3 DEF Signalled
<1>2. srv' \in [Servers -> Process]
  BY <1>1 DEF Signalled
<1>3. TunnelsInHand'
  BY <1>1 DEF TunnelsInHand
<1>4. Unended' \subseteq Unended \ kids
  BY <1>1 DEF Unended, Alive
<1>5. QED
  BY <1>2, <1>3, <1>4

(* A child is launched for the dashboard.                                   *)
LEMMA LaunchKeeps ==
  ASSUME srv \in [Servers -> Process], TunnelsInHand, NEW s \in Servers, Next_(s),
         srv' = Spawned(s, "dashboard")
  PROVE  srv' \in [Servers -> Process] /\ TunnelsInHand' /\ Unended' \subseteq Unended \cup {s}
<1> DEFINE q == [srv[s] EXCEPT !.at = "config", !.by = "dashboard"]
<1>1. srv[s] \in Process /\ TunnelInHand(srv[s]) /\ srv[s].at = "unborn"
  BY DEF TunnelsInHand, Next_
<1>2. q \in Process /\ TunnelInHand(q)
  BY <1>1 DEF Process, Phases, TunnelInHand, Boot
<1>3. srv' = [srv EXCEPT ![s] = q]
  BY DEF Spawned
<1> HIDE DEF q
<1>4. srv' \in [Servers -> Process] /\ \A t \in Servers : t # s => srv'[t] = srv[t]
  BY <1>2, <1>3
<1>5. TunnelsInHand'
  BY <1>2, <1>3, <1>4 DEF TunnelsInHand
<1>6. Unended' \subseteq Unended \cup {s}
  BY <1>4 DEF Unended, Alive
<1>7. QED
  BY <1>4, <1>5, <1>6


-----------------------------------------------------------------------------
(* The dashboard.                                                           *)

LEMMA SuperviseKeeps ==
  ASSUME ControlInv, Supervise
  PROVE  ControlInv'
<1>1. /\ srv \in [Servers -> Process] /\ keeper \in Keeper /\ guard \subseteq Servers
      /\ TunnelsInHand /\ OperationsInOrder /\ ChargeIsGuarded
  BY DEF ControlInv, ControlTypeOK
<1>2. ASSUME srv' \in [Servers -> Process], keeper' \in Keeper, guard' \subseteq Servers,
             TunnelsInHand', OperationsInOrder', Unended' \subseteq Unended,
             ~keeper'.crashed => Unended' \subseteq (Charge \cap guard)'
      PROVE  ControlInv'
  <2>1. ChargeIsGuarded'
    BY <1>1, <1>2 DEF ChargeIsGuarded
  <2>2. QED
    BY <1>2, <2>1 DEF ControlInv, ControlTypeOK
<1>3. UNCHANGED srv => TunnelsInHand' /\ Unended' = Unended
  BY <1>1 DEF TunnelsInHand, Unended, Alive
<1>4. keeper.at # "gone" => ~keeper.crashed
  BY <1>1 DEF OperationsInOrder, Keeper
<1>5. CASE Open \/ Adopt \/ EntryMissing \/ Ready
  <2>1. UNCHANGED srv /\ guard' = guard /\ keeper.at # "gone" /\ keeper'.crashed = keeper.crashed
    BY <1>1, <1>5 DEF Open, Adopt, EntryMissing, Ready, Waiting, OperationsInOrder, Keeper
  <2>2. keeper' \in Keeper /\ OperationsInOrder'
    <3>1. CASE Open \/ Adopt
      BY <1>1, <3>1 DEF Open, Adopt, OperationsInOrder, Keeper
    <3>2. CASE EntryMissing
      BY <1>1, <3>2 DEF EntryMissing, OperationsInOrder, Keeper
    <3>3. CASE Ready
      BY <1>1, <3>3 DEF Ready, Waiting, OperationsInOrder, Keeper
    <3>4. QED
      BY <1>5, <3>1, <3>2, <3>3
  <2>3. Charge \subseteq Charge'
    <3>1. CASE Open \/ Adopt
      BY <1>1, <3>1 DEF Open, Adopt, OperationsInOrder, Keeper, Charge, Waiting
    <3>2. CASE EntryMissing
      BY <1>1, <3>2 DEF EntryMissing, OperationsInOrder, Keeper, Charge, Waiting
    <3>3. CASE Ready
      <4>1. Charge = {keeper.fresh}
        BY <3>3 DEF Ready, Charge
      <4>2. keeper.owns
        BY <1>1, <3>3 DEF Ready, Waiting, OperationsInOrder
      <4>3. Charge' = {keeper.fresh}
        BY <1>1, <3>3, <4>2 DEF Ready, Charge, Waiting, Keeper
      <4>4. QED
        BY <4>1, <4>3
    <3>4. QED
      BY <1>5, <3>1, <3>2, <3>3
  <2>4. Unended' \subseteq (Charge \cap guard)'
    BY <1>1, <1>3, <1>4, <2>1, <2>3 DEF ChargeIsGuarded
  <2>5. QED
    BY <1>1, <1>2, <1>3, <2>1, <2>2, <2>4
<1>6. CASE NotReady
  <2>1. /\ srv' = Signalled(srv, {keeper.fresh}, "kill") /\ keeper.at # "gone"
        /\ guard' = guard \ {keeper.fresh} /\ Charge = {keeper.fresh}
    BY <1>1, <1>6 DEF NotReady, Charge, Waiting, OperationsInOrder
  <2>2. /\ srv' \in [Servers -> Process] /\ TunnelsInHand'
        /\ Unended' \subseteq Unended \ {keeper.fresh}
    BY <1>1, <2>1, SignalsKeep
  <2>3. keeper' \in Keeper /\ OperationsInOrder'
    BY <1>1, <1>6 DEF NotReady, Waiting, OperationsInOrder, Keeper
  <2>4. Unended' = {}
    BY <1>1, <1>4, <2>1, <2>2 DEF ChargeIsGuarded
  <2>5. QED
    BY <1>1, <1>2, <2>1, <2>2, <2>3, <2>4
<1>7. CASE Restart \/ Quit
  <2>1. keeper.at = "up" /\ keeper.quit = "no"
    BY <1>7 DEF Restart, Quit
  <2>2. keeper' \in Keeper /\ OperationsInOrder'
    <3>1. CASE Restart
      <4>1. keeper' \in {[keeper EXCEPT !.renew = "respawn"], [keeper EXCEPT !.renew = "grace", !.stopped = TRUE]}
        BY ONLY <3>1 DEF Restart
      <4>2. keeper' \in Keeper
        BY ONLY <1>1, <4>1 DEF Keeper
      <4>3. QED
        BY <1>1, <2>1, <3>1, <4>2 DEF Restart, StopsNothing, OperationsInOrder, Keeper
    <3>2. CASE Quit
      <4>1. keeper' \in {[keeper EXCEPT !.quit = "exiting"], [keeper EXCEPT !.quit = "grace", !.stopped = TRUE]}
        BY ONLY <3>2 DEF Quit
      <4>2. keeper' \in Keeper
        BY ONLY <1>1, <4>1 DEF Keeper
      <4>3. QED
        BY <1>1, <2>1, <3>2, <4>2 DEF Quit, StopsNothing, OperationsInOrder, Keeper
    <3>3. QED
      BY <1>7, <3>1, <3>2
  <2>3. CASE StopsNothing /\ UNCHANGED <<srv, guard>>
    <3>1. Charge' = Charge
      BY <1>1, <1>7, <2>3 DEF Restart, Quit, Charge, Waiting, StopsNothing, Keeper
    <3>2. QED
      BY <1>1, <1>2, <1>3, <1>4, <2>1, <2>2, <2>3, <3>1 DEF ChargeIsGuarded
  <2>4. CASE /\ ~StopsNothing
             /\ srv' = Signalled(srv, {keeper.launched}, "term")
             /\ guard' = guard \ {keeper.launched}
    <3>1. /\ srv' \in [Servers -> Process] /\ TunnelsInHand'
          /\ Unended' \subseteq Unended \ {keeper.launched}
      BY <1>1, <2>4, SignalsKeep
    <3>2. Charge = {keeper.launched}
      BY <1>1, <2>1, <2>4 DEF StopsNothing, Charge, Waiting, OperationsInOrder
    <3>3. Unended' = {}
      BY <1>1, <1>4, <2>1, <3>1, <3>2 DEF ChargeIsGuarded
    <3>4. QED
      BY <1>1, <1>2, <2>2, <2>4, <3>1, <3>3
  <2>5. QED
    BY <1>7, <2>3, <2>4 DEF Restart, Quit
<1>8. CASE RestartGraceEnds \/ QuitGraceEnds
  <2>1. /\ srv' = srv \/ srv' = Signalled(srv, {keeper.launched}, "kill")
        /\ guard' = guard
    BY <1>8 DEF RestartGraceEnds, QuitGraceEnds
  <2>2. srv' \in [Servers -> Process] /\ TunnelsInHand' /\ Unended' \subseteq Unended
    <3>1. CASE srv' = srv
      BY <1>1, <1>3, <3>1
    <3>2. CASE srv' = Signalled(srv, {keeper.launched}, "kill")
      BY <1>1, <3>2, SignalsKeep
    <3>3. QED
      BY <2>1, <3>1, <3>2
  <2>3. keeper' \in Keeper /\ OperationsInOrder' /\ Charge' = Charge
    <3>1. CASE RestartGraceEnds
      BY <1>1, <3>1 DEF RestartGraceEnds, OperationsInOrder, Keeper, Charge, Waiting
    <3>2. CASE QuitGraceEnds
      BY <1>1, <3>2 DEF QuitGraceEnds, OperationsInOrder, Keeper, Charge, Waiting
    <3>3. QED
      BY <1>8, <3>1, <3>2
  <2>4. keeper'.crashed = keeper.crashed
    BY <1>1, <1>8 DEF RestartGraceEnds, QuitGraceEnds, Keeper
  <2>5. QED
    BY <1>1, <1>2, <2>1, <2>2, <2>3, <2>4 DEF ChargeIsGuarded
<1>9. CASE ProcessExit
  <2>1. /\ srv' = Signalled(srv, guard, "kill") /\ guard' = {} /\ keeper.at = "up"
    BY <1>9 DEF ProcessExit
  <2>2. srv' \in [Servers -> Process] /\ TunnelsInHand' /\ Unended' \subseteq Unended \ guard
    BY <1>1, <2>1, SignalsKeep
  <2>3. keeper' \in Keeper /\ OperationsInOrder'
    BY <1>1, <1>9 DEF ProcessExit, OperationsInOrder, Keeper
  <2>4. Unended' = {}
    BY <1>1, <1>4, <2>1, <2>2 DEF ChargeIsGuarded
  <2>5. QED
    BY <1>1, <1>2, <2>1, <2>2, <2>3, <2>4
<1>10. CASE KeeperDies
  <2>1. UNCHANGED srv /\ guard' = {} /\ keeper'.crashed
    BY <1>1, <1>10 DEF KeeperDies, Keeper
  <2>2. keeper' \in Keeper /\ OperationsInOrder'
    BY <1>1, <1>10 DEF KeeperDies, OperationsInOrder, Keeper
  <2>3. QED
    BY <1>1, <1>2, <1>3, <2>1, <2>2
<1>11. ASSUME NEW s \in Servers, Launch(s) PROVE ControlInv'
  <2>1. /\ Next_(s) /\ srv' = Spawned(s, "dashboard") /\ guard' = guard \cup {s}
        /\ keeper.at # "gone" /\ Charge = {}
    BY <1>1, <1>11 DEF Launch, Charge, Waiting, OperationsInOrder
  <2>2. srv' \in [Servers -> Process] /\ TunnelsInHand' /\ Unended' \subseteq Unended \cup {s}
    BY <1>1, <2>1, LaunchKeeps
  <2>3. s \in 0 .. MaxServers
    BY ServerAssumption DEF Servers
  <2>4. keeper' \in Keeper /\ OperationsInOrder' /\ Charge' = {s}
    BY <1>1, <1>11, <2>3 DEF Launch, OperationsInOrder, Keeper, Charge, Waiting
  <2>5. Unended = {}
    BY <1>1, <1>4, <2>1 DEF ChargeIsGuarded
  <2>6. ChargeIsGuarded'
    BY <2>1, <2>2, <2>4, <2>5 DEF ChargeIsGuarded
  <2>7. guard' \subseteq Servers
    BY <1>1, <2>1
  <2>8. QED
    BY <2>2, <2>4, <2>6, <2>7 DEF ControlInv, ControlTypeOK
<1>12. QED
  BY <1>5, <1>6, <1>7, <1>8, <1>9, <1>10, <1>11 DEF Supervise

-----------------------------------------------------------------------------
(* The theorems.                                                            *)

LEMMA InitInv == ControlInit => ControlInv
<1>1. SUFFICES ASSUME ControlInit PROVE ControlInv
  OBVIOUS
<1>2. /\ \A s \in Servers : srv[s] = Unborn
      /\ srv = [s \in Servers |-> Unborn] /\ guard = {}
      /\ keeper = [at |-> "off", renew |-> "idle", quit |-> "no", owns |-> FALSE, launched |-> 0,
                   stopped |-> FALSE, fresh |-> 0, crashed |-> FALSE]
  BY <1>1 DEF ControlInit, ServersInit
<1>3. Unborn \in Process /\ TunnelInHand(Unborn)
  BY DEF Unborn, Process, Phases, TunnelInHand, Boot
<1>4. ControlTypeOK
  <2>1. 0 \in 0 .. MaxServers
    BY ServerAssumption
  <2>2. keeper \in Keeper
    BY <1>2, <2>1 DEF Keeper
  <2>3. QED
    BY <1>2, <1>3, <2>2 DEF ControlTypeOK
<1>5. TunnelsInHand
  BY <1>2, <1>3 DEF TunnelsInHand
<1>6. Unended = {}
  BY <1>2 DEF Unended, Unborn
<1>7. QED
  BY <1>2, <1>4, <1>5, <1>6 DEF ControlInv, OperationsInOrder, ChargeIsGuarded

LEMMA StepInv == ControlInv /\ [ControlNext]_controlVars => ControlInv'
<1>1. SUFFICES ASSUME ControlInv, [ControlNext]_controlVars PROVE ControlInv'
  OBVIOUS
<1>2. CASE Supervise
  BY <1>1, <1>2, SuperviseKeeps
<1>3. ASSUME NEW s \in Servers, ServerStep(s), UNCHANGED <<keeper, guard>>
      PROVE  ControlInv'
  <2>1. srv' \in [Servers -> Process] /\ TunnelsInHand' /\ Unended' \subseteq Unended
    BY <1>1, <1>3, ServersKeep DEF ControlInv, ControlTypeOK
  <2>2. ControlTypeOK' /\ OperationsInOrder'
    BY <1>1, <1>3, <2>1 DEF ControlInv, ControlTypeOK, OperationsInOrder
  <2>3. Charge' = Charge
    BY <1>3 DEF Charge, Waiting
  <2>4. ChargeIsGuarded'
    BY <1>1, <1>3, <2>1, <2>3 DEF ControlInv, ChargeIsGuarded
  <2>5. QED
    BY <2>1, <2>2, <2>4 DEF ControlInv
<1>4. CASE UNCHANGED controlVars
  BY <1>1, <1>4 DEF controlVars, ControlInv, ControlTypeOK, TunnelsInHand, OperationsInOrder,
                    ChargeIsGuarded, Charge, Waiting, Unended, Alive
<1>5. QED
  BY <1>1, <1>2, <1>3, <1>4 DEF ControlNext

LEMMA Invariance == ControlSpec => []ControlInv
  BY InitInv, StepInv, PTL DEF ControlSpec

(* The servers, the dashboard and its exit hooks keep their types.          *)
THEOREM ControlTypes == ControlSpec => []ControlTypeOK
<1>1. ControlInv => ControlTypeOK
  BY DEF ControlInv
<1>2. QED
  BY <1>1, Invariance, PTL

(* A shutdown that runs to its end leaves no tunnel, for any number of      *)
(* servers that compete, whatever raced at the boot; nor, when it called    *)
(* close() with no boot under way, a QEMU that a SIGKILL ends.  About       *)
(* shutdown(), startTunnel(), raise() and the stop() of the service.        *)
THEOREM ShutdownTakesAll == ControlSpec => []NothingOutlivesShutdown
<1>1. ControlInv => NothingOutlivesShutdown
  BY DEF ControlInv, TunnelsInHand, TunnelInHand, NothingOutlivesShutdown
<1>2. QED
  BY <1>1, Invariance, PTL

LEMMA AtMostOne ==
  ASSUME NEW S, \A x, y \in S : x = y
  PROVE  Cardinality(S) <= 1
<1>1. CASE S = {}
  <2>1. Cardinality(S) = 0
    BY <1>1, FS_EmptySet
  <2>2. QED
    BY <2>1
<1>2. CASE S # {}
  <2>1. PICK x : S = {x}
    BY <1>2
  <2>2. Cardinality(S) = 1
    BY <2>1, FS_Singleton
  <2>3. QED
    BY <2>2
<1>3. QED
  BY <1>1, <1>2

(* At most one child of the dashboard runs untold, and none once the        *)
(* dashboard has exited, for any number of restarts.  About launchServer(), *)
(* stop() and restart().                                                    *)
THEOREM ChildrenAreEnded == ControlSpec => []SpawnedServersAreEnded
<1>1. ASSUME ControlInv PROVE SpawnedServersAreEnded
  <2>1. \A s, t \in Unended : s = t
    BY <1>1 DEF ControlInv, ChargeIsGuarded
  <2>2. Cardinality(Unended) <= 1
    BY <2>1, AtMostOne
  <2>3. keeper.at = "gone" /\ ~keeper.crashed => Unended = {}
    BY <1>1 DEF ControlInv, ChargeIsGuarded, Charge, Waiting, OperationsInOrder
  <2>4. QED
    BY <2>2, <2>3 DEF SpawnedServersAreEnded
<1>2. QED
  BY <1>1, Invariance, PTL


=============================================================================
