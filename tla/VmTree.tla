------------------------------- MODULE VmTree -------------------------------
(***************************************************************************)
(* The ~/.openhammer/vm tree, shared by operating-system processes that    *)
(* know of each other only through its files: the server (the boot sweep   *)
(* of vm/session.ts and the boot of vm/service.ts), one command of the     *)
(* `openhammer vm` pipeline (vm/provision), the QEMU processes both of     *)
(* them spawn, and the server and commands that come after a crash.        *)
(*                                                                         *)
(* A step is what one process does to the tree between two awaits.  QEMUs  *)
(* are numbered, and the number is the pid in a pidfile.  Directories and  *)
(* golden images carry timestamps in their names: they are numbered in the *)
(* order of their stamps and a number is used once.                        *)
(*                                                                         *)
(* Left out: ISO and cidata files, encryption, the contents of the guest,  *)
(* logs, the dry runs (they change nothing), and two commands at a time.   *)
(***************************************************************************)
EXTENDS Naturals, FiniteSets

CONSTANTS
  Policies,     \* session policies to consider: "pinned", "retain", "discard"
  Commands,     \* commands an operator may run on the tree
  MaxDir,       \* bound: session directories made with a fresh name
  MaxVm,        \* bound: QEMU processes spawned
  MaxGolden,    \* bound: golden images
  BuildReady,   \* the tree starts with a build that install has completed
  KeepGoldens,  \* DEFAULT_KEEP_GOLDENS: images a gc keeps unconditionally
  None

Policy  == {"pinned", "retain", "discard"}
Command == {"install", "provision", "snapshot", "reset", "gc"}

ASSUME TreeAssumption ==
  /\ Policies \subseteq Policy /\ Commands \subseteq Command
  /\ MaxDir \in Nat \ {0} /\ MaxVm \in Nat /\ MaxGolden \in Nat
  /\ BuildReady \in BOOLEAN
  /\ KeepGoldens \in Nat \ {0} /\ KeepGoldens <= MaxGolden
  /\ None \notin Nat \cup Command

Dir    == 0 .. MaxDir       \* 0 is the directory MCP_VM_SESSION_ID names
Vm     == 1 .. MaxVm
Golden == 1 .. MaxGolden

VARIABLES
  policy,  \* retain with a session id, retain without one, or discard
  dir,     \* sessions/<id>
  named,   \* the last directory name handed out
  golden,  \* images/golden-<id>
  stamped, \* the last image name handed out
  vm,      \* the QEMU processes
  server,  \* the server process and the session of its VmService
  tool     \* the command an operator is running

vars == <<policy, dir, named, golden, stamped, vm, server, tool>>

(* A session directory: its overlay is backed by the image "base", "pid"   *)
(* is the content of qemu.pid.  Two fields are not on disk: "passed" says  *)
(* that a provision pass over the directory's disk has completed, and      *)
(* "exposed" that no gc has to spare the overlay's image: the overlay was  *)
(* made from an image already beyond those a gc keeps, or qemu-img info    *)
(* failed on it, and no gc has read it since.                              *)
Files == SUBSET {"vars", "disk", "pin"}
SessionDir == [there: BOOLEAN, build: BOOLEAN, files: Files, passed: BOOLEAN,
               exposed: BOOLEAN, base: Golden \cup {None}, pid: Vm \cup {None}]
NoDir == [there |-> FALSE, build |-> FALSE, files |-> {}, passed |-> FALSE,
          exposed |-> FALSE, base |-> None, pid |-> None]
EmptyDir(build) == [NoDir EXCEPT !.there = TRUE, !.build = build]

(* The order in which snapshot puts the files of an image in place.        *)
(* Broken variant: the manifest before the pin.                            *)
PromoteSealFirst == <<"disk", "vars", "manifest", "pin">>
PromoteOrder     == <<"disk", "vars", "pin", "manifest">>
GoldenFiles  == {"disk", "vars", "pin", "manifest"}
GoldenDir == [there: BOOLEAN, files: SUBSET GoldenFiles, passed: BOOLEAN]
NoGolden  == [there |-> FALSE, files |-> {}, passed |-> FALSE]

(* "alien": the process is gone and its pid belongs to a foreign program.  *)
VmProcess == [st: {"none", "starting", "run", "dying", "gone", "alien"},
              dir: Dir]

ServerPc == {"idle", "sweep", "judge", "remove", "overlay", "vars", "spawn",
             "starting", "up", "stopping"}
(* "id" is mintedSessionId (0 under a pinned policy), "session" is         *)
(* sessionId; "todo", "at" and "pid" are the sweep's entries, directory    *)
(* and pidfile text; "orphans" is not in the code: the QEMUs a sweep finds *)
(* running that the server's predecessors left behind.                     *)
Server == [pc: ServerPc, todo: SUBSET Dir, at: Dir, pid: Vm \cup {None},
           id: Dir \cup {None}, session: Dir \cup {None},
           golden: Golden \cup {None}, vm: Vm \cup {None},
           orphans: SUBSET Vm]
NewServer == [pc |-> "idle", todo |-> {}, at |-> 0, pid |-> None, id |-> None,
              session |-> None, golden |-> None, vm |-> None, orphans |-> {}]

ToolPc == {"idle", "fetch", "disk", "spawn", "guest", "pinned", "passed", "killed",
           "measure", "promote", "judge", "remove", "plan"}
Tool == [cmd: Command \cup {None}, pc: ToolPc, dir: Dir, vm: Vm \cup {None},
         todo: SUBSET Dir, unread: SUBSET Dir, goldens: SUBSET Golden]
NoTool == [cmd |-> None, pc |-> "idle", dir |-> 0, vm |-> None, todo |-> {},
           unread |-> {}, goldens |-> {}]

----------------------------------------------------------------------------
(* What a process sees in the tree.                                        *)

Existing == {d \in Dir : dir[d].there}
Images   == {g \in Golden : golden[g].there}
Newest(S) == {x \in S : \A y \in S : y <= x}

(* The images that a gc does not keep for their number.                    *)
Beyond == {g \in Images : Cardinality({h \in Images : h > g}) >= KeepGoldens}

Live(i) == vm[i].st \in {"starting", "run"}

(* What /proc says of a pid.  A killed process that nobody has reaped yet  *)
(* has a name and an empty command line, so it may pass for a stranger.    *)
Looks(i) ==
  CASE Live(i) -> {"ours"}
    [] vm[i].st = "dying" -> {"ours", "foreign"}
    [] vm[i].st = "alien" -> {"foreign"}
    [] OTHER -> {"dead"}

(* scanActiveVmSessions finds nothing.                                     *)
ScanClear ==
  \A d \in Existing : dir[d].pid # None => Looks(dir[d].pid) # {"ours"}

(* A QEMU has spawned for directory d.                                     *)
NextVm == {i \in Vm : vm[i].st = "none" /\ \A j \in 1 .. (i - 1) : vm[j].st # "none"}
Spawned(i, d) == [vm EXCEPT ![i] = [st |-> "starting", dir |-> d]]
Killed(i) == [vm EXCEPT ![i].st = "dying"]
Gone(i) == [vm EXCEPT ![i] = [st |-> "gone", dir |-> 0]]

----------------------------------------------------------------------------
(* The tree when the first process starts: images already built, possibly  *)
(* an installed build that waits for provision and a session that was      *)
(* retained under the pinned id.                                           *)
Retained == [EmptyDir(FALSE) EXCEPT !.files = {"vars"}, !.base = 1]
Installed == [EmptyDir(TRUE) EXCEPT !.files = {"vars", "disk"}]

Init ==
  /\ policy \in Policies
  /\ named = IF BuildReady THEN 1 ELSE 0
  /\ \E pinned \in {NoDir, Retained} :
       dir = [d \in Dir |-> CASE d = 0 -> pinned
                              [] d = named /\ d # 0 -> Installed
                              [] OTHER -> NoDir]
  /\ golden = [g \in Golden |->
                 IF g <= KeepGoldens
                 THEN [there |-> TRUE, files |-> GoldenFiles, passed |-> TRUE]
                 ELSE NoGolden]
  /\ stamped = KeepGoldens
  /\ vm = [i \in Vm |-> [st |-> "none", dir |-> 0]]
  /\ server = NewServer
  /\ tool = NoTool

----------------------------------------------------------------------------
(* The server: one boot after another, each behind a sweep of the tree.    *)

(* A pinned session and the service's own retained one are never removed.  *)
(* Broken variant: only the latter.                                        *)
SweepPreserveRetained == {server.session} \ {None}

SweepPreserve ==
  CASE policy = "discard" -> {}
    [] policy = "pinned"  -> {0}
    [] OTHER -> {server.session} \ {None}

BeginBoot ==
  /\ server.pc = "idle"
  /\ server' = [server EXCEPT !.pc = "sweep", !.todo = Existing,
        !.orphans = {i \in Vm : vm[i].st = "run" /\ i # tool.vm
                                 /\ dir[vm[i].dir].pid = i}]
  /\ UNCHANGED <<policy, dir, named, golden, stamped, vm, tool>>

(* Broken variant: a preserved directory is passed over, with its QEMU.    *)
SweepReadUnlessPreserved(d) ==
  /\ server.pc = "sweep" /\ d \in server.todo
  /\ server' = IF d \in SweepPreserve \/ dir[d].pid = None
               THEN [server EXCEPT !.todo = @ \ {d}]
               ELSE [server EXCEPT !.todo = @ \ {d}, !.pc = "judge",
                                   !.at = d, !.pid = dir[d].pid]
  /\ UNCHANGED <<policy, dir, named, golden, stamped, vm, tool>>

(* A directory without a pidfile is left alone.                            *)
SweepRead(d) ==
  /\ server.pc = "sweep" /\ d \in server.todo
  /\ server' = IF dir[d].pid = None THEN [server EXCEPT !.todo = @ \ {d}]
               ELSE [server EXCEPT !.todo = @ \ {d}, !.pc = "judge",
                                   !.at = d, !.pid = dir[d].pid]
  /\ UNCHANGED <<policy, dir, named, golden, stamped, vm, tool>>

(* Broken variant: no directory at all.                                    *)
NextEntryCleared == [server EXCEPT !.pc = "sweep", !.at = None, !.pid = None]
NextEntry == [server EXCEPT !.pc = "sweep", !.at = 0, !.pid = None]

(* The pid is looked up and killed without an await between the two.       *)
SweepJudge ==
  /\ server.pc = "judge"
  /\ \E looks \in Looks(server.pid) :
       /\ vm' = IF looks = "ours" THEN Killed(server.pid) ELSE vm
       /\ server' = IF looks = "foreign" \/ server.at \in SweepPreserve
                    THEN NextEntry ELSE [server EXCEPT !.pc = "remove"]
  /\ UNCHANGED <<policy, dir, named, golden, stamped, tool>>

(* A directory that cannot be removed stays for the next boot.             *)
SweepRemove ==
  /\ server.pc = "remove"
  /\ dir' \in {dir, [dir EXCEPT ![server.at] = NoDir]}
  /\ server' = NextEntry
  /\ UNCHANGED <<policy, named, golden, stamped, vm, tool>>

(* Between two boots only the ids of a retained session matter.            *)
AfterBoot ==
  [NewServer EXCEPT !.id = IF policy = "retain" THEN server.id ELSE None,
                    !.session = IF policy = "retain" THEN server.session ELSE None]

SweepDone == server.pc = "sweep" /\ server.todo = {}

(* The newest image must be valid: there is no fallback to an older one.   *)
LocateGolden == {g \in Newest(Images) : "manifest" \in golden[g].files}

LocateFails ==
  /\ SweepDone
  /\ LocateGolden = {}
  /\ server' = AfterBoot
  /\ UNCHANGED <<policy, dir, named, golden, stamped, vm, tool>>

(* resolveSessionId: the ids that this boot may use, and whether fresh.    *)
SessionId ==
  CASE policy = "pinned" -> 0
    [] policy = "retain" /\ server.id # None -> server.id
    [] OTHER -> named + 1

Locates ==
  /\ SweepDone
  /\ LocateGolden # {}
  /\ SessionId \in Dir
  /\ named' = IF SessionId > named THEN SessionId ELSE named

(* A retained overlay is reused when its VARS are there too, else refused. *)
Reuse ==
  /\ Locates
  /\ dir[SessionId].base # None
  /\ server' = IF "vars" \in dir[SessionId].files
               THEN [server EXCEPT !.pc = "spawn", !.id = SessionId,
                                   !.session = SessionId, !.orphans = {}]
               ELSE AfterBoot
  /\ UNCHANGED <<policy, dir, golden, stamped, vm, tool>>

MakeSession ==
  /\ Locates
  /\ dir[SessionId].base = None
  /\ dir' = [dir EXCEPT ![SessionId].there = TRUE]
  /\ \E g \in LocateGolden :
       server' = [server EXCEPT !.pc = "overlay", !.id = SessionId,
                                !.golden = g, !.orphans = {}]
  /\ UNCHANGED <<policy, golden, stamped, vm, tool>>

CreateOverlay ==
  /\ server.pc = "overlay"
  /\ IF dir[server.id].there /\ "disk" \in golden[server.golden].files
     THEN /\ dir' = [dir EXCEPT ![server.id].base = server.golden,
                                 ![server.id].exposed = server.golden \in Beyond]
          /\ server' = [server EXCEPT !.pc = "vars"]
     ELSE dir' = dir /\ server' = AfterBoot
  /\ UNCHANGED <<policy, named, golden, stamped, vm, tool>>

CopyVars ==
  /\ server.pc = "vars"
  /\ IF dir[server.id].there /\ "vars" \in golden[server.golden].files
     THEN /\ dir' = [dir EXCEPT ![server.id].files = @ \cup {"vars"}]
          /\ server' = [server EXCEPT !.pc = "spawn", !.session = server.id,
                                      !.golden = None]
     ELSE dir' = dir /\ server' = AfterBoot
  /\ UNCHANGED <<policy, named, golden, stamped, vm, tool>>

(* The stderr file is opened first, so the directory must be there.        *)
Spawn ==
  /\ server.pc = "spawn"
  /\ IF dir[server.id].there
     THEN \E i \in NextVm :
            /\ vm' = Spawned(i, server.id)
            /\ server' = [server EXCEPT !.pc = "starting", !.vm = i]
     ELSE vm' = vm /\ server' = [server EXCEPT !.pc = "stopping"]
  /\ UNCHANGED <<policy, dir, named, golden, stamped, tool>>

BootUp ==
  /\ server.pc = "starting" /\ vm[server.vm].st = "run"
  /\ server' = [server EXCEPT !.pc = "up"]
  /\ UNCHANGED <<policy, dir, named, golden, stamped, vm, tool>>

(* stop(), a boot that failed after the spawn, or a death detected.        *)
BeginStop ==
  /\ server.pc \in {"starting", "up"}
  /\ server' = [server EXCEPT !.pc = "stopping"]
  /\ UNCHANGED <<policy, dir, named, golden, stamped, vm, tool>>

LadderKills ==
  /\ server.pc = "stopping" /\ server.vm # None /\ Live(server.vm)
  /\ vm' = Killed(server.vm)
  /\ UNCHANGED <<policy, dir, named, golden, stamped, server, tool>>

(* discard removes the directory once its QEMU is gone.                    *)
StopDone ==
  /\ server.pc = "stopping"
  /\ server.vm # None => vm[server.vm].st \in {"gone", "alien"}
  /\ dir' = IF policy = "discard" THEN [dir EXCEPT ![server.id] = NoDir] ELSE dir
  /\ server' = AfterBoot
  /\ UNCHANGED <<policy, named, golden, stamped, vm, tool>>

(* kill -9, an out-of-memory kill, process.exit: memory is lost, the tree  *)
(* and the QEMU stay, and a new server starts.                             *)
ServerCrash ==
  /\ server # NewServer
  /\ server' = NewServer
  /\ UNCHANGED <<policy, dir, named, golden, stamped, vm, tool>>

Serve ==
  \/ BeginBoot \/ (\E d \in Dir : SweepRead(d)) \/ SweepJudge \/ SweepRemove
  \/ LocateFails \/ Reuse \/ MakeSession \/ CreateOverlay \/ CopyVars
  \/ Spawn \/ BootUp \/ BeginStop \/ LadderKills \/ StopDone \/ ServerCrash

----------------------------------------------------------------------------
(* QEMU and the operating system, as the code in src/ meets them.          *)

(* QEMU locks its disk and its pidfile: a second one on the same directory *)
(* exits instead.                                                          *)
QemuReady(i) ==
  /\ vm[i].st = "starting" /\ dir[vm[i].dir].there
  /\ \A j \in Vm : vm[j].st \in {"run", "dying"} => vm[j].dir # vm[i].dir
  /\ vm' = [vm EXCEPT ![i].st = "run"]
  /\ dir' = [dir EXCEPT ![vm[i].dir].pid = i]
  /\ UNCHANGED <<policy, named, golden, stamped, server, tool>>

(* A clean exit unlinks the pidfile, a killed QEMU leaves it behind.       *)
QemuExits(i) ==
  /\ Live(i)
  /\ vm' = Gone(i)
  /\ dir' \in {dir, [dir EXCEPT ![vm[i].dir].pid = IF @ = i THEN None ELSE @]}
  /\ UNCHANGED <<policy, named, golden, stamped, server, tool>>

Reaped(i) ==
  /\ vm[i].st = "dying"
  /\ vm' = Gone(i)
  /\ UNCHANGED <<policy, dir, named, golden, stamped, server, tool>>

(* Only a pid that some pidfile still names makes a difference.            *)
PidRecycled(i) ==
  /\ vm[i].st = "gone" /\ \E d \in Dir : dir[d].pid = i
  /\ vm' = [vm EXCEPT ![i].st = "alien"]
  /\ UNCHANGED <<policy, dir, named, golden, stamped, server, tool>>

AlienExits(i) ==
  /\ vm[i].st = "alien"
  /\ vm' = [vm EXCEPT ![i].st = "gone"]
  /\ UNCHANGED <<policy, dir, named, golden, stamped, server, tool>>

Host == \E i \in Vm : QemuReady(i) \/ QemuExits(i) \/ Reaped(i)
                      \/ PidRecycled(i) \/ AlienExits(i)

----------------------------------------------------------------------------
(* The commands of `openhammer vm`, one at a time.                         *)

(* Every command begins with the single-flight scan.                       *)
Admitted(cmd) == tool.pc = "idle" /\ cmd \in Commands /\ ScanClear

(* findInstallSession and findProvisionedSession: the newest build that    *)
(* has the files.                                                          *)
NewestBuild(files) ==
  Newest({d \in Existing : dir[d].build /\ files \subseteq dir[d].files})

(* The directory is made when the ISO is there.                            *)
InstallBegin ==
  /\ Admitted("install") /\ named < MaxDir
  /\ named' = named + 1
  /\ tool' = [NoTool EXCEPT !.cmd = "install", !.pc = "fetch", !.dir = named + 1]
  /\ UNCHANGED <<policy, dir, golden, stamped, vm, server>>

InstallMakeDir ==
  /\ tool.pc = "fetch"
  /\ dir' = [dir EXCEPT ![tool.dir] = EmptyDir(TRUE)]
  /\ tool' = [tool EXCEPT !.pc = "disk"]
  /\ UNCHANGED <<policy, named, golden, stamped, vm, server>>

InstallDisk ==
  /\ tool.pc = "disk"
  /\ dir' = [dir EXCEPT ![tool.dir].files = {"vars", "disk"}]
  /\ tool' = [tool EXCEPT !.pc = "spawn"]
  /\ UNCHANGED <<policy, named, golden, stamped, vm, server>>

ProvisionBegin ==
  /\ Admitted("provision")
  /\ \E d \in NewestBuild({"disk", "vars"}) :
       tool' = [NoTool EXCEPT !.cmd = "provision", !.pc = "spawn", !.dir = d]
  /\ UNCHANGED <<policy, dir, named, golden, stamped, vm, server>>

GuestSpawn ==
  /\ tool.pc = "spawn"
  /\ IF dir[tool.dir].there
     THEN \E i \in NextVm :
            /\ vm' = Spawned(i, tool.dir)
            /\ tool' = [tool EXCEPT !.pc = "guest", !.vm = i]
     ELSE vm' = vm /\ tool' = NoTool
  /\ UNCHANGED <<policy, dir, named, golden, stamped, server>>

(* The host keys are pinned before the agent's pre-warm, the operator's    *)
(* provision.sh and the checks that may still fail the pass.               *)
ProvisionPin ==
  /\ tool.cmd = "provision" /\ tool.pc = "guest"
  /\ vm[tool.vm].st = "run" /\ dir[tool.dir].there
  /\ dir' = [dir EXCEPT ![tool.dir].files = @ \cup {"pin"}]
  /\ tool' = [tool EXCEPT !.pc = "pinned"]
  /\ UNCHANGED <<policy, named, golden, stamped, vm, server>>

ProvisionPass ==
  /\ tool.pc = "pinned" /\ vm[tool.vm].st = "run"
  /\ tool' = [tool EXCEPT !.pc = "passed"]
  /\ UNCHANGED <<policy, dir, named, golden, stamped, vm, server>>

(* The stop ladder, when the guest does not power off.                     *)
GuestLadder ==
  /\ tool.pc \in {"guest", "pinned", "passed"} /\ Live(tool.vm)
  /\ vm' = Killed(tool.vm)
  /\ tool' = [tool EXCEPT !.pc = "killed"]
  /\ UNCHANGED <<policy, dir, named, golden, stamped, server>>

(* The command ends when its QEMU is gone; a ladder that ended in SIGKILL  *)
(* is a failure.                                                           *)
GuestDone ==
  /\ tool.pc \in {"guest", "pinned", "passed", "killed"}
  /\ vm[tool.vm].st \in {"gone", "alien"}
  /\ dir' = [dir EXCEPT ![tool.dir].passed =
               @ \/ (tool.pc = "passed" /\ dir[tool.dir].there)]
  /\ tool' = NoTool
  /\ UNCHANGED <<policy, named, golden, stamped, vm, server>>

SnapshotBegin ==
  /\ Admitted("snapshot")
  /\ \E d \in NewestBuild({"disk", "vars", "pin"}) :
       tool' = [NoTool EXCEPT !.cmd = "snapshot", !.pc = "measure", !.dir = d]
  /\ UNCHANGED <<policy, dir, named, golden, stamped, vm, server>>

(* qemu-img measures the disk, then the image directory is made.           *)
SnapshotMakeGolden ==
  /\ tool.pc = "measure"
  /\ IF "disk" \in dir[tool.dir].files
     THEN /\ stamped < MaxGolden
          /\ stamped' = stamped + 1
          /\ golden' = [golden EXCEPT ![stamped + 1].there = TRUE]
          /\ tool' = [tool EXCEPT !.pc = "promote"]
     ELSE UNCHANGED <<golden, stamped>> /\ tool' = NoTool
  /\ UNCHANGED <<policy, dir, named, vm, server>>

(* One file after the other: disk and VARS are moved, the pin is copied,   *)
(* the manifest is written last.  A source that is missing ends the        *)
(* command and leaves the image as it is.                                  *)
NextFile ==
  {PromoteOrder[i] : i \in {j \in 1 .. 4 :
     /\ PromoteOrder[j] \notin golden[stamped].files
     /\ \A k \in 1 .. (j - 1) : PromoteOrder[k] \in golden[stamped].files}}

PromoteFile(file) ==
  IF file = "manifest" \/ file \in dir[tool.dir].files
  THEN /\ golden' = [golden EXCEPT ![stamped].files = @ \cup {file},
            ![stamped].passed = IF file = "disk" THEN dir[tool.dir].passed ELSE @]
       /\ dir' = [dir EXCEPT ![tool.dir].files = @ \ ({file} \cap {"disk", "vars"})]
       /\ tool' = IF file = "manifest" THEN NoTool ELSE tool
  ELSE UNCHANGED <<golden, dir>> /\ tool' = NoTool

SnapshotPromote ==
  /\ tool.pc = "promote"
  /\ \E file \in NextFile : PromoteFile(file)
  /\ UNCHANGED <<policy, named, stamped, vm, server>>

(* Broken variant: a directory without a pidfile is stale too.             *)
StaleUnlessLive(d) == dir[d].there /\ (dir[d].pid # None => Looks(dir[d].pid) = {"dead"})

(* classifySession: only a pidfile that names a dead process is stale.     *)
Stale(d) == dir[d].there /\ dir[d].pid # None /\ Looks(dir[d].pid) = {"dead"}

ResetBegin ==
  /\ Admitted("reset")
  /\ tool' = [NoTool EXCEPT !.cmd = "reset", !.pc = "judge", !.todo = Existing]
  /\ UNCHANGED <<policy, dir, named, golden, stamped, vm, server>>

ResetJudge(d) ==
  /\ tool.pc = "judge" /\ d \in tool.todo
  /\ tool' = [tool EXCEPT !.todo = @ \ {d}, !.dir = d,
                          !.pc = IF Stale(d) THEN "remove" ELSE "judge"]
  /\ UNCHANGED <<policy, dir, named, golden, stamped, vm, server>>

(* The directory was measured since it was judged.                         *)
ResetRemove ==
  /\ tool.cmd = "reset" /\ tool.pc = "remove"
  /\ dir' = [dir EXCEPT ![tool.dir] = NoDir]
  /\ tool' = [tool EXCEPT !.pc = "judge"]
  /\ UNCHANGED <<policy, named, golden, stamped, vm, server>>

ResetDone ==
  /\ tool.pc = "judge" /\ tool.todo = {}
  /\ tool' = NoTool
  /\ UNCHANGED <<policy, dir, named, golden, stamped, vm, server>>

(* gc lists the directories and the stale ones among them...               *)
GcBegin ==
  /\ Admitted("gc")
  /\ tool' = [NoTool EXCEPT !.cmd = "gc", !.pc = "plan", !.unread = Existing,
                            !.todo = {d \in Existing : Stale(d)}]
  /\ UNCHANGED <<policy, dir, named, golden, stamped, vm, server>>

(* Broken variant: only overlays of directories with a pidfile.            *)
RefersWithPid(d) == dir[d].base # None /\ dir[d].pid # None
Refers(d) == dir[d].base # None

(* ...asks qemu-img of one overlay after the other which image it is       *)
(* backed by; an overlay on which that fails is passed over.               *)
GcReadOverlay(d) ==
  /\ tool.pc = "plan" /\ d \in tool.unread
  /\ \/ /\ Refers(d)
        /\ tool' = [tool EXCEPT !.unread = @ \ {d}, !.goldens = @ \cup {dir[d].base}]
        /\ dir' = [dir EXCEPT ![d].exposed = @ /\ "disk" \notin golden[dir[d].base].files]
     \/ /\ tool' = [tool EXCEPT !.unread = @ \ {d}]
        /\ dir' = IF Refers(d) THEN [dir EXCEPT ![d].exposed = TRUE] ELSE dir
  /\ UNCHANGED <<policy, named, golden, stamped, vm, server>>

(* ...then the images beyond the newest KeepGoldens that no answer named,  *)
GcPlan ==
  /\ tool.pc = "plan" /\ tool.unread = {}
  /\ tool' = [tool EXCEPT !.pc = "remove", !.goldens = Beyond \ @]
  /\ UNCHANGED <<policy, dir, named, golden, stamped, vm, server>>

(* ...measures all of it and removes it in one go.                         *)
GcRemove ==
  /\ tool.cmd = "gc" /\ tool.pc = "remove"
  /\ dir' = [d \in Dir |-> IF d \in tool.todo THEN NoDir ELSE dir[d]]
  /\ golden' = [g \in Golden |-> IF g \in tool.goldens THEN NoGolden ELSE golden[g]]
  /\ tool' = NoTool
  /\ UNCHANGED <<policy, named, stamped, vm, server>>

(* Ctrl-C or a kill: nothing is undone.                                    *)
ToolCrash ==
  /\ tool.pc # "idle"
  /\ tool' = NoTool
  /\ UNCHANGED <<policy, dir, named, golden, stamped, vm, server>>

Operate ==
  \/ InstallBegin \/ InstallMakeDir \/ InstallDisk \/ ProvisionBegin \/ GuestSpawn
  \/ ProvisionPin \/ ProvisionPass \/ GuestLadder \/ GuestDone
  \/ SnapshotBegin \/ SnapshotMakeGolden \/ SnapshotPromote
  \/ ResetBegin \/ (\E d \in Dir : ResetJudge(d)) \/ ResetRemove \/ ResetDone
  \/ GcBegin \/ (\E d \in Dir : GcReadOverlay(d)) \/ GcPlan \/ GcRemove \/ ToolCrash

Next == Serve \/ Host \/ Operate

Spec == Init /\ [][Next]_vars

----------------------------------------------------------------------------
(* What the tree's processes promise each other.                           *)

(* The variables have their types.                                         *)
TypeOK ==
  /\ policy \in Policies
  /\ dir \in [Dir -> SessionDir]
  /\ named \in Dir
  /\ golden \in [Golden -> GoldenDir]
  /\ stamped \in Golden
  /\ vm \in [Vm -> VmProcess]
  /\ server \in Server
  /\ tool \in Tool

(* snapshot writes the manifest last, and a boot takes an image for valid  *)
(* by its manifest alone: whatever a crash, a missing source or a sweep    *)
(* cut short, an image with a manifest has its disk, VARS and pin.         *)
ManifestSealsGolden ==
  \A g \in Golden : "manifest" \in golden[g].files =>
                      golden[g].there /\ golden[g].files = GoldenFiles

(* gc removes no image that an overlay refers to: every overlay in the     *)
(* tree, retained by servers long gone or made while gc was reading and    *)
(* measuring, still has its backing file, unless it is exposed: the last   *)
(* qemu-img info on it failed, or the boot that made it had located its    *)
(* image before KeepGoldens others were promoted.                          *)
OverlayHasGolden ==
  \A d \in Dir : dir[d].base # None /\ ~dir[d].exposed
                    => "disk" \in golden[dir[d].base].files

(* prepareOrReuse and sweepPreserve: under a pinned session id no server   *)
(* and no exit of a QEMU ever takes from or replaces the retained overlay, *)
(* over any number of crashed servers and sweeps; only reset and gc do.    *)
RetainedSurvivesServers ==
  [][policy = "pinned" /\ dir[0].base # None /\ tool' = tool =>
       /\ dir'[0].base = dir[0].base
       /\ dir[0].files \subseteq dir'[0].files]_vars

SessionKeepsItsDir ==
  server.pc \in {"starting", "up"} /\ vm[server.vm].st = "run" =>
    /\ dir[server.id].base # None
    /\ dir[server.id].pid = server.vm

(* A directory without a pidfile is nobody's to remove, and one with a     *)
(* live QEMU fails the scan: under discard, where each boot has a fresh    *)
(* directory, reset, gc and the sweep leave the running session its files. *)
FreshSessionKeepsItsDir ==
  policy = "discard" => SessionKeepsItsDir

(* The sweep reads the pidfiles one await at a time while processes exit,  *)
(* pids are recycled and directories come and go; still no QEMU that an    *)
(* earlier process had left running when it began survives it.  (A reset   *)
(* that judged a directory before its QEMU was up may take the pidfile     *)
(* away: such a QEMU is beyond the sweep.)                                 *)
SweepReapsOrphans ==
  SweepDone => \A i \in server.orphans :
                 dir[vm[i].dir].pid = i => vm[i].st # "run"

(* session.ts:3-4 and :182-184: the sweep reclaims what a crashed server   *)
(* left behind.  It does not kill the QEMU of a command that is running.   *)
SweepSparesLiveOwners ==
  [][server.pc = "judge" /\ vm' # vm /\ server' # server =>
       tool.vm # server.pid]_vars

(* manage.ts:46-48: reset and gc refuse when a live QEMU exists, "removing *)
(* state out from under a running boot is not a judgment call": a running  *)
(* session of any policy keeps its overlay and its pidfile.                *)
RunningSessionKeepsItsDir == SessionKeepsItsDir

(* snapshot.ts:337-338: a session that never reached a complete provision  *)
(* pass has no pin to record, so snapshot does not promote it.             *)
GoldenIsProvisioned ==
  \A g \in Golden : "manifest" \in golden[g].files => golden[g].passed
=============================================================================
