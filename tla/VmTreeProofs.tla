---------------------------- MODULE VmTreeProofs ----------------------------
(***************************************************************************)
(* Theorems about VmTree.tla, for every bound on directories, images and   *)
(* QEMU processes, every session policy and every set of commands.         *)
(***************************************************************************)
EXTENDS VmTree, FiniteSetTheorems, TLAPS

(* A boot that creates files or spawns a QEMU has chosen its session id. *)
ServerHasId ==
  server.pc \in {"overlay", "vars", "spawn"} => server.id \in Dir

(* An image is filled from the front of PromoteOrder, one command at a time *)
(* and the newest image only; names are not used twice.                     *)
ImagesInOrder ==
  /\ \A g \in Golden : g > stamped => golden[g] = NoGolden
  /\ tool.pc = "promote" => golden[stamped].there
                            /\ "manifest" \notin golden[stamped].files

(* The pinned directory is nobody's build, and no boot or sweep under way   *)
(* is about to write over it.                                               *)
PinnedIsSafe ==
  /\ ~dir[0].build
  /\ tool.pc \in {"fetch", "measure", "promote"} => tool.dir # 0
  /\ server.pc = "overlay" => dir[server.id].base = None
  /\ policy = "pinned" /\ server.pc = "remove" => server.at # 0

TreeInv == TypeOK /\ ServerHasId /\ ImagesInOrder /\ ManifestSealsGolden /\ PinnedIsSafe
-----------------------------------------------------------------------------
(* Type correctness *)

(* The records that stand for nothing have their types. *)
LEMMA NullTypes ==
  /\ NewServer \in Server /\ NoTool \in Tool
  /\ NoDir \in SessionDir /\ NoGolden \in GoldenDir
  /\ EmptyDir(TRUE) \in SessionDir
  /\ 0 \in Dir
<1>1. 0 \in Dir
  BY TreeAssumption DEF Dir
<1>2. NewServer \in Server
  BY <1>1 DEF NewServer, Server, ServerPc
<1>3. NoTool \in Tool
  BY <1>1 DEF NoTool, Tool, ToolPc
<1>4. NoDir \in SessionDir /\ EmptyDir(TRUE) \in SessionDir
  BY DEF NoDir, EmptyDir, SessionDir, Files
<1>5. NoGolden \in GoldenDir
  BY DEF NoGolden, GoldenDir
<1>6. QED
  BY <1>1, <1>2, <1>3, <1>4, <1>5

(* The server after a boot, and after an entry of the sweep. *)
LEMMA ServerTypes ==
  ASSUME TypeOK
  PROVE  AfterBoot \in Server /\ NextEntry \in Server
<1>1. AfterBoot \in Server
  <2>1. PICK i, t : AfterBoot = [NewServer EXCEPT !.id = i, !.session = t]
                    /\ i \in Dir \cup {None} /\ t \in Dir \cup {None}
    <3>1. server.id \in Dir \cup {None} /\ server.session \in Dir \cup {None}
      BY DEF TypeOK, Server
    <3>2. QED
      BY <3>1 DEF AfterBoot
  <2>2. QED
    BY <2>1, NullTypes DEF Server
<1>2. NextEntry \in Server
  BY NullTypes DEF TypeOK, NextEntry, Server, ServerPc
<1>3. QED
  BY <1>1, <1>2

(* A QEMU is spawned, killed or gone. *)
LEMMA VmTypes ==
  ASSUME TypeOK, NEW i
  PROVE  /\ Killed(i) \in [Vm -> VmProcess]
         /\ Gone(i) \in [Vm -> VmProcess]
         /\ \A d \in Dir : Spawned(i, d) \in [Vm -> VmProcess]
<1>1. Killed(i) \in [Vm -> VmProcess]
  BY DEF TypeOK, Killed, VmProcess
<1>2. Gone(i) \in [Vm -> VmProcess]
  BY NullTypes DEF TypeOK, Gone, VmProcess
<1>3. ASSUME NEW d \in Dir PROVE Spawned(i, d) \in [Vm -> VmProcess]
  BY DEF TypeOK, Spawned, VmProcess
<1>4. QED
  BY <1>1, <1>2, <1>3

(* A directory of which one field changes is still a directory.             *)
LEMMA DirTypes ==
  ASSUME TypeOK, NEW d \in Dir
  PROVE  /\ \A b \in BOOLEAN : [dir EXCEPT ![d].exposed = b] \in [Dir -> SessionDir]
         /\ \A F \in Files : [dir EXCEPT ![d].files = F] \in [Dir -> SessionDir]
         /\ \A p \in Vm \cup {None} : [dir EXCEPT ![d].pid = p] \in [Dir -> SessionDir]
<1>1. dir \in [Dir -> SessionDir] /\ dir[d] \in SessionDir
  BY DEF TypeOK
<1>2. ASSUME NEW F \in Files PROVE [dir EXCEPT ![d].files = F] \in [Dir -> SessionDir]
  <2>1. [dir[d] EXCEPT !.files = F] \in SessionDir
    BY <1>1 DEF SessionDir
  <2>2. QED
    BY <1>1, <2>1
<1>3. ASSUME NEW p \in Vm \cup {None} PROVE [dir EXCEPT ![d].pid = p] \in [Dir -> SessionDir]
  <2>1. [dir[d] EXCEPT !.pid = p] \in SessionDir
    BY <1>1 DEF SessionDir
  <2>2. QED
    BY <1>1, <2>1
<1>4. ASSUME NEW b \in BOOLEAN PROVE [dir EXCEPT ![d].exposed = b] \in [Dir -> SessionDir]
  <2>1. [dir[d] EXCEPT !.exposed = b] \in SessionDir
    BY <1>1 DEF SessionDir
  <2>2. QED
    BY <1>1, <2>1
<1>5. QED
  BY <1>2, <1>3, <1>4

(* A gc that reads an overlay changes nothing else in the directory.        *)
LEMMA ReadingExposes ==
  ASSUME NEW x, GcReadOverlay(x), dir[x].exposed \in BOOLEAN
  PROVE  dir' = dir \/ \E b \in BOOLEAN : dir' = [dir EXCEPT ![x].exposed = b]
<1> DEFINE read == dir[x].exposed /\ "disk" \notin golden[dir[x].base].files
<1>1. read \in BOOLEAN
  OBVIOUS
<1>2. dir' = dir \/ dir' = [dir EXCEPT ![x].exposed = read] \/ dir' = [dir EXCEPT ![x].exposed = TRUE]
  BY DEF GcReadOverlay
<1> HIDE DEF read
<1>3. QED
  BY <1>1, <1>2

LEMMA InitType == Init => TypeOK
<1>1. SUFFICES ASSUME Init PROVE TypeOK
  OBVIOUS
<1>2. Retained \in SessionDir /\ Installed \in SessionDir
  <2>1. 1 \in Golden
    BY TreeAssumption DEF Golden
  <2>2. EmptyDir(FALSE) \in SessionDir
    BY DEF EmptyDir, NoDir, SessionDir, Files
  <2>3. Retained \in SessionDir
    BY <2>1, <2>2 DEF Retained, SessionDir, Files
  <2>4. Installed \in SessionDir
    BY NullTypes DEF Installed, SessionDir, Files
  <2>5. QED
    BY <2>3, <2>4
<1>3. dir \in [Dir -> SessionDir] /\ named \in Dir
  BY <1>1, <1>2, NullTypes, TreeAssumption DEF Init, Dir
<1>4. golden \in [Golden -> GoldenDir] /\ stamped \in Golden
  BY <1>1, NullTypes, TreeAssumption DEF Init, GoldenDir, Golden
<1>5. vm \in [Vm -> VmProcess]
  BY <1>1, NullTypes DEF Init, VmProcess
<1>6. QED
  BY <1>1, <1>3, <1>4, <1>5, NullTypes DEF Init, TypeOK

LEMMA ServeType ==
  ASSUME TypeOK, ServerHasId, Serve
  PROVE  TypeOK'
<1>1. CASE BeginBoot
  BY <1>1 DEF TypeOK, BeginBoot, Existing, Server, ServerPc
<1>2. ASSUME NEW x \in Dir, SweepRead(x) PROVE TypeOK'
  <2>1. dir[x].pid \in Vm \cup {None}
    BY DEF TypeOK, SessionDir
  <2>2. server' \in Server
    BY <1>2, <2>1 DEF TypeOK, SweepRead, Server, ServerPc
  <2>3. QED
    BY <1>2, <2>2 DEF TypeOK, SweepRead
<1>3. CASE SweepJudge
  <2>1. vm' \in [Vm -> VmProcess]
    BY <1>3, VmTypes DEF TypeOK, SweepJudge
  <2>2. server' \in Server
    BY <1>3, ServerTypes DEF TypeOK, SweepJudge, Server, ServerPc
  <2>3. QED
    BY <1>3, <2>1, <2>2 DEF TypeOK, SweepJudge
<1>4. CASE SweepRemove
  BY <1>4, NullTypes, ServerTypes DEF TypeOK, SweepRemove
<1>5. CASE LocateFails
  BY <1>5, ServerTypes DEF TypeOK, LocateFails
<1>6. CASE Reuse
  <2>1. SessionId \in Dir /\ named' \in Dir
    BY <1>6 DEF TypeOK, Reuse, Locates
  <2>2. CASE server' = AfterBoot
    BY <1>6, <2>1, <2>2, ServerTypes DEF TypeOK, Reuse
  <2>3. CASE server' = [server EXCEPT !.pc = "spawn", !.id = SessionId,
                                      !.session = SessionId, !.orphans = {}]
    <3>1. server' \in Server
      BY <2>1, <2>3 DEF TypeOK, Server, ServerPc
    <3>2. QED
      BY <1>6, <2>1, <3>1 DEF TypeOK, Reuse
  <2>4. QED
    BY <1>6, <2>2, <2>3 DEF Reuse
<1>7. CASE MakeSession
  <2>1. SessionId \in Dir /\ named' \in Dir
    BY <1>7 DEF TypeOK, MakeSession, Locates
  <2>2. dir' \in [Dir -> SessionDir]
    <3>1. [dir[SessionId] EXCEPT !.there = TRUE] \in SessionDir
      BY <2>1 DEF TypeOK, SessionDir
    <3>2. QED
      BY <1>7, <2>1, <3>1 DEF TypeOK, MakeSession
  <2>3. server' \in Server
    <3>1. PICK g \in LocateGolden :
            server' = [server EXCEPT !.pc = "overlay", !.id = SessionId,
                                     !.golden = g, !.orphans = {}]
      BY <1>7 DEF MakeSession
    <3>2. g \in Golden
      BY DEF LocateGolden, Newest, Images
    <3>3. QED
      BY <2>1, <3>1, <3>2 DEF TypeOK, Server, ServerPc
  <2>4. QED
    BY <1>7, <2>1, <2>2, <2>3 DEF TypeOK, MakeSession
<1>8. CASE CreateOverlay
  <2>1. dir' \in [Dir -> SessionDir]
    <3> DEFINE late == server.golden \in Beyond
    <3>1. \/ dir' = dir
          \/ dir' = [dir EXCEPT ![server.id].base = server.golden, ![server.id].exposed = late]
      BY <1>8 DEF CreateOverlay
    <3>2. server.golden \in Golden \cup {None} /\ late \in BOOLEAN
      BY DEF TypeOK, Server
    <3> HIDE DEF late
    <3>5. ASSUME NEW d \in SessionDir
          PROVE  [d EXCEPT !.base = server.golden, !.exposed = late] \in SessionDir
      BY ONLY <3>2, <3>5 DEF SessionDir
    <3>3. ASSUME server.id \in Dir
          PROVE  [dir[server.id] EXCEPT !.base = server.golden, !.exposed = late] \in SessionDir
      BY <3>3, <3>5 DEF TypeOK
    <3>4. QED
      BY <3>1, <3>3 DEF TypeOK
  <2>2. server' \in Server
    <3>1. CASE server' = AfterBoot
      BY <3>1, ServerTypes
    <3>2. CASE server' = [server EXCEPT !.pc = "vars"]
      BY <3>2 DEF TypeOK, Server, ServerPc
    <3>3. QED
      BY <1>8, <3>1, <3>2 DEF CreateOverlay
  <2>3. QED
    BY <1>8, <2>1, <2>2 DEF TypeOK, CreateOverlay
<1>9. CASE CopyVars
  <2>1. dir' \in [Dir -> SessionDir]
    <3>1. CASE dir' = dir
      BY <3>1 DEF TypeOK
    <3>2. CASE dir' = [dir EXCEPT ![server.id].files = @ \cup {"vars"}]
      <4>1. server.id \in Dir
        BY <1>9 DEF CopyVars, ServerHasId
      <4>2. dir[server.id].files \cup {"vars"} \in Files
        BY <4>1 DEF TypeOK, SessionDir, Files
      <4>3. QED
        BY <3>2, <4>1, <4>2, DirTypes
    <3>3. QED
      BY <1>9, <3>1, <3>2 DEF CopyVars
  <2>2. server' \in Server
    <3>1. CASE server' = AfterBoot
      BY <3>1, ServerTypes
    <3>2. CASE server' = [server EXCEPT !.pc = "spawn", !.session = server.id, !.golden = None]
      BY <3>2 DEF TypeOK, Server, ServerPc
    <3>3. QED
      BY <1>9, <3>1, <3>2 DEF CopyVars
  <2>3. QED
    BY <1>9, <2>1, <2>2 DEF TypeOK, CopyVars
<1>10. CASE Spawn
  <2>1. vm' \in [Vm -> VmProcess]
    <3>1. server.id \in Dir
      BY <1>10 DEF Spawn, ServerHasId
    <3>2. CASE dir[server.id].there
      <4>1. PICK i \in NextVm : vm' = Spawned(i, server.id)
        BY <1>10, <3>2 DEF Spawn
      <4>2. QED
        BY <3>1, <4>1, VmTypes
    <3>3. CASE ~dir[server.id].there
      BY <1>10, <3>3 DEF TypeOK, Spawn
    <3>4. QED
      BY <3>2, <3>3
  <2>2. server' \in Server
    <3>1. CASE server' = [server EXCEPT !.pc = "stopping"]
      BY <3>1 DEF TypeOK, Server, ServerPc
    <3>2. ASSUME NEW i \in Vm, server' = [server EXCEPT !.pc = "starting", !.vm = i]
          PROVE  server' \in Server
      BY <3>2 DEF TypeOK, Server, ServerPc
    <3>3. QED
      BY <1>10, <3>1, <3>2 DEF Spawn, NextVm
  <2>3. QED
    BY <1>10, <2>1, <2>2 DEF TypeOK, Spawn
<1>11. CASE BootUp
  BY <1>11 DEF TypeOK, BootUp, Server, ServerPc
<1>12. CASE BeginStop
  BY <1>12 DEF TypeOK, BeginStop, Server, ServerPc
<1>13. CASE LadderKills
  <2>1. vm' \in [Vm -> VmProcess]
    BY <1>13, VmTypes DEF LadderKills
  <2>2. QED
    BY <1>13, <2>1 DEF TypeOK, LadderKills
<1>14. CASE StopDone
  BY <1>14, NullTypes, ServerTypes DEF TypeOK, StopDone
<1>15. CASE ServerCrash
  BY <1>15, NullTypes DEF TypeOK, ServerCrash
<1>16. QED
  BY <1>1, <1>2, <1>3, <1>4, <1>5, <1>6, <1>7, <1>8, <1>9, <1>10, <1>11, <1>12, <1>13, <1>14, <1>15 DEF Serve

LEMMA HostType ==
  ASSUME TypeOK, Host
  PROVE  TypeOK'
<1>1. ASSUME NEW x \in Vm, QemuReady(x) PROVE TypeOK'
  <2>1. vm' \in [Vm -> VmProcess]
    BY <1>1 DEF TypeOK, QemuReady, VmProcess
  <2>2. dir' \in [Dir -> SessionDir]
    BY <1>1, DirTypes DEF TypeOK, QemuReady, VmProcess
  <2>3. QED
    BY <1>1, <2>1, <2>2 DEF TypeOK, QemuReady
<1>2. ASSUME NEW x \in Vm, QemuExits(x) PROVE TypeOK'
  <2>1. vm' \in [Vm -> VmProcess]
    BY <1>2, VmTypes DEF QemuExits
  <2>2. dir' \in [Dir -> SessionDir]
    BY <1>2 DEF TypeOK, QemuExits, SessionDir
  <2>3. QED
    BY <1>2, <2>1, <2>2 DEF TypeOK, QemuExits
<1>3. ASSUME NEW x \in Vm, Reaped(x) PROVE TypeOK'
  BY <1>3, VmTypes DEF TypeOK, Reaped
<1>4. ASSUME NEW x \in Vm, PidRecycled(x) PROVE TypeOK'
  BY <1>4 DEF TypeOK, PidRecycled, VmProcess
<1>5. ASSUME NEW x \in Vm, AlienExits(x) PROVE TypeOK'
  BY <1>5 DEF TypeOK, AlienExits, VmProcess
<1>6. QED
  BY <1>1, <1>2, <1>3, <1>4, <1>5 DEF Host

LEMMA OperateType ==
  ASSUME TypeOK, Operate
  PROVE  TypeOK'
<1>1. CASE InstallBegin
  <2>1. named' \in Dir
    BY <1>1, TreeAssumption DEF TypeOK, InstallBegin, Dir
  <2>2. tool' \in Tool
    BY <1>1, <2>1 DEF InstallBegin, NoTool, Tool, ToolPc, Command
  <2>3. QED
    BY <1>1, <2>1, <2>2 DEF TypeOK, InstallBegin
<1>2. CASE InstallDisk
  <2>1. dir' \in [Dir -> SessionDir]
    <3>1. {"vars", "disk"} \in Files
      BY DEF Files
    <3>2. QED
      BY <1>2, <3>1, DirTypes DEF TypeOK, InstallDisk, Tool
  <2>2. tool' \in Tool
    BY <1>2 DEF TypeOK, InstallDisk, Tool, ToolPc
  <2>3. QED
    BY <1>2, <2>1, <2>2 DEF TypeOK, InstallDisk
<1>3. CASE ProvisionBegin
  <2>1. PICK d \in Dir : tool' = [NoTool EXCEPT !.cmd = "provision", !.pc = "spawn", !.dir = d]
    BY <1>3 DEF ProvisionBegin, NewestBuild, Newest, Existing
  <2>2. tool' \in Tool
    BY <2>1 DEF NoTool, Tool, ToolPc, Command
  <2>3. QED
    BY <1>3, <2>2 DEF TypeOK, ProvisionBegin
<1>4. CASE GuestSpawn
  <2>1. vm' \in [Vm -> VmProcess]
    <3>1. tool.dir \in Dir
      BY DEF TypeOK, Tool
    <3>2. CASE dir[tool.dir].there
      <4>1. PICK i \in NextVm : vm' = Spawned(i, tool.dir)
        BY <1>4, <3>2 DEF GuestSpawn
      <4>2. QED
        BY <3>1, <4>1, VmTypes
    <3>3. CASE ~dir[tool.dir].there
      BY <1>4, <3>3 DEF TypeOK, GuestSpawn
    <3>4. QED
      BY <3>2, <3>3
  <2>2. tool' \in Tool
    <3>1. CASE tool' = NoTool
      BY <3>1, NullTypes
    <3>2. ASSUME NEW i \in Vm, tool' = [tool EXCEPT !.pc = "guest", !.vm = i]
          PROVE  tool' \in Tool
      BY <3>2 DEF TypeOK, Tool, ToolPc
    <3>3. QED
      BY <1>4, <3>1, <3>2 DEF GuestSpawn, NextVm
  <2>3. QED
    BY <1>4, <2>1, <2>2 DEF TypeOK, GuestSpawn
<1>5. CASE ProvisionPin
  <2>1. dir' \in [Dir -> SessionDir]
    <3>1. dir[tool.dir].files \cup {"pin"} \in Files
      BY DEF TypeOK, Tool, SessionDir, Files
    <3>2. QED
      BY <1>5, <3>1, DirTypes DEF TypeOK, ProvisionPin, Tool
  <2>2. tool' \in Tool
    BY <1>5 DEF TypeOK, ProvisionPin, Tool, ToolPc
  <2>3. QED
    BY <1>5, <2>1, <2>2 DEF TypeOK, ProvisionPin
<1>6. CASE ProvisionPass
  BY <1>6 DEF TypeOK, ProvisionPass, Tool, ToolPc
<1>7. CASE GuestLadder
  <2>1. vm' \in [Vm -> VmProcess]
    BY <1>7, VmTypes DEF GuestLadder
  <2>2. tool' \in Tool
    BY <1>7 DEF TypeOK, GuestLadder, Tool, ToolPc
  <2>3. QED
    BY <1>7, <2>1, <2>2 DEF TypeOK, GuestLadder
<1>8. CASE GuestDone
  <2>1. dir' \in [Dir -> SessionDir]
    <3> DEFINE pass == dir[tool.dir].passed \/ (tool.pc = "passed" /\ dir[tool.dir].there)
    <3>1. pass \in BOOLEAN
      OBVIOUS
    <3>2. dir' = [dir EXCEPT ![tool.dir].passed = pass]
      BY <1>8 DEF GuestDone
    <3> HIDE DEF pass
    <3>4. ASSUME NEW d \in SessionDir PROVE [d EXCEPT !.passed = pass] \in SessionDir
      BY ONLY <3>1, <3>4 DEF SessionDir
    <3>3. QED
      BY <3>2, <3>4 DEF TypeOK
  <2>2. QED
    BY <1>8, <2>1, NullTypes DEF TypeOK, GuestDone
<1>9. CASE SnapshotBegin
  <2>1. PICK d \in Dir : tool' = [NoTool EXCEPT !.cmd = "snapshot", !.pc = "measure", !.dir = d]
    BY <1>9 DEF SnapshotBegin, NewestBuild, Newest, Existing
  <2>2. tool' \in Tool
    BY <2>1 DEF NoTool, Tool, ToolPc, Command
  <2>3. QED
    BY <1>9, <2>2 DEF TypeOK, SnapshotBegin
<1>10. CASE SnapshotMakeGolden
  <2>1. stamped' \in Golden
    BY <1>10, TreeAssumption DEF TypeOK, SnapshotMakeGolden, Golden
  <2>2. golden' \in [Golden -> GoldenDir]
    <3>1. CASE golden' = golden
      BY <3>1 DEF TypeOK
    <3>2. CASE golden' = [golden EXCEPT ![stamped + 1].there = TRUE]
      BY <3>2 DEF TypeOK, GoldenDir
    <3>3. QED
      BY <1>10, <3>1, <3>2 DEF SnapshotMakeGolden
  <2>3. tool' \in Tool
    BY <1>10, NullTypes DEF TypeOK, SnapshotMakeGolden, Tool, ToolPc
  <2>4. QED
    BY <1>10, <2>1, <2>2, <2>3 DEF TypeOK, SnapshotMakeGolden
<1>11. CASE SnapshotPromote
  <2>1. PICK file \in NextFile : PromoteFile(file)
    BY <1>11 DEF SnapshotPromote
  <2>2. file \in GoldenFiles
    BY <2>1 DEF NextFile, PromoteOrder, GoldenFiles
  <2>3. dir' \in [Dir -> SessionDir]
    <3>1. tool.dir \in Dir
      BY DEF TypeOK, Tool
    <3>2. ASSUME NEW F PROVE dir[tool.dir].files \ F \in Files
      BY <3>1 DEF TypeOK, SessionDir, Files
    <3>3. QED
      BY <2>1, <3>2 DEF TypeOK, PromoteFile, SessionDir
  <2>4. golden' \in [Golden -> GoldenDir]
    BY <2>1, <2>2 DEF TypeOK, PromoteFile, GoldenDir, SessionDir, Tool
  <2>5. tool' \in Tool
    BY <2>1, NullTypes DEF TypeOK, PromoteFile
  <2>6. QED
    BY <1>11, <2>3, <2>4, <2>5 DEF TypeOK, SnapshotPromote
<1>12. CASE ResetBegin
  BY <1>12, NullTypes DEF TypeOK, ResetBegin, NoTool, Existing, Tool, ToolPc, Command
<1>13. ASSUME NEW x \in Dir, ResetJudge(x) PROVE TypeOK'
  BY <1>13 DEF TypeOK, ResetJudge, Tool, ToolPc
<1>14. CASE ResetRemove
  BY <1>14, NullTypes DEF TypeOK, ResetRemove, Tool, ToolPc
<1>15. CASE ResetDone
  BY <1>15, NullTypes DEF TypeOK, ResetDone
<1>16. CASE GcBegin
  <2>1. tool' \in Tool
    <3>1. Existing \in SUBSET Dir /\ {d \in Existing : Stale(d)} \in SUBSET Dir
      BY DEF Existing
    <3>2. QED
      BY <1>16, <3>1, NullTypes DEF GcBegin, NoTool, Tool, ToolPc, Command
  <2>2. QED
    BY <1>16, <2>1 DEF TypeOK, GcBegin
<1>17. CASE GcPlan
  BY <1>17 DEF TypeOK, GcPlan, Beyond, Images, Tool, ToolPc
<1>18. CASE GcRemove
  BY <1>18, NullTypes DEF TypeOK, GcRemove
<1>19. CASE ToolCrash
  BY <1>19, NullTypes DEF TypeOK, ToolCrash
<1>20. CASE InstallMakeDir
  <2>1. dir' \in [Dir -> SessionDir]
    BY <1>20, NullTypes DEF TypeOK, InstallMakeDir
  <2>2. tool' \in Tool
    BY <1>20 DEF TypeOK, InstallMakeDir, Tool, ToolPc
  <2>3. QED
    BY <1>20, <2>1, <2>2 DEF TypeOK, InstallMakeDir
<1>21. ASSUME NEW x \in Dir, GcReadOverlay(x) PROVE TypeOK'
  <2>1. dir' = dir \/ \E b \in BOOLEAN : dir' = [dir EXCEPT ![x].exposed = b]
    BY <1>21, ReadingExposes DEF TypeOK, SessionDir
  <2>2. dir' \in [Dir -> SessionDir]
    BY <2>1, DirTypes DEF TypeOK
  <2>3. dir[x].base # None => dir[x].base \in Golden
    BY DEF TypeOK, SessionDir
  <2>4. tool' \in Tool
    <3>1. CASE tool' = [tool EXCEPT !.unread = @ \ {x}]
      BY <3>1 DEF TypeOK, Tool
    <3>2. CASE tool' = [tool EXCEPT !.unread = @ \ {x}, !.goldens = @ \cup {dir[x].base}] /\ Refers(x)
      BY <2>3, <3>2 DEF TypeOK, Tool, Refers
    <3>3. QED
      BY <1>21, <3>1, <3>2 DEF GcReadOverlay
  <2>5. QED
    BY <1>21, <2>2, <2>4 DEF TypeOK, GcReadOverlay
<1>22. QED
  BY <1>1, <1>2, <1>3, <1>4, <1>5, <1>6, <1>7, <1>8, <1>9, <1>10, <1>11, <1>12, <1>13, <1>14, <1>15, <1>16, <1>17, <1>18, <1>19, <1>20, <1>21 DEF Operate

LEMMA NextType ==
  ASSUME TypeOK, ServerHasId, [Next]_vars
  PROVE  TypeOK'
<1>1. CASE UNCHANGED vars
  BY <1>1 DEF vars, TypeOK
<1>2. QED
  BY <1>1, ServeType, HostType, OperateType DEF Next

(* What a gc that reads an overlay leaves alone.                            *)
LEMMA ReadingKeepsDir ==
  ASSUME TypeOK, NEW x \in Dir, GcReadOverlay(x), NEW d \in Dir
  PROVE  /\ dir'[d].base = dir[d].base
         /\ dir'[d].files = dir[d].files
         /\ dir'[d].build = dir[d].build
         /\ dir'[d].there = dir[d].there
         /\ dir'[d].pid = dir[d].pid
         /\ dir[d] = NoDir => dir'[d] = NoDir
<1>1. CASE dir' = dir
  BY <1>1
<1>2. ASSUME NEW b \in BOOLEAN, dir' = [dir EXCEPT ![x].exposed = b], dir[x].base # None
      PROVE  /\ dir'[d].base = dir[d].base
             /\ dir'[d].files = dir[d].files
             /\ dir'[d].build = dir[d].build
             /\ dir'[d].there = dir[d].there
             /\ dir'[d].pid = dir[d].pid
             /\ dir[d] = NoDir => dir'[d] = NoDir
  <2>1. dir \in [Dir -> SessionDir] /\ dir[d] \in SessionDir /\ NoDir.base = None
    BY DEF TypeOK, NoDir
  <2>2. dir'[d] = IF d = x THEN [dir[d] EXCEPT !.exposed = b] ELSE dir[d]
    BY <1>2, <2>1
  <2>3. QED
    BY <1>2, <2>1, <2>2 DEF SessionDir
<1>3. dir[x].exposed \in BOOLEAN
  BY DEF TypeOK, SessionDir
<1>4. dir' = dir \/ dir[x].base # None
  BY DEF GcReadOverlay, Refers
<1>5. QED
  BY <1>1, <1>2, <1>3, <1>4, ReadingExposes

LEMMA ReadingKeeps ==
  ASSUME TypeOK, NEW x \in Dir, GcReadOverlay(x)
  PROVE  /\ UNCHANGED <<policy, named, golden, stamped, vm, server>>
         /\ tool.pc = "plan" /\ tool'.pc = "plan" /\ tool'.cmd = tool.cmd
         /\ tool'.dir = tool.dir /\ tool'.todo = tool.todo /\ tool'.vm = tool.vm
         /\ tool'.unread = tool.unread \ {x} /\ tool.goldens \subseteq tool'.goldens
<1>1. UNCHANGED <<policy, named, golden, stamped, vm, server>> /\ tool.pc = "plan"
  BY DEF GcReadOverlay
<1>2. tool \in Tool
  BY DEF TypeOK
<1>3. \/ tool' = [tool EXCEPT !.unread = @ \ {x}]
      \/ tool' = [tool EXCEPT !.unread = @ \ {x}, !.goldens = @ \cup {dir[x].base}]
  BY DEF GcReadOverlay
<1>4. /\ tool'.pc = tool.pc /\ tool'.cmd = tool.cmd
      /\ tool'.dir = tool.dir /\ tool'.todo = tool.todo /\ tool'.vm = tool.vm
      /\ tool'.unread = tool.unread \ {x} /\ tool.goldens \subseteq tool'.goldens
  BY <1>2, <1>3 DEF Tool
<1>5. QED
  BY <1>1, <1>4

-----------------------------------------------------------------------------
(* The strengthening, conjunct by conjunct *)

LEMMA BootEndsIdle == NewServer.pc = "idle" /\ AfterBoot.pc = "idle"
<1>1. NewServer.pc = "idle"
  BY DEF NewServer
<1>2. AfterBoot.pc = NewServer.pc
  BY DEF AfterBoot, NewServer
<1>3. QED
  BY <1>1, <1>2

(* What the QEMUs and the operating system do leaves the files alone.       *)
LEMMA HostKeeps ==
  ASSUME TypeOK, Host
  PROVE  /\ UNCHANGED <<policy, named, golden, stamped, server, tool>>
         /\ \A d \in Dir : /\ dir'[d].base = dir[d].base
                          /\ dir'[d].files = dir[d].files
                          /\ dir'[d].build = dir[d].build
<1>1. UNCHANGED <<policy, named, golden, stamped, server, tool>>
  BY DEF Host, QemuReady, QemuExits, Reaped, PidRecycled, AlienExits
<1>2. CASE dir' = dir
  BY <1>1, <1>2
<1>3. CASE \E i \in Vm : \E p : dir' = [dir EXCEPT ![vm[i].dir].pid = p]
  BY <1>1, <1>3 DEF TypeOK, SessionDir, VmProcess
<1>4. QED
  <2>1. ASSUME NEW i \in Vm, QemuReady(i) PROVE \E p : dir' = [dir EXCEPT ![vm[i].dir].pid = p]
    BY <2>1 DEF QemuReady
  <2>2. ASSUME NEW i \in Vm, QemuExits(i)
        PROVE dir' = dir \/ \E p : dir' = [dir EXCEPT ![vm[i].dir].pid = p]
    BY <2>2 DEF QemuExits, TypeOK, SessionDir, VmProcess
  <2>3. ASSUME NEW i \in Vm, Reaped(i) \/ PidRecycled(i) \/ AlienExits(i) PROVE dir' = dir
    BY <2>3 DEF Reaped, PidRecycled, AlienExits
  <2>4. QED
    BY <1>2, <1>3, <2>1, <2>2, <2>3 DEF Host

LEMMA ServerHasIdStep ==
  ASSUME TypeOK, ServerHasId, [Next]_vars
  PROVE  ServerHasId'
<1>1. CASE server' = server
  BY <1>1 DEF ServerHasId
<1>2. CASE Reuse \/ MakeSession
  BY <1>2 DEF Reuse, MakeSession, Locates, AfterBoot, NewServer, ServerHasId, TypeOK, Server
<1>3. CASE CreateOverlay \/ CopyVars
  <2>1. \/ server' = AfterBoot
        \/ server.pc = "overlay" /\ server' = [server EXCEPT !.pc = "vars"]
        \/ server.pc = "vars" /\ server' = [server EXCEPT !.pc = "spawn", !.session = server.id, !.golden = None]
    BY <1>3 DEF CreateOverlay, CopyVars
  <2>2. CASE server' = AfterBoot
    BY <2>2, BootEndsIdle DEF ServerHasId
  <2>3. CASE server' # AfterBoot
    BY <2>1, <2>3 DEF ServerHasId, TypeOK, Server
  <2>4. QED
    BY <2>2, <2>3
<1>4. CASE BeginBoot \/ (\E d \in Dir : SweepRead(d)) \/ SweepJudge \/ SweepRemove
  <2>1. server'.pc \in {"sweep", "judge", "remove"}
    <3>1. NextEntry.pc = "sweep"
      BY DEF NextEntry, TypeOK, Server
    <3>2. CASE BeginBoot \/ (\E d \in Dir : SweepRead(d))
      BY <3>2 DEF BeginBoot, SweepRead, TypeOK, Server
    <3>3. CASE SweepJudge \/ SweepRemove
      BY <3>1, <3>3 DEF SweepJudge, SweepRemove, TypeOK, Server
    <3>4. QED
      BY <1>4, <3>2, <3>3
  <2>2. QED
    BY <2>1 DEF ServerHasId
<1>5. CASE LocateFails \/ StopDone \/ ServerCrash
  <2>1. server' \in {AfterBoot, NewServer}
    BY <1>5 DEF LocateFails, StopDone, ServerCrash
  <2>2. server'.pc = "idle"
    BY <2>1, BootEndsIdle
  <2>3. QED
    BY <2>2 DEF ServerHasId
<1>6. CASE Spawn \/ BootUp \/ BeginStop
  BY <1>6 DEF Spawn, BootUp, BeginStop, ServerHasId, TypeOK, Server
<1>7. CASE Host \/ Operate
  <2>1. server' = server
    BY <1>7 DEF Host, QemuReady, QemuExits, Reaped, PidRecycled, AlienExits, Operate,
       InstallBegin, InstallMakeDir, InstallDisk, ProvisionBegin, GuestSpawn, ProvisionPin, ProvisionPass,
       GuestLadder, GuestDone, SnapshotBegin, SnapshotMakeGolden, SnapshotPromote,
       ResetBegin, ResetJudge, ResetRemove, ResetDone, GcBegin, GcReadOverlay, GcPlan, GcRemove, ToolCrash
  <2>2. QED
    BY <1>1, <2>1
<1>8. CASE LadderKills \/ UNCHANGED vars
  BY <1>1, <1>8 DEF LadderKills, vars
<1>9. QED
  BY <1>2, <1>3, <1>4, <1>5, <1>6, <1>7, <1>8 DEF Next, Serve

(* Images: SnapshotMakeGolden opens the newest, PromoteFile fills it, gc    *)
(* takes whole images away.                                                 *)

LEMMA NextFileInOrder ==
  ASSUME TypeOK, NEW file \in NextFile
  PROVE  /\ file \in GoldenFiles
         /\ file = "manifest" => {"disk", "vars", "pin"} \subseteq golden[stamped].files
<1>1. PICK j \in 1 .. 4 : /\ file = PromoteOrder[j]
                          /\ \A k \in 1 .. (j - 1) : PromoteOrder[k] \in golden[stamped].files
  BY DEF NextFile
<1>2. /\ PromoteOrder[1] = "disk" /\ PromoteOrder[2] = "vars"
      /\ PromoteOrder[3] = "pin" /\ PromoteOrder[4] = "manifest"
  BY DEF PromoteOrder
<1>3. CASE j = 4
  BY <1>1, <1>2, <1>3 DEF GoldenFiles
<1>4. CASE j \in 1 .. 3
  BY <1>1, <1>2, <1>4 DEF GoldenFiles
<1>5. QED
  BY <1>3, <1>4

LEMMA CommandsBegin ==
  /\ SnapshotBegin => tool'.pc = "measure"
  /\ InstallBegin => tool'.pc = "fetch" /\ tool'.dir = named + 1
  BY DEF SnapshotBegin, InstallBegin, NoTool

(* Only install is about to make a build, and only snapshot to fill an      *)
(* image.                                                                   *)
LEMMA OtherCommandsDoNotPromote ==
  ASSUME TypeOK, Operate, ~SnapshotBegin, ~SnapshotMakeGolden, ~SnapshotPromote, ~InstallBegin
  PROVE  tool'.pc \notin {"fetch", "measure", "promote"}
<1>1. CASE InstallMakeDir
  BY <1>1 DEF TypeOK, Tool, NoTool, InstallMakeDir
<1>2. CASE InstallDisk
  BY <1>2 DEF TypeOK, Tool, NoTool, InstallDisk
<1>3. CASE ProvisionBegin
  BY <1>3 DEF TypeOK, Tool, NoTool, ProvisionBegin
<1>4. CASE GuestSpawn
  <2>1. tool' = NoTool \/ \E i \in NextVm : tool' = [tool EXCEPT !.pc = "guest", !.vm = i]
    BY <1>4 DEF GuestSpawn
  <2>2. ASSUME NEW i, tool' = [tool EXCEPT !.pc = "guest", !.vm = i] PROVE tool'.pc = "guest"
    BY <2>2 DEF TypeOK, Tool
  <2>3. CASE tool' = NoTool
    BY <2>3 DEF NoTool
  <2>4. CASE \E i \in NextVm : tool' = [tool EXCEPT !.pc = "guest", !.vm = i]
    <3>1. tool'.pc = "guest"
      BY <2>2, <2>4, Zenon
    <3>2. QED
      BY <3>1
  <2>5. QED
    BY <2>1, <2>3, <2>4
<1>5. CASE ProvisionPin
  BY <1>5 DEF TypeOK, Tool, NoTool, ProvisionPin
<1>6. CASE ProvisionPass
  BY <1>6 DEF TypeOK, Tool, NoTool, ProvisionPass
<1>7. CASE GuestLadder
  BY <1>7 DEF TypeOK, Tool, NoTool, GuestLadder
<1>8. CASE GuestDone
  BY <1>8 DEF TypeOK, Tool, NoTool, GuestDone
<1>9. CASE ResetBegin
  BY <1>9 DEF TypeOK, Tool, NoTool, ResetBegin
<1>10. ASSUME NEW d \in Dir, ResetJudge(d) PROVE tool'.pc \notin {"fetch", "measure", "promote"}
  BY <1>10 DEF TypeOK, Tool, NoTool, ResetJudge
<1>11. CASE ResetRemove
  BY <1>11 DEF TypeOK, Tool, NoTool, ResetRemove
<1>12. CASE ResetDone
  BY <1>12 DEF TypeOK, Tool, NoTool, ResetDone
<1>13. CASE GcBegin
  BY <1>13 DEF TypeOK, Tool, NoTool, GcBegin
<1>14. CASE GcPlan
  BY <1>14 DEF TypeOK, Tool, NoTool, GcPlan
<1>15. CASE GcRemove
  BY <1>15 DEF TypeOK, Tool, NoTool, GcRemove
<1>16. CASE ToolCrash
  BY <1>16 DEF TypeOK, Tool, NoTool, ToolCrash
<1>17. ASSUME NEW d \in Dir, GcReadOverlay(d) PROVE tool'.pc \notin {"fetch", "measure", "promote"}
  BY <1>17, ReadingKeeps
<1>18. QED
  BY <1>1, <1>2, <1>3, <1>4, <1>5, <1>6, <1>7, <1>8, <1>9, <1>10, <1>11, <1>12, <1>13, <1>14, <1>15, <1>16, <1>17
     DEF Operate

LEMMA ImagesStep ==
  ASSUME TypeOK, ImagesInOrder, ManifestSealsGolden, [Next]_vars
  PROVE  ImagesInOrder' /\ ManifestSealsGolden'
<1> USE DEF ImagesInOrder, ManifestSealsGolden
<1>1. CASE UNCHANGED <<golden, stamped>> /\ (tool'.pc = "promote" => tool' = tool)
  BY <1>1
<1>2. CASE SnapshotMakeGolden /\ "disk" \in dir[tool.dir].files
  <2>1. /\ stamped' = stamped + 1 /\ stamped < MaxGolden
        /\ golden' = [golden EXCEPT ![stamped + 1].there = TRUE]
    BY <1>2 DEF SnapshotMakeGolden
  <2>2. stamped + 1 \in Golden /\ golden[stamped + 1] = NoGolden
    BY <2>1, TreeAssumption DEF TypeOK, Golden
  <2>3. golden'[stamped + 1].there /\ golden'[stamped + 1].files = {}
    BY <2>1, <2>2 DEF TypeOK, NoGolden
  <2>4. \A g \in Golden : g # stamped + 1 => golden'[g] = golden[g]
    BY <2>1 DEF TypeOK
  <2>5. ImagesInOrder'
    BY <2>1, <2>2, <2>3, <2>4 DEF TypeOK, Golden
  <2>6. ManifestSealsGolden'
    BY <2>3, <2>4
  <2>7. QED
    BY <2>5, <2>6
<1>3. CASE SnapshotPromote
  <2>1. PICK file \in NextFile : PromoteFile(file)
    BY <1>3 DEF SnapshotPromote
  <2>2. stamped' = stamped /\ tool.pc = "promote" /\ stamped \in Golden
    BY <1>3 DEF SnapshotPromote, TypeOK
  <2>3. CASE golden' = golden /\ tool' = NoTool
    BY <2>2, <2>3 DEF NoTool
  <2>4. CASE file = "manifest" \/ file \in dir[tool.dir].files
    <3>1. \A g \in Golden : g # stamped => golden'[g] = golden[g]
      BY <2>1, <2>4 DEF PromoteFile, TypeOK
    <3>2. /\ golden'[stamped].files = golden[stamped].files \cup {file}
          /\ golden'[stamped].there = golden[stamped].there
      BY <2>1, <2>2, <2>4 DEF PromoteFile, TypeOK, GoldenDir
    <3>3. tool' = IF file = "manifest" THEN NoTool ELSE tool
      BY <2>1, <2>4 DEF PromoteFile
    <3>4. golden[stamped].files \subseteq GoldenFiles
      BY <2>2 DEF TypeOK, GoldenDir
    <3>5. golden[stamped].there /\ "manifest" \notin golden[stamped].files
      BY <2>2
    <3>6. ManifestSealsGolden'
      <4>1. CASE file = "manifest"
        BY <3>1, <3>2, <3>4, <3>5, <4>1, NextFileInOrder DEF GoldenFiles
      <4>2. CASE file # "manifest"
        BY <3>1, <3>2, <3>5, <4>2
      <4>3. QED
        BY <4>1, <4>2
    <3>7. ImagesInOrder'
      <4>1. \A g \in Golden : g > stamped => golden'[g] = NoGolden
        BY <2>2, <3>1 DEF Golden
      <4>2. tool'.pc = "promote" => golden'[stamped].there /\ "manifest" \notin golden'[stamped].files
        BY <2>2, <3>2, <3>3, <3>5 DEF NoTool
      <4>3. QED
        BY <2>2, <4>1, <4>2
    <3>8. QED
      BY <3>6, <3>7
  <2>5. QED
    BY <2>1, <2>3, <2>4 DEF PromoteFile
<1>4. CASE GcRemove
  <2>1. /\ golden' = [g \in Golden |-> IF g \in tool.goldens THEN NoGolden ELSE golden[g]]
        /\ stamped' = stamped /\ tool' = NoTool
    BY <1>4 DEF GcRemove
  <2>2. ImagesInOrder'
    BY <2>1 DEF NoTool
  <2>3. ManifestSealsGolden'
    BY <2>1 DEF NoGolden
  <2>4. QED
    BY <2>2, <2>3
<1>5. CASE Serve
  <2>1. UNCHANGED <<golden, stamped, tool>>
    BY <1>5 DEF Serve, BeginBoot, SweepRead, SweepJudge, SweepRemove, LocateFails, Reuse,
       MakeSession, CreateOverlay, CopyVars, Spawn, BootUp, BeginStop, LadderKills, StopDone,
       ServerCrash
  <2>2. QED
    BY <1>1, <2>1
<1>6. CASE Operate /\ ~SnapshotMakeGolden /\ ~SnapshotPromote /\ ~GcRemove
  <2>1. UNCHANGED <<golden, stamped>>
    BY <1>6 DEF Operate, InstallBegin, InstallMakeDir, InstallDisk, ProvisionBegin, GuestSpawn, ProvisionPin,
       ProvisionPass, GuestLadder, GuestDone, SnapshotBegin, ResetBegin, ResetJudge,
       ResetRemove, ResetDone, GcBegin, GcReadOverlay, GcPlan, ToolCrash
  <2>2. tool'.pc # "promote"
    BY <1>6, OtherCommandsDoNotPromote, CommandsBegin
  <2>3. QED
    BY <1>1, <2>1, <2>2
<1>7. CASE SnapshotMakeGolden /\ "disk" \notin dir[tool.dir].files
  BY <1>1, <1>7 DEF SnapshotMakeGolden, NoTool
<1>8. CASE Host
  BY <1>1, <1>8, HostKeeps
<1>9. CASE UNCHANGED vars
  BY <1>1, <1>9 DEF vars
<1>10. QED
  BY <1>2, <1>3, <1>4, <1>5, <1>6, <1>7, <1>8, <1>9 DEF Next

(* The pinned directory: only CreateOverlay gives it an image, and only     *)
(* commands take it away.                                                   *)

LEMMA PinnedStep ==
  ASSUME TypeOK, ServerHasId, PinnedIsSafe, [Next]_vars
  PROVE  PinnedIsSafe'
<1> USE DEF PinnedIsSafe
<1>1. 0 \in Dir
  BY NullTypes
<1>2. CASE Host
  <2>1. server.pc = "overlay" => server.id \in Dir
    BY DEF ServerHasId
  <2>2. QED
    BY <1>1, <1>2, <2>1, HostKeeps
<1>3. CASE Serve
  <2>1. policy' = policy /\ tool' = tool
    BY <1>3 DEF Serve, BeginBoot, SweepRead, SweepJudge, SweepRemove, LocateFails, Reuse,
       MakeSession, CreateOverlay, CopyVars, Spawn, BootUp, BeginStop, LadderKills, StopDone,
       ServerCrash
  <2>2. ~dir'[0].build
    <3>1. CASE dir' = dir
      BY <3>1
    <3>2. CASE \E d : dir' = [dir EXCEPT ![d] = NoDir]
      BY <1>1, <3>2 DEF TypeOK, NoDir
    <3>3. SweepRemove \/ StopDone => dir' = dir \/ \E d : dir' = [dir EXCEPT ![d] = NoDir]
      BY DEF SweepRemove, StopDone
    <3>4. CASE MakeSession
      BY <1>1, <3>4 DEF TypeOK, SessionDir, MakeSession
    <3>5. CASE CreateOverlay
      BY <1>1, <3>5 DEF TypeOK, SessionDir, CreateOverlay
    <3>6. CASE CopyVars
      BY <1>1, <3>6 DEF TypeOK, SessionDir, CopyVars
    <3>7. QED
      BY <1>3, <3>1, <3>2, <3>3, <3>4, <3>5, <3>6 DEF Serve, BeginBoot, SweepRead, SweepJudge,
         LocateFails, Reuse, Spawn, BootUp, BeginStop, LadderKills, ServerCrash
  <2>3. server'.pc = "overlay" => dir'[server'.id].base = None
    <3>1. CASE MakeSession
      <4>1. SessionId \in Dir /\ dir[SessionId].base = None /\ server'.id = SessionId
        BY <3>1 DEF MakeSession, Locates, TypeOK, Server
      <4>2. QED
        BY <3>1, <4>1 DEF MakeSession, TypeOK, SessionDir
    <3>2. CASE ~MakeSession
      <4>1. server'.pc # "overlay"
        <5>1. CASE server' \in {AfterBoot, NewServer}
          BY <5>1, BootEndsIdle
        <5>2. CASE BeginBoot \/ (\E d \in Dir : SweepRead(d)) \/ SweepJudge \/ SweepRemove
          BY <5>2 DEF BeginBoot, SweepRead, SweepJudge, SweepRemove, NextEntry, TypeOK, Server
        <5>3. CASE Reuse \/ CreateOverlay \/ CopyVars
          BY <5>1, <5>3 DEF Reuse, CreateOverlay, CopyVars, TypeOK, Server
        <5>4. CASE Spawn \/ BootUp \/ BeginStop \/ LadderKills
          BY <5>4 DEF Spawn, BootUp, BeginStop, LadderKills, TypeOK, Server
        <5>5. CASE LocateFails \/ StopDone \/ ServerCrash
          BY <5>1, <5>5 DEF LocateFails, StopDone, ServerCrash
        <5>6. QED
          BY <1>3, <3>2, <5>2, <5>3, <5>4, <5>5 DEF Serve
      <4>2. QED
        BY <4>1
    <3>3. QED
      BY <3>1, <3>2
  <2>4. policy = "pinned" /\ server'.pc = "remove" => server'.at # 0
    <3>1. CASE SweepJudge
      <4>1. policy = "pinned" => SweepPreserve = {0}
        BY DEF SweepPreserve
      <4>2. PICK looks \in Looks(server.pid) :
              server' = IF looks = "foreign" \/ server.at \in SweepPreserve
                        THEN NextEntry ELSE [server EXCEPT !.pc = "remove"]
        BY <3>1 DEF SweepJudge
      <4>3. NextEntry.pc = "sweep"
        BY DEF NextEntry, TypeOK, Server
      <4>4. server'.pc = "remove" => server'.at = server.at /\ server.at \notin SweepPreserve
        BY <4>2, <4>3 DEF TypeOK, Server
      <4>5. QED
        BY <4>1, <4>4
    <3>2. CASE ~SweepJudge
      <4>1. server'.pc # "remove"
        <5>1. CASE server' \in {AfterBoot, NewServer}
          BY <5>1, BootEndsIdle
        <5>2. CASE BeginBoot \/ (\E d \in Dir : SweepRead(d)) \/ SweepRemove
          BY <5>2 DEF BeginBoot, SweepRead, SweepRemove, NextEntry, TypeOK, Server
        <5>3. CASE Reuse \/ MakeSession \/ CreateOverlay \/ CopyVars
          BY <5>1, <5>3 DEF Reuse, MakeSession, CreateOverlay, CopyVars, TypeOK, Server
        <5>4. CASE Spawn \/ BootUp \/ BeginStop \/ LadderKills
          BY <5>4 DEF Spawn, BootUp, BeginStop, LadderKills, TypeOK, Server
        <5>5. CASE LocateFails \/ StopDone \/ ServerCrash
          BY <5>1, <5>5 DEF LocateFails, StopDone, ServerCrash
        <5>6. QED
          BY <1>3, <3>2, <5>2, <5>3, <5>4, <5>5 DEF Serve
      <4>2. QED
        BY <4>1
    <3>3. QED
      BY <3>1, <3>2
  <2>5. QED
    BY <2>1, <2>2, <2>3, <2>4
<1>4. CASE Operate
  <2>1. UNCHANGED <<policy, server>>
    BY <1>4 DEF Operate, InstallBegin, InstallMakeDir, InstallDisk, ProvisionBegin, GuestSpawn, ProvisionPin,
       ProvisionPass, GuestLadder, GuestDone, SnapshotBegin, SnapshotMakeGolden, SnapshotPromote,
       ResetBegin, ResetJudge, ResetRemove, ResetDone, GcBegin, GcReadOverlay, GcPlan, GcRemove, ToolCrash
  <2>2. \A d \in Dir : /\ dir'[d].base \in {dir[d].base, None}
                       /\ dir'[d].build => dir[d].build \/ d # 0
    <3>1. CASE dir' = dir
      BY <3>1
    <3>2. CASE InstallMakeDir
      BY <3>2 DEF InstallMakeDir, TypeOK, EmptyDir, NoDir
    <3>3. CASE InstallDisk \/ ProvisionPin \/ GuestDone
      BY <3>3 DEF InstallDisk, ProvisionPin, GuestDone, TypeOK, SessionDir
    <3>4. CASE SnapshotPromote
      BY <3>1, <3>4 DEF SnapshotPromote, PromoteFile, TypeOK, SessionDir
    <3>5. CASE ResetRemove \/ GcRemove
      BY <3>5 DEF ResetRemove, GcRemove, TypeOK, NoDir
    <3>6. ASSUME NEW x \in Dir, GcReadOverlay(x), NEW d \in Dir
          PROVE  dir'[d].base \in {dir[d].base, None} /\ (dir'[d].build => dir[d].build \/ d # 0)
      BY <3>6, ReadingKeepsDir
    <3>7. QED
      BY <1>4, <3>1, <3>2, <3>3, <3>4, <3>5, <3>6 DEF Operate, InstallBegin, ProvisionBegin,
         GuestSpawn, ProvisionPass, GuestLadder, SnapshotBegin, SnapshotMakeGolden,
         ResetBegin, ResetJudge, ResetDone, GcBegin, GcPlan, ToolCrash
  <2>3. tool'.pc \in {"fetch", "measure", "promote"} => tool'.dir # 0
    <3>1. CASE SnapshotBegin
      <4>1. PICK d \in NewestBuild({"disk", "vars", "pin"}) : tool'.dir = d
        BY <3>1 DEF SnapshotBegin, NoTool
      <4>2. dir[d].build
        BY DEF NewestBuild, Newest
      <4>3. QED
        BY <4>1, <4>2
    <3>2. CASE SnapshotMakeGolden
      <4>1. tool' = NoTool \/ tool' = [tool EXCEPT !.pc = "promote"]
        BY <3>2 DEF SnapshotMakeGolden
      <4>2. tool.pc = "measure"
        BY <3>2 DEF SnapshotMakeGolden
      <4>3. QED
        BY <4>1, <4>2 DEF NoTool, TypeOK, Tool
    <3>3. CASE SnapshotPromote
      <4>1. tool' = NoTool \/ tool' = tool
        BY <3>3 DEF SnapshotPromote, PromoteFile
      <4>2. QED
        BY <4>1 DEF NoTool
    <3>4. CASE InstallBegin
      BY <3>4, CommandsBegin DEF TypeOK, Dir
    <3>5. CASE ~SnapshotBegin /\ ~SnapshotMakeGolden /\ ~SnapshotPromote /\ ~InstallBegin
      BY <1>4, <3>5, OtherCommandsDoNotPromote
    <3>6. QED
      BY <3>1, <3>2, <3>3, <3>4, <3>5
  <2>4. QED
    BY <1>1, <2>1, <2>2, <2>3 DEF ServerHasId
<1>5. CASE UNCHANGED vars
  BY <1>5 DEF vars
<1>6. QED
  BY <1>2, <1>3, <1>4, <1>5 DEF Next

LEMMA TreeInit == Init => TreeInv
<1>1. SUFFICES ASSUME Init PROVE TreeInv
  OBVIOUS
<1>2. TypeOK
  BY <1>1, InitType
<1>3. ServerHasId
  BY <1>1 DEF Init, NewServer, ServerHasId
<1>4. ImagesInOrder /\ ManifestSealsGolden
  BY <1>1, TreeAssumption DEF Init, NoTool, NoGolden, Golden, ImagesInOrder, ManifestSealsGolden
<1>5. PinnedIsSafe
  <2>1. ~dir[0].build
    <3>1. dir[0] \in {NoDir, Retained}
      BY <1>1, NullTypes DEF Init
    <3>2. ~NoDir.build /\ ~Retained.build
      BY DEF NoDir, Retained, EmptyDir
    <3>3. QED
      BY <3>1, <3>2
  <2>2. QED
    BY <1>1, <2>1 DEF Init, NewServer, NoTool, PinnedIsSafe
<1>6. QED
  BY <1>2, <1>3, <1>4, <1>5 DEF TreeInv

LEMMA TreeStep == TreeInv /\ [Next]_vars => TreeInv'
  BY NextType, ServerHasIdStep, ImagesStep, PinnedStep DEF TreeInv

LEMMA TreeAlways == Spec => []TreeInv
  BY TreeInit, TreeStep, PTL DEF Spec

-----------------------------------------------------------------------------
(* The variables of the tree keep their types in every interleaving of a    *)
(* server, a command, their QEMUs and the crashes of each.                  *)
THEOREM TreeTypes == Spec => []TypeOK
<1>1. TreeInv => TypeOK
  BY DEF TreeInv
<1>2. QED
  BY <1>1, TreeAlways, PTL

(* An image whose manifest is in place is complete, wherever snapshot was   *)
(* cut short: a boot may judge an image by its manifest alone.              *)
THEOREM ManifestSeals == Spec => []ManifestSealsGolden
<1>1. TreeInv => ManifestSealsGolden
  BY DEF TreeInv
<1>2. QED
  BY <1>1, TreeAlways, PTL

(* Only a command takes away or replaces the overlay that the pinned        *)
(* session retains: no boot, sweep, stop, crash or exit of a QEMU does.     *)
LEMMA RetainedKept ==
  ASSUME TreeInv, [Next]_vars,
         policy = "pinned", dir[0].base # None, tool' = tool
  PROVE  dir'[0].base = dir[0].base /\ dir[0].files \subseteq dir'[0].files
<1> USE DEF TreeInv
<1>1. 0 \in Dir
  BY NullTypes
<1>2. CASE dir' = dir
  BY <1>2
<1>3. CASE Host
  BY <1>1, <1>3, HostKeeps
<1>4. CASE SweepRemove
  BY <1>1, <1>2, <1>4 DEF SweepRemove, PinnedIsSafe, TypeOK
<1>5. CASE MakeSession
  BY <1>1, <1>5 DEF MakeSession, SessionId
<1>6. CASE CreateOverlay
  BY <1>1, <1>2, <1>6 DEF CreateOverlay, PinnedIsSafe, TypeOK, SessionDir
<1>7. CASE CopyVars
  BY <1>1, <1>2, <1>7 DEF CopyVars, TypeOK, SessionDir
<1>8. CASE StopDone
  BY <1>2, <1>8 DEF StopDone
<1>9. CASE SnapshotPromote
  <2>1. tool.dir # 0
    BY <1>9 DEF SnapshotPromote, PinnedIsSafe
  <2>2. QED
    BY <1>1, <1>2, <1>9, <2>1 DEF SnapshotPromote, PromoteFile, TypeOK
<1>10. CASE InstallMakeDir \/ InstallDisk \/ ProvisionPin \/ GuestDone \/ ResetRemove \/ GcRemove
  <2>1. tool.pc # tool'.pc
    <3>1. CASE InstallMakeDir
      BY <3>1 DEF InstallMakeDir, TypeOK, Tool
    <3>2. CASE InstallDisk \/ ProvisionPin
      BY <3>2 DEF InstallDisk, ProvisionPin, TypeOK, Tool
    <3>3. CASE GuestDone
      BY <3>3 DEF GuestDone, NoTool
    <3>4. CASE ResetRemove \/ GcRemove
      BY <3>4 DEF ResetRemove, GcRemove, TypeOK, Tool, NoTool
    <3>5. QED
      BY <1>10, <3>1, <3>2, <3>3, <3>4
  <2>2. QED
    BY <2>1
<1>11. ASSUME NEW x \in Dir, GcReadOverlay(x)
       PROVE  dir'[0].base = dir[0].base /\ dir[0].files \subseteq dir'[0].files
  BY <1>1, <1>11, ReadingKeepsDir
<1>12. QED
  BY <1>2, <1>3, <1>4, <1>5, <1>6, <1>7, <1>8, <1>9, <1>10, <1>11 DEF Next, Serve, Operate, vars,
     BeginBoot, SweepRead, SweepJudge, LocateFails, Reuse, Spawn, BootUp, BeginStop,
     LadderKills, ServerCrash, InstallBegin, ProvisionBegin, GuestSpawn, ProvisionPass, GuestLadder,
     SnapshotBegin, SnapshotMakeGolden, ResetBegin, ResetJudge, ResetDone, GcBegin, GcPlan,
     ToolCrash

(* prepareOrReuse, sweepPreserve: the retained overlay of a pinned session  *)
(* survives any number of servers.                                          *)
THEOREM RetainedSurvives == Spec => RetainedSurvivesServers
<1>1. TreeInv /\ [Next]_vars =>
        [policy = "pinned" /\ dir[0].base # None /\ tool' = tool =>
           /\ dir'[0].base = dir[0].base
           /\ dir[0].files \subseteq dir'[0].files]_vars
  BY RetainedKept
<1>2. QED
  BY <1>1, TreeAlways, PTL DEF Spec, RetainedSurvivesServers

-----------------------------------------------------------------------------
(* Fresh directories and orphans: what the sweep, reset and gc leave alone. *)

(* Names of directories are handed out in order: nothing there is of a      *)
(* directory that has no name yet, and no QEMU or command is about one.  A  *)
(* boot that makes an overlay has located an image, and only a gc plans.    *)
NamesInOrder ==
  /\ server.pc = "overlay" => server.golden \in Golden
  /\ tool.pc = "plan" => tool.cmd = "gc"
  /\ \A d \in Dir : d > named => dir[d] = NoDir
  /\ \A i \in Vm : vm[i].dir <= named
  /\ tool.dir <= named
  /\ \A d \in tool.todo : d <= named

(* A command works on a directory that is its own.                          *)
Working == {"fetch", "disk", "spawn", "guest", "pinned", "passed", "killed", "measure", "promote"}

(* The directories a command under way is about to remove.                  *)
Doomed == IF tool.cmd = "gc" THEN tool.todo
          ELSE IF tool.cmd = "reset" /\ tool.pc = "remove" THEN {tool.dir} ELSE {}

(* Under discard the directory of a boot is fresh: no other QEMU and no     *)
(* command is about it, and until its QEMU has come and gone it has its     *)
(* overlay and no pidfile but that QEMU's.                                  *)
Booting_ == {"overlay", "vars", "spawn"}
FreshDirIsOwn ==
  policy = "discard" /\ server.pc \in Booting_ \cup {"starting", "up"} =>
    /\ server.id \in Dir /\ server.id <= named /\ ~dir[server.id].build
    /\ \A i \in Vm : vm[i].st \in {"starting", "run"} /\ vm[i].dir = server.id =>
                     server.pc \in {"starting", "up"} /\ i = server.vm
    /\ tool.pc \in Working => tool.dir # server.id
    /\ server.pc \in Booting_ =>
         /\ dir[server.id].there /\ dir[server.id].pid = None /\ server.id \notin Doomed
         /\ server.pc # "overlay" => dir[server.id].base # None
    /\ server.pc \in {"starting", "up"} =>
         /\ server.vm \in Vm /\ vm[server.vm].st # "none"
         /\ vm[server.vm].st \in {"starting", "run"} =>
              /\ vm[server.vm].dir = server.id /\ dir[server.id].there
              /\ dir[server.id].base # None /\ server.id \notin Doomed
              /\ dir[server.id].pid = IF vm[server.vm].st = "run" THEN server.vm ELSE None

(* A pidfile lies in a directory.  What the sweep has still to meet: an     *)
(* orphan whose pidfile is there is in a directory it has not read, or the  *)
(* one it is about to kill.                                                 *)
SweepMeetsOrphans ==
  /\ \A d \in Dir : dir[d].pid # None => dir[d].there
  /\ server.pc \in {"sweep", "judge", "remove"} =>
       \A i \in server.orphans :
         /\ vm[i].st \notin {"none", "starting"}
         /\ vm[i].st = "run" /\ dir[vm[i].dir].pid = i =>
              \/ vm[i].dir \in server.todo
              \/ server.pc = "judge" /\ server.at = vm[i].dir /\ server.pid = i

SessionInv == TreeInv /\ NamesInOrder /\ FreshDirIsOwn /\ SweepMeetsOrphans

(* A directory that is there has a name, and so has everything a command    *)
(* or a boot takes from the tree.                                           *)
LEMMA ThereIsNamed ==
  ASSUME TypeOK, NamesInOrder, NEW d \in Dir, dir[d].there
  PROVE  d <= named
<1>1. ~NoDir.there /\ named \in Nat /\ d \in Nat
  BY DEF NoDir, TypeOK, Dir
<1>2. QED
  BY <1>1 DEF NamesInOrder

LEMMA DirSteps ==
  ASSUME TypeOK, ServerHasId, NamesInOrder, [Next]_vars
  PROVE  /\ named \in Nat /\ named' \in Nat /\ named <= named'
         /\ \A d \in Dir : d \in Nat /\ (d > named' => dir'[d] = NoDir)
<1>1. named \in Nat /\ named' \in Nat /\ \A d \in Dir : d \in Nat
  BY NextType DEF TypeOK, Dir
<1>2. named <= named'
  <2>1. CASE named' = named
    BY <1>1, <2>1
  <2>2. CASE Reuse \/ MakeSession \/ InstallBegin
    <3>1. named' = named + 1 \/ named' = named \/ (SessionId > named /\ named' = SessionId)
      BY <2>2 DEF Reuse, MakeSession, Locates, InstallBegin
    <3>2. QED
      BY <1>1, <3>1
  <2>3. QED
    BY <2>1, <2>2 DEF Next, Serve, Host, Operate, vars, BeginBoot, SweepRead, SweepJudge, SweepRemove,
       LocateFails, CreateOverlay, CopyVars, Spawn, BootUp, BeginStop, LadderKills, StopDone,
       ServerCrash, QemuReady, QemuExits, Reaped, PidRecycled, AlienExits, InstallMakeDir,
       InstallDisk, ProvisionBegin, GuestSpawn, ProvisionPin, ProvisionPass, GuestLadder, GuestDone,
       SnapshotBegin, SnapshotMakeGolden, SnapshotPromote, ResetBegin, ResetJudge, ResetRemove,
       ResetDone, GcBegin, GcReadOverlay, GcPlan, GcRemove, ToolCrash
<1>3. \A d \in Dir : /\ d > named' => dir[d] = NoDir
                     /\ d <= named => d <= named'
  BY <1>1, <1>2 DEF NamesInOrder
<1>4. ASSUME NEW e \in Dir, e <= named', NEW x, dir' = dir \/ dir' = [dir EXCEPT ![e] = x]
      PROVE  \A d \in Dir : d > named' => dir'[d] = NoDir
  BY <1>1, <1>3, <1>4 DEF TypeOK
<1>5. ASSUME NEW d \in Dir, d > named' PROVE dir'[d] = NoDir
  <2>1. CASE dir' = dir
    BY <1>3, <1>5, <2>1
  <2>2. CASE SweepRemove \/ StopDone \/ ResetRemove \/ GcRemove
    BY <1>3, <1>5, <2>2 DEF SweepRemove, StopDone, ResetRemove, GcRemove, TypeOK
  <2>3. CASE MakeSession
    <3>1. SessionId \in Dir /\ SessionId <= named'
      BY <1>1, <2>3 DEF MakeSession, Locates
    <3>2. QED
      BY <1>4, <1>5, <2>3, <3>1 DEF MakeSession
  <2>4. CASE CreateOverlay \/ CopyVars
    <3>1. server.id \in Dir
      BY <2>4 DEF CreateOverlay, CopyVars, ServerHasId
    <3>2. dir' = dir \/ server.id <= named'
      BY <1>1, <1>2, <2>4, <3>1, ThereIsNamed DEF CreateOverlay, CopyVars
    <3>3. QED
      BY <1>4, <1>5, <2>1, <2>4, <3>1, <3>2 DEF CreateOverlay, CopyVars
  <2>5. CASE InstallMakeDir \/ InstallDisk \/ ProvisionPin \/ GuestDone \/ SnapshotPromote
    <3>1. tool.dir \in Dir /\ tool.dir <= named'
      BY <1>3 DEF TypeOK, Tool, NamesInOrder
    <3>2. QED
      BY <1>4, <1>5, <2>5, <3>1 DEF InstallMakeDir, InstallDisk, ProvisionPin, GuestDone, SnapshotPromote,
         PromoteFile
  <2>6. ASSUME NEW i \in Vm, QemuReady(i) \/ QemuExits(i) PROVE dir'[d] = NoDir
    <3>1. vm[i].dir \in Dir /\ vm[i].dir <= named'
      BY <1>3 DEF TypeOK, VmProcess, NamesInOrder
    <3>2. QED
      BY <1>4, <1>5, <2>6, <3>1 DEF QemuReady, QemuExits
  <2>7. ASSUME NEW x \in Dir, GcReadOverlay(x) PROVE dir'[d] = NoDir
    BY <1>3, <1>5, <2>7, ReadingKeepsDir
  <2>8. QED
    BY <2>1, <2>2, <2>3, <2>4, <2>5, <2>6, <2>7 DEF Next, Serve, Host, Operate, vars, BeginBoot, SweepRead,
       SweepJudge, LocateFails, Reuse, Spawn, BootUp, BeginStop, LadderKills, ServerCrash, Reaped,
       PidRecycled, AlienExits, InstallBegin, ProvisionBegin, GuestSpawn, ProvisionPass, GuestLadder,
       SnapshotBegin, SnapshotMakeGolden, ResetBegin, ResetJudge, ResetDone, GcBegin, GcPlan, ToolCrash
<1>6. QED
  BY <1>1, <1>2, <1>5

(* The QEMUs: one is spawned in a directory that is there, by the server    *)
(* or by a command; else they go from starting to run to gone, and none     *)
(* comes back.                                                              *)
VmStep(i) ==
  \/ vm'[i] = vm[i]
  \/ /\ vm[i].st = "none" /\ vm'[i].st = "starting" /\ dir[vm'[i].dir].there /\ vm'[i].dir \in Dir
     /\ \/ Spawn /\ server'.vm = i /\ server'.pc = "starting" /\ vm'[i].dir = server.id
        \/ GuestSpawn /\ vm'[i].dir = tool.dir
  \/ /\ vm[i].st = "starting" /\ vm'[i].st = "run" /\ vm'[i].dir = vm[i].dir
     /\ dir[vm[i].dir].there /\ dir' = [dir EXCEPT ![vm[i].dir].pid = i]
  \/ vm[i].st # "none" /\ vm'[i].st \in {"dying", "gone", "alien"}
     /\ vm'[i].dir \in {0, vm[i].dir}

LEMMA VmSteps ==
  ASSUME TypeOK, ServerHasId, [Next]_vars, NEW i \in Vm
  PROVE  VmStep(i)
<1> USE DEF VmStep
<1>1. vm[i] \in VmProcess
  BY DEF TypeOK
<1>2. CASE vm' = vm
  BY <1>2
<1>3. ASSUME NEW j, Live(j) \/ vm[j].st = "dying", vm' = Killed(j) PROVE VmStep(i)
  BY <1>1, <1>3 DEF TypeOK, Live, Killed, VmProcess
<1>4. CASE SweepJudge
  <2>1. CASE vm' # vm
    <3>1. vm' = Killed(server.pid) /\ "ours" \in Looks(server.pid)
      BY <1>4, <2>1 DEF SweepJudge
    <3>2. Live(server.pid) \/ vm[server.pid].st = "dying"
      BY <3>1 DEF Looks
    <3>3. QED
      BY <1>3, <3>1, <3>2
  <2>2. QED
    BY <1>2, <2>1
<1>5. CASE LadderKills \/ GuestLadder
  BY <1>3, <1>5 DEF LadderKills, GuestLadder
<1>6. CASE Spawn
  <2>1. server.id \in Dir
    BY <1>6 DEF Spawn, ServerHasId
  <2>2. CASE dir[server.id].there
    <3>1. PICK j \in NextVm : vm' = Spawned(j, server.id)
                              /\ server' = [server EXCEPT !.pc = "starting", !.vm = j]
      BY <1>6, <2>2 DEF Spawn
    <3>2. vm[j].st = "none" /\ server'.vm = j /\ server'.pc = "starting"
      BY <3>1 DEF NextVm, TypeOK, Server
    <3>3. QED
      BY <1>1, <1>6, <2>1, <2>2, <3>1, <3>2 DEF Spawned, TypeOK
  <2>3. QED
    BY <1>2, <1>6, <2>2 DEF Spawn
<1>7. CASE GuestSpawn
  <2>1. tool.dir \in Dir
    BY DEF TypeOK, Tool
  <2>2. CASE dir[tool.dir].there
    <3>1. PICK j \in NextVm : vm' = Spawned(j, tool.dir)
      BY <1>7, <2>2 DEF GuestSpawn
    <3>2. vm[j].st = "none"
      BY <3>1 DEF NextVm
    <3>3. QED
      BY <1>1, <1>7, <2>1, <2>2, <3>1, <3>2 DEF Spawned, TypeOK
  <2>3. QED
    BY <1>2, <1>7, <2>2 DEF GuestSpawn
<1>8. ASSUME NEW j \in Vm, QemuReady(j) PROVE VmStep(i)
  BY <1>1, <1>8 DEF QemuReady, TypeOK, VmProcess
<1>9. ASSUME NEW j \in Vm, QemuExits(j) \/ Reaped(j) PROVE VmStep(i)
  <2>1. vm' = Gone(j) /\ vm[j].st # "none"
    BY <1>9 DEF QemuExits, Reaped, Live
  <2>2. QED
    BY <1>1, <2>1 DEF Gone, TypeOK
<1>10. ASSUME NEW j \in Vm, PidRecycled(j) \/ AlienExits(j) PROVE VmStep(i)
  BY <1>1, <1>10 DEF PidRecycled, AlienExits, TypeOK, VmProcess
<1>11. QED
  BY <1>2, <1>4, <1>5, <1>6, <1>7, <1>8, <1>9, <1>10 DEF Next, Serve, Host, Operate, vars, BeginBoot, SweepRead,
     SweepRemove, LocateFails, Reuse, MakeSession, CreateOverlay, CopyVars, BootUp, BeginStop, StopDone,
     ServerCrash, InstallBegin, InstallMakeDir, InstallDisk, ProvisionBegin, ProvisionPin,
     ProvisionPass, GuestDone, SnapshotBegin, SnapshotMakeGolden, SnapshotPromote, ResetBegin,
     ResetJudge, ResetRemove, ResetDone, GcBegin, GcReadOverlay, GcPlan, GcRemove, ToolCrash

(* A boot comes to its overlay by making a session directory.               *)
LEMMA OnlyMakeSession ==
  ASSUME TypeOK, ServerHasId, [Next]_vars, ~MakeSession, server' # server
  PROVE  server'.pc # "overlay"
<1>1. server \in Server /\ NewServer.pc = "idle" /\ AfterBoot.pc = "idle"
  BY BootEndsIdle DEF TypeOK
<1>2. NextEntry.pc = "sweep"
  BY <1>1 DEF NextEntry, Server
<1>3. CASE BeginBoot \/ (\E d \in Dir : SweepRead(d)) \/ SweepJudge \/ SweepRemove
  BY <1>1, <1>2, <1>3 DEF BeginBoot, SweepRead, SweepJudge, SweepRemove, Server
<1>4. CASE LocateFails \/ Reuse \/ StopDone \/ ServerCrash
  BY <1>1, <1>4 DEF LocateFails, Reuse, StopDone, ServerCrash, Server
<1>5. CASE CreateOverlay \/ CopyVars
  BY <1>1, <1>5 DEF CreateOverlay, CopyVars, Server
<1>6. CASE Spawn \/ BootUp \/ BeginStop
  BY <1>1, <1>6 DEF Spawn, BootUp, BeginStop, Server
<1>7. ~LadderKills /\ ~Host /\ ~UNCHANGED vars
  BY HostKeeps DEF LadderKills, vars
<1>8. ~Operate
  BY DEF Operate, InstallBegin, InstallMakeDir, InstallDisk, ProvisionBegin, GuestSpawn, ProvisionPin,
     ProvisionPass, GuestLadder, GuestDone, SnapshotBegin, SnapshotMakeGolden, SnapshotPromote,
     ResetBegin, ResetJudge, ResetRemove, ResetDone, GcBegin, GcReadOverlay, GcPlan, GcRemove, ToolCrash
<1>9. QED
  BY <1>3, <1>4, <1>5, <1>6, <1>7, <1>8 DEF Next, Serve

(* The server rests while a command or a QEMU moves.                        *)
LEMMA ServerRests ==
  ASSUME Host \/ Operate
  PROVE  server' = server /\ policy' = policy
  BY DEF Host, QemuReady, QemuExits, Reaped, PidRecycled, AlienExits, Operate,
     InstallBegin, InstallMakeDir, InstallDisk, ProvisionBegin, GuestSpawn, ProvisionPin, ProvisionPass,
     GuestLadder, GuestDone, SnapshotBegin, SnapshotMakeGolden, SnapshotPromote,
     ResetBegin, ResetJudge, ResetRemove, ResetDone, GcBegin, GcReadOverlay, GcPlan, GcRemove, ToolCrash

LEMMA CommandRests ==
  ASSUME Serve
  PROVE  tool' = tool /\ policy' = policy
  BY DEF Serve, BeginBoot, SweepRead, SweepJudge, SweepRemove, LocateFails, Reuse, MakeSession,
     CreateOverlay, CopyVars, Spawn, BootUp, BeginStop, LadderKills, StopDone, ServerCrash

LEMMA PlansAreGcs ==
  ASSUME TypeOK, [Next]_vars, tool.pc = "plan" => tool.cmd = "gc", tool'.pc = "plan"
  PROVE  tool'.cmd = "gc"
<1>1. tool \in Tool /\ NoTool.pc = "idle"
  BY DEF TypeOK, NoTool
<1>2. CASE tool' = tool
  BY <1>2
<1>3. CASE GcBegin
  BY <1>3 DEF GcBegin, NoTool
<1>4. CASE ~GcBegin /\ tool' # tool
  <2>1. Operate
    BY <1>4, CommandRests, HostKeeps DEF Next, vars
  <2>2. CASE \E x \in Dir : GcReadOverlay(x)
    BY <2>2, ReadingKeeps
  <2>3. QED
    BY <1>1, <1>4, <2>1, <2>2 DEF Operate, Tool, NoTool,
       InstallBegin, InstallMakeDir, InstallDisk, ProvisionBegin, GuestSpawn, ProvisionPin, ProvisionPass,
       GuestLadder, GuestDone, SnapshotBegin, SnapshotMakeGolden, SnapshotPromote, PromoteFile,
       ResetBegin, ResetJudge, ResetRemove, ResetDone, GcPlan, GcRemove, ToolCrash
<1>5. QED
  BY <1>2, <1>3, <1>4

LEMMA NamesStep ==
  ASSUME TypeOK, ServerHasId, NamesInOrder, [Next]_vars
  PROVE  NamesInOrder'
<1>1. /\ named \in Nat /\ named' \in Nat /\ named <= named'
      /\ \A d \in Dir : d \in Nat /\ (d > named' => dir'[d] = NoDir)
  BY DirSteps
<1>2. ASSUME NEW d \in Dir, d <= named PROVE d <= named'
  BY <1>1, <1>2
<1>3. TypeOK' /\ 0 \in Dir /\ 0 <= named'
  BY <1>1, NextType, NullTypes
<1>4. ASSUME NEW i \in Vm PROVE vm'[i].dir <= named'
  <2>1. vm[i].dir \in Dir /\ vm[i].dir <= named
    BY DEF TypeOK, VmProcess, NamesInOrder
  <2>2. VmStep(i)
    BY VmSteps
  <2>3. CASE vm'[i].dir \in Dir /\ dir[vm'[i].dir].there
    BY <1>2, <2>3, ThereIsNamed
  <2>4. QED
    BY <1>2, <1>3, <2>1, <2>2, <2>3 DEF VmStep
<1>5. tool.dir \in Dir /\ tool.dir <= named' /\ \A d \in tool.todo : d \in Dir /\ d <= named'
  BY <1>2 DEF NamesInOrder, TypeOK, Tool
<1>6. tool'.dir <= named' /\ \A d \in tool'.todo : d <= named'
  <2>1. CASE tool' = NoTool
    BY <1>3, <2>1 DEF NoTool
  <2>2. CASE tool'.dir = tool.dir /\ tool'.todo \subseteq tool.todo
    BY <1>5, <2>2
  <2>3. CASE InstallBegin
    BY <1>1, <2>3 DEF InstallBegin, NoTool
  <2>4. CASE ProvisionBegin \/ SnapshotBegin
    <3>1. PICK d \in Existing : tool'.dir = d /\ tool'.todo = {}
      BY <2>4 DEF ProvisionBegin, SnapshotBegin, NewestBuild, Newest, NoTool
    <3>2. QED
      BY <1>2, <3>1, ThereIsNamed DEF Existing
  <2>5. CASE ResetBegin \/ GcBegin
    <3>1. tool'.dir = 0 /\ tool'.todo \subseteq Existing
      BY <2>5 DEF ResetBegin, GcBegin, NoTool
    <3>2. QED
      BY <1>2, <1>3, <3>1, ThereIsNamed DEF Existing
  <2>6. ASSUME NEW d \in Dir, ResetJudge(d) PROVE tool'.dir <= named' /\ \A e \in tool'.todo : e <= named'
    BY <1>5, <2>6 DEF ResetJudge, TypeOK, Tool
  <2>7. CASE InstallMakeDir \/ InstallDisk \/ ProvisionPin \/ ProvisionPass \/ GuestLadder \/ ResetRemove
             \/ GcPlan
    BY <1>5, <2>7 DEF InstallMakeDir, InstallDisk, ProvisionPin, ProvisionPass, GuestLadder, ResetRemove,
       GcPlan, TypeOK, Tool
  <2>8. CASE GuestSpawn
    <3>1. tool' = NoTool \/ \E i : tool' = [tool EXCEPT !.pc = "guest", !.vm = i]
      BY <2>8 DEF GuestSpawn
    <3>2. QED
      BY <1>5, <2>1, <3>1 DEF TypeOK, Tool
  <2>9. CASE SnapshotMakeGolden \/ SnapshotPromote
    <3>1. tool' = NoTool \/ tool' = tool \/ tool' = [tool EXCEPT !.pc = "promote"]
      BY <2>9 DEF SnapshotMakeGolden, SnapshotPromote, PromoteFile
    <3>2. QED
      BY <1>5, <2>1, <3>1 DEF TypeOK, Tool
  <2>10. CASE GuestDone \/ ResetDone \/ GcRemove \/ ToolCrash
    BY <2>1, <2>10 DEF GuestDone, ResetDone, GcRemove, ToolCrash
  <2>11. CASE tool' = tool
    BY <2>2, <2>11
  <2>12. CASE Serve
    BY <2>11, <2>12 DEF Serve, BeginBoot, SweepRead, SweepJudge, SweepRemove, LocateFails, Reuse, MakeSession,
       CreateOverlay, CopyVars, Spawn, BootUp, BeginStop, LadderKills, StopDone, ServerCrash
  <2>13. CASE \E x \in Dir : GcReadOverlay(x)
    BY <1>5, <2>13, ReadingKeeps
  <2>14. QED
    BY <2>3, <2>4, <2>5, <2>6, <2>7, <2>8, <2>9, <2>10, <2>11, <2>12, <2>13, HostKeeps DEF Next, Operate, vars
<1>7. server'.pc = "overlay" => server'.golden \in Golden
  <2>1. CASE server' = server
    BY <2>1 DEF NamesInOrder
  <2>2. CASE MakeSession
    <3>1. PICK g \in LocateGolden :
            server' = [server EXCEPT !.pc = "overlay", !.id = SessionId, !.golden = g, !.orphans = {}]
      BY <2>2 DEF MakeSession
    <3>2. g \in Golden
      BY DEF LocateGolden, Newest, Images
    <3>3. QED
      BY <3>1, <3>2 DEF TypeOK, Server
  <2>3. CASE ~MakeSession /\ server' # server
    <3>1. server'.pc # "overlay"
      BY <2>3, OnlyMakeSession
    <3>2. QED
      BY <3>1
  <2>4. QED
    BY <2>1, <2>2, <2>3
<1>8. tool'.pc = "plan" => tool'.cmd = "gc"
  BY <1>3, PlansAreGcs DEF NamesInOrder
<1>9. QED
  BY <1>1, <1>4, <1>6, <1>7, <1>8 DEF NamesInOrder


(* What a step may do to a directory: a QEMU comes to it or leaves it,      *)
(* somebody removes it, install makes it; else what it has it keeps.        *)
Removers(d) ==
  \/ SweepRemove /\ d = server.at
  \/ StopDone /\ d = server.id
  \/ ResetRemove /\ d = tool.dir
  \/ GcRemove /\ d \in tool.todo
Keeps(d) ==
  /\ dir'[d].build = dir[d].build /\ (dir[d].there => dir'[d].there)
  /\ dir[d].base # None => dir'[d].base # None
DirStep(d) ==
  \/ Keeps(d) /\ dir'[d].pid = dir[d].pid
  \/ Keeps(d) /\ \E i \in Vm : /\ vm[i].st = "starting" /\ vm'[i].st = "run" /\ vm[i].dir = d
                              /\ dir[d].there /\ dir'[d].pid = i
  \/ Keeps(d) /\ dir'[d].pid = None /\ \E i \in Vm : vm'[i].st = "gone" /\ dir[d].pid = i
  \/ dir'[d] = NoDir /\ Removers(d)
  \/ dir'[d] = EmptyDir(TRUE) /\ InstallMakeDir /\ d = tool.dir

LEMMA DirStepped ==
  ASSUME TypeOK, ServerHasId, NamesInOrder, [Next]_vars, NEW d \in Dir
  PROVE  DirStep(d)
<1>1. dir \in [Dir -> SessionDir] /\ dir[d] \in SessionDir
  BY DEF TypeOK
<1>2. ASSUME Keeps(d), dir'[d].pid = dir[d].pid
      PROVE  DirStep(d)
  BY <1>2 DEF DirStep
<1>3. CASE SweepRemove \/ StopDone \/ ResetRemove \/ GcRemove
  <2>1. dir'[d] = dir[d] \/ (dir'[d] = NoDir /\ Removers(d))
    BY <1>1, <1>3 DEF SweepRemove, StopDone, ResetRemove, GcRemove, Removers
  <2>2. QED
    BY <2>1 DEF DirStep, Keeps
<1>4. CASE MakeSession
  <2>1. Keeps(d) /\ dir'[d].pid = dir[d].pid
    BY <1>1, <1>4 DEF MakeSession, SessionDir, Keeps
  <2>2. QED
    BY <1>2, <2>1
<1>5. CASE CreateOverlay
  <2>1. dir' = dir \/ dir' = [dir EXCEPT ![server.id].base = server.golden]
    BY <1>5 DEF CreateOverlay
  <2>2. server.golden # None
    BY <1>5, TreeAssumption DEF CreateOverlay, NamesInOrder, Golden
  <2>3. Keeps(d) /\ dir'[d].pid = dir[d].pid
    BY <1>1, <2>1, <2>2 DEF SessionDir, Keeps
  <2>4. QED
    BY <1>2, <2>3
<1>6. CASE CopyVars
  <2>1. Keeps(d) /\ dir'[d].pid = dir[d].pid
    BY <1>1, <1>6 DEF CopyVars, SessionDir, Keeps
  <2>2. QED
    BY <1>2, <2>1
<1>7. CASE InstallMakeDir
  <2>1. dir'[d] = dir[d] \/ (dir'[d] = EmptyDir(TRUE) /\ d = tool.dir)
    BY <1>1, <1>7 DEF InstallMakeDir
  <2>2. QED
    BY <1>7, <2>1 DEF DirStep, Keeps
<1>8. CASE InstallDisk \/ ProvisionPin \/ GuestDone \/ SnapshotPromote
  <2>1. dir' = dir \/ (\E F : dir' = [dir EXCEPT ![tool.dir].files = F])
          \/ (\E b : dir' = [dir EXCEPT ![tool.dir].passed = b])
    BY <1>8 DEF InstallDisk, ProvisionPin, GuestDone, SnapshotPromote, PromoteFile
  <2>2. CASE dir' = dir
    BY <1>2, <2>2 DEF Keeps
  <2>3. ASSUME NEW F, dir' = [dir EXCEPT ![tool.dir].files = F] PROVE DirStep(d)
    <3>1. Keeps(d) /\ dir'[d].pid = dir[d].pid
      BY <1>1, <2>3 DEF SessionDir, Keeps
    <3>2. QED
      BY <1>2, <3>1
  <2>4. ASSUME NEW b, dir' = [dir EXCEPT ![tool.dir].passed = b] PROVE DirStep(d)
    <3>1. Keeps(d) /\ dir'[d].pid = dir[d].pid
      BY <1>1, <2>4 DEF SessionDir, Keeps
    <3>2. QED
      BY <1>2, <3>1
  <2>5. QED
    BY <2>1, <2>2, <2>3, <2>4
<1>9. ASSUME NEW i \in Vm, QemuReady(i) PROVE DirStep(d)
  <2>1. /\ vm[i].st = "starting" /\ vm'[i].st = "run" /\ dir[vm[i].dir].there /\ vm[i].dir \in Dir
        /\ dir' = [dir EXCEPT ![vm[i].dir].pid = i]
    BY <1>9 DEF QemuReady, TypeOK, VmProcess
  <2>2. CASE d = vm[i].dir
    <3>1. Keeps(d) /\ dir'[d].pid = i
      BY <1>1, <2>1, <2>2 DEF SessionDir, Keeps
    <3>2. QED
      BY <2>1, <2>2, <3>1 DEF DirStep
  <2>3. CASE d # vm[i].dir
    BY <1>1, <2>1, <2>3 DEF DirStep, Keeps
  <2>4. QED
    BY <2>2, <2>3
<1>10. ASSUME NEW i \in Vm, QemuExits(i) PROVE DirStep(d)
  <2>1. vm'[i].st = "gone" /\ vm[i].dir \in Dir
    BY <1>10 DEF QemuExits, Gone, TypeOK, VmProcess
  <2>2. dir' \in {dir, [dir EXCEPT ![vm[i].dir].pid = IF @ = i THEN None ELSE @]}
    BY <1>10 DEF QemuExits
  <2>3. dir'[d] = dir[d] \/ (dir[d].pid = i /\ dir'[d] = [dir[d] EXCEPT !.pid = None])
    BY <1>1, <2>1, <2>2 DEF SessionDir
  <2>4. CASE dir'[d] = dir[d]
    BY <2>4 DEF DirStep, Keeps
  <2>5. CASE dir[d].pid = i /\ dir'[d] = [dir[d] EXCEPT !.pid = None]
    <3>1. Keeps(d) /\ dir'[d].pid = None
      BY <1>1, <2>5 DEF SessionDir, Keeps
    <3>2. QED
      BY <2>1, <2>5, <3>1 DEF DirStep
  <2>6. QED
    BY <2>3, <2>4, <2>5
<1>11. CASE dir' = dir
  BY <1>2, <1>11 DEF Keeps
<1>12. ASSUME NEW x \in Dir, GcReadOverlay(x) PROVE DirStep(d)
  BY <1>2, <1>12, ReadingKeepsDir DEF Keeps
<1>13. QED
  BY <1>3, <1>4, <1>5, <1>6, <1>7, <1>8, <1>9, <1>10, <1>11, <1>12 DEF Next, Serve, Host, Operate, vars, BeginBoot,
     SweepRead, SweepJudge, LocateFails, Reuse, Spawn, BootUp, BeginStop, LadderKills, ServerCrash, Reaped,
     PidRecycled, AlienExits, InstallBegin, ProvisionBegin, GuestSpawn, ProvisionPass, GuestLadder,
     SnapshotBegin, SnapshotMakeGolden, ResetBegin, ResetJudge, ResetDone, GcBegin, GcPlan, ToolCrash

(* A command comes to work on a build or on a new name, and condemns only   *)
(* what is stale.                                                           *)
LEMMA ToolSteps ==
  ASSUME TypeOK, NamesInOrder, Operate
  PROVE  /\ tool'.pc \in Working => \/ tool.pc \in Working /\ tool'.dir = tool.dir
                                    \/ tool'.dir = named + 1
                                    \/ tool'.dir \in Dir /\ dir[tool'.dir].build
         /\ Doomed' \subseteq Doomed \cup {d \in Dir : Stale(d)}
<1> USE DEF Working, Doomed
<1>1. tool \in Tool
  BY DEF TypeOK
<1>2. ASSUME tool' = NoTool
      PROVE  tool'.pc \notin Working /\ Doomed' = {}
  BY <1>2, TreeAssumption DEF NoTool
<1>3. CASE InstallBegin
  BY <1>3 DEF InstallBegin, NoTool
<1>4. CASE InstallMakeDir \/ InstallDisk \/ ProvisionPin \/ ProvisionPass \/ GuestLadder
  BY <1>1, <1>4 DEF InstallMakeDir, InstallDisk, ProvisionPin, ProvisionPass, GuestLadder, Tool
<1>5. CASE ProvisionBegin \/ SnapshotBegin
  <2>1. PICK d \in Dir : /\ tool'.dir = d /\ dir[d].build
                         /\ tool'.cmd \in {"provision", "snapshot"}
    BY <1>5 DEF ProvisionBegin, SnapshotBegin, NewestBuild, Newest, Existing, NoTool
  <2>2. QED
    BY <2>1
<1>6. CASE GuestSpawn
  <2>1. tool' = NoTool \/ \E i : tool' = [tool EXCEPT !.pc = "guest", !.vm = i]
    BY <1>6 DEF GuestSpawn
  <2>2. tool.pc = "spawn"
    BY <1>6 DEF GuestSpawn
  <2>3. QED
    BY <1>1, <1>2, <2>1, <2>2 DEF Tool
<1>7. CASE SnapshotMakeGolden \/ SnapshotPromote
  <2>1. tool' = NoTool \/ tool' = tool \/ tool' = [tool EXCEPT !.pc = "promote"]
    BY <1>7 DEF SnapshotMakeGolden, SnapshotPromote, PromoteFile
  <2>2. tool.pc \in {"measure", "promote"}
    BY <1>7 DEF SnapshotMakeGolden, SnapshotPromote
  <2>3. QED
    BY <1>1, <1>2, <2>1, <2>2 DEF Tool
<1>8. CASE ResetBegin
  BY <1>8 DEF ResetBegin, NoTool
<1>9. ASSUME NEW d \in Dir, ResetJudge(d)
      PROVE  /\ tool'.pc \notin Working
             /\ Doomed' \subseteq Doomed \cup {e \in Dir : Stale(e)}
  <2>1. /\ tool'.cmd = tool.cmd /\ tool'.dir = d /\ tool'.todo \subseteq tool.todo
        /\ tool'.pc = IF Stale(d) THEN "remove" ELSE "judge"
    BY <1>1, <1>9 DEF ResetJudge, Tool
  <2>2. QED
    BY <2>1
<1>10. CASE ResetRemove \/ GcPlan
  BY <1>1, <1>10 DEF ResetRemove, GcPlan, Tool, NamesInOrder
<1>11. CASE GcBegin
  BY <1>11 DEF GcBegin, NoTool, Existing
<1>12. CASE GuestDone \/ ResetDone \/ GcRemove \/ ToolCrash
  BY <1>2, <1>12 DEF GuestDone, ResetDone, GcRemove, ToolCrash
<1>13. ASSUME NEW d \in Dir, GcReadOverlay(d)
      PROVE  tool'.pc \notin Working /\ Doomed' = Doomed
  BY <1>13, ReadingKeeps
<1>14. QED
  BY <1>3, <1>4, <1>5, <1>6, <1>7, <1>8, <1>9, <1>10, <1>11, <1>12, <1>13 DEF Operate

(* The sweep meets every orphan whose pidfile is still there.               *)
LEMMA SweepStep ==
  ASSUME TypeOK, ServerHasId, NamesInOrder, SweepMeetsOrphans, [Next]_vars
  PROVE  SweepMeetsOrphans'
<1>1. ASSUME NEW d \in Dir PROVE dir'[d].pid # None => dir'[d].there
  <2>1. DirStep(d) /\ ~(dir[d].pid # None /\ ~dir[d].there)
    BY DirStepped DEF SweepMeetsOrphans
  <2>2. NoDir.pid = None /\ EmptyDir(TRUE).pid = None
    BY DEF NoDir, EmptyDir
  <2>3. QED
    BY <2>1, <2>2 DEF DirStep, Keeps
<1>2. server \in Server /\ TypeOK'
  BY NextType DEF TypeOK
<1> DEFINE Sweeping == {"sweep", "judge", "remove"}
           Met(s, i) == \/ vm[i].dir \in s.todo
                        \/ s.pc = "judge" /\ s.at = vm[i].dir /\ s.pid = i
<1>3. ASSUME NEW i \in Vm, vm[i].st \notin {"none", "starting"},
             vm'[i].st = "run" /\ vm[i].st = "run" /\ dir[vm[i].dir].pid = i => Met(server', i)
      PROVE  /\ vm'[i].st \notin {"none", "starting"}
             /\ vm'[i].st = "run" /\ dir'[vm'[i].dir].pid = i => Met(server', i) /\ vm'[i].dir = vm[i].dir
  <2>1. VmStep(i) /\ vm[i] \in VmProcess
    BY VmSteps DEF TypeOK
  <2>2. vm'[i].st \notin {"none", "starting"} /\ (vm'[i].st = "run" => vm'[i] = vm[i])
    BY <1>3, <2>1 DEF VmStep
  <2>3. DirStep(vm[i].dir)
    BY <2>1, DirStepped DEF VmProcess
  <2>4. NoDir.pid = None /\ EmptyDir(TRUE).pid = None /\ None \notin Vm
    BY TreeAssumption DEF NoDir, EmptyDir, Vm
  <2>5. vm'[i].st = "run" /\ dir'[vm[i].dir].pid = i => dir[vm[i].dir].pid = i
    BY <1>3, <2>2, <2>3, <2>4 DEF DirStep
  <2>6. QED
    BY <1>3, <2>2, <2>5
<1>4. ASSUME server'.pc \in Sweeping, NEW i \in server'.orphans
      PROVE  /\ i \in Vm /\ vm[i].st \notin {"none", "starting"}
             /\ vm'[i].st = "run" /\ vm[i].st = "run" /\ dir[vm[i].dir].pid = i => Met(server', i)
  <2>0. i \in Vm
    BY <1>2, <1>4 DEF TypeOK, Server
  <2>1. vm[i].dir \in Dir
    BY <2>0 DEF TypeOK, VmProcess
  <2>2. CASE BeginBoot
    <3>1. /\ server'.todo = Existing
          /\ vm[i].st = "run"
      BY <1>2, <1>4, <2>2 DEF BeginBoot, Server
    <3>2. dir[vm[i].dir].pid = i => vm[i].dir \in Existing
      BY <2>0, <2>1, TreeAssumption DEF SweepMeetsOrphans, Existing, Vm
    <3>3. QED
      BY <2>0, <3>1, <3>2
  <2>3. ASSUME ~BeginBoot
        PROVE  /\ server.pc \in Sweeping /\ i \in server.orphans
               /\ vm'[i].st = "run" /\ vm[i].st = "run" /\ dir[vm[i].dir].pid = i /\ Met(server, i) => Met(server', i)
    <3>1. NextEntry.pc = "sweep" /\ NextEntry.todo = server.todo /\ NextEntry.orphans = server.orphans
      BY <1>2 DEF NextEntry, Server
    <3>2. AfterBoot.pc = "idle" /\ NewServer.pc = "idle"
      BY BootEndsIdle
    <3>3. CASE server' = server
      BY <1>4, <3>3
    <3>4. ASSUME NEW d \in Dir, SweepRead(d)
          PROVE  /\ server.pc \in Sweeping /\ i \in server.orphans
                 /\ vm'[i].st = "run" /\ vm[i].st = "run" /\ dir[vm[i].dir].pid = i /\ Met(server, i) => Met(server', i)
      <4>1. server.pc = "sweep" /\ server'.orphans = server.orphans
        BY <1>2, <3>4 DEF SweepRead, Server
      <4>2. ASSUME dir[vm[i].dir].pid = i, vm[i].dir \in server.todo PROVE Met(server', i)
        <5>1. CASE d = vm[i].dir
          BY <1>2, <2>0, <3>4, <4>2, <5>1, TreeAssumption DEF SweepRead, Server, Vm
        <5>2. CASE d # vm[i].dir
          BY <1>2, <3>4, <4>2, <5>2 DEF SweepRead, Server
        <5>3. QED
          BY <5>1, <5>2
      <4>3. QED
        BY <1>4, <4>1, <4>2
    <3>5. CASE SweepJudge
      <4>1. server.pc = "judge" /\ server'.orphans = server.orphans /\ server'.todo = server.todo
        BY <1>2, <3>1, <3>5 DEF SweepJudge, Server
      <4>2. ASSUME vm[i].st = "run", server.pid = i PROVE vm'[i].st # "run"
        <5>1. Looks(i) = {"ours"} /\ vm' = Killed(i)
          BY <3>5, <4>2 DEF SweepJudge, Looks, Live
        <5>2. QED
          BY <2>0, <5>1 DEF Killed, TypeOK, VmProcess
      <4>3. QED
        BY <1>4, <4>1, <4>2
    <3>6. CASE SweepRemove
      <4>1. server.pc = "remove" /\ server'.orphans = server.orphans /\ server'.todo = server.todo
        BY <1>2, <3>1, <3>6 DEF SweepRemove, Server
      <4>2. QED
        BY <1>4, <4>1
    <3>7. ~LocateFails /\ ~Reuse /\ ~StopDone /\ ~ServerCrash /\ ~CreateOverlay /\ ~CopyVars
      BY <1>2, <1>4, <3>2 DEF LocateFails, Reuse, StopDone, ServerCrash, CreateOverlay, CopyVars, Server
    <3>8. ~MakeSession /\ ~Spawn /\ ~BootUp /\ ~BeginStop
      BY <1>2, <1>4 DEF MakeSession, Spawn, BootUp, BeginStop, Server
    <3>9. QED
      BY <2>3, <3>3, <3>4, <3>5, <3>6, <3>7, <3>8, ServerRests DEF Next, Serve, LadderKills, vars
  <2>4. QED
    BY <2>0, <2>2, <2>3 DEF SweepMeetsOrphans
<1>5. QED
  BY <1>1, <1>3, <1>4 DEF SweepMeetsOrphans


(* What a boot makes under discard stays its own, and so does what its      *)
(* QEMU has in it.                                                          *)
LEMMA FreshRests ==
  ASSUME TypeOK, ServerHasId, NamesInOrder, FreshDirIsOwn, [Next]_vars, server' = server,
         policy = "discard", policy' = "discard", server.pc \in Booting_ \cup {"starting", "up"}
  PROVE  FreshDirIsOwn'
<1> DEFINE d == server.id
           v == server.vm
<1>1. /\ d \in Dir /\ d <= named /\ ~dir[d].build
      /\ \A i \in Vm : vm[i].st \in {"starting", "run"} /\ vm[i].dir = d =>
                         server.pc \in {"starting", "up"} /\ i = v
      /\ tool.pc \in Working => tool.dir # d
  BY DEF FreshDirIsOwn
<1>2. server.pc \in Booting_ => /\ dir[d].there /\ dir[d].pid = None /\ d \notin Doomed
                                /\ server.pc # "overlay" => dir[d].base # None
  BY DEF FreshDirIsOwn
<1>3. server.pc \in {"starting", "up"} =>
        /\ v \in Vm /\ vm[v].st # "none"
        /\ vm[v].st \in {"starting", "run"} =>
             /\ vm[v].dir = d /\ dir[d].there /\ dir[d].base # None /\ d \notin Doomed
             /\ dir[d].pid = IF vm[v].st = "run" THEN v ELSE None
  BY DEF FreshDirIsOwn
<1>4. d <= named' /\ named + 1 # d
  <2>1. named \in Nat /\ named' \in Nat /\ named <= named' /\ d \in Nat
    BY <1>1, DirSteps
  <2>2. QED
    BY <1>1, <2>1
<1>5. /\ tool'.pc \in Working => \/ tool.pc \in Working /\ tool'.dir = tool.dir
                                 \/ tool'.dir = named + 1
                                 \/ tool'.dir \in Dir /\ dir[tool'.dir].build
      /\ Doomed' \subseteq Doomed \cup {e \in Dir : Stale(e)}
  <2>1. CASE Operate
    BY <2>1, ToolSteps
  <2>2. CASE ~Operate
    <3>1. tool' = tool
      BY <2>2, HostKeeps, CommandRests DEF Next, vars
    <3>2. QED
      BY <3>1 DEF Doomed
  <2>3. QED
    BY <2>1, <2>2
<1>6. tool'.pc \in Working => tool'.dir # d
  BY <1>1, <1>4, <1>5
<1>7. DirStep(d) /\ \A i \in Vm : VmStep(i)
  BY <1>1, DirStepped, VmSteps
<1>8. ~(dir'[d] = EmptyDir(TRUE) /\ InstallMakeDir /\ d = tool.dir)
  BY <1>1 DEF InstallMakeDir, Working
<1>9. Removers(d) => d \in Doomed
  <2>1. ~SweepRemove /\ ~StopDone
    BY DEF SweepRemove, StopDone, Booting_
  <2>2. QED
    BY <2>1 DEF Removers, Doomed, ResetRemove, GcRemove
<1>10. ~dir'[d].build
  <2>1. ~NoDir.build
    BY DEF NoDir
  <2>2. Keeps(d) \/ dir'[d] = NoDir
    BY <1>7, <1>8 DEF DirStep
  <2>3. QED
    BY <1>1, <2>1, <2>2 DEF Keeps
<1>11. ASSUME NEW i \in Vm, vm'[i].st \in {"starting", "run"}, vm'[i].dir = d
       PROVE  server.pc \in {"starting", "up"} /\ i = v
  <2>1. ~Spawn
    <3>1. SUFFICES ASSUME Spawn PROVE FALSE
      OBVIOUS
    <3>2. PICK j : \/ server' = [server EXCEPT !.pc = "starting", !.vm = j]
                   \/ server' = [server EXCEPT !.pc = "stopping"]
      BY <3>1 DEF Spawn
    <3>3. server'.pc \in {"starting", "stopping"} /\ server.pc = "spawn"
      <4>1. server \in Server
        BY DEF TypeOK
      <4>2. server'.pc \in {"starting", "stopping"}
        BY ONLY <3>2, <4>1 DEF Server
      <4>3. server.pc = "spawn"
        BY ONLY <3>1 DEF Spawn
      <4>4. QED
        BY ONLY <4>2, <4>3
    <3>4. QED
      BY <3>3
  <2>2. GuestSpawn => tool.dir # d
    BY <1>1 DEF GuestSpawn, Working
  <2>3. vm[i].st \in {"starting", "run"} /\ vm[i].dir = d
    BY <1>7, <1>11, <2>1, <2>2 DEF VmStep
  <2>4. QED
    BY <1>1, <2>3
<1>12. ASSUME server.pc \in Booting_
       PROVE  /\ dir'[d].there /\ dir'[d].pid = None /\ d \notin Doomed'
              /\ server.pc # "overlay" => dir'[d].base # None
  <2>1. d \notin Doomed'
    BY <1>2, <1>5, <1>12 DEF Stale
  <2>2. server.pc \notin {"starting", "up"}
    BY <1>12 DEF Booting_
  <2>3. ~\E i \in Vm : vm[i].st = "starting" /\ vm[i].dir = d
    BY <1>1, <2>2
  <2>4. QED
    BY <1>2, <1>7, <1>8, <1>9, <1>12, <2>1, <2>3 DEF DirStep, Keeps
<1>13. ASSUME server.pc \in {"starting", "up"}
       PROVE  /\ v \in Vm /\ vm'[v].st # "none"
              /\ vm'[v].st \in {"starting", "run"} =>
                   /\ vm'[v].dir = d /\ dir'[d].there /\ dir'[d].base # None /\ d \notin Doomed'
                   /\ dir'[d].pid = IF vm'[v].st = "run" THEN v ELSE None
  <2>1. v \in Vm /\ vm[v].st # "none" /\ VmStep(v)
    BY <1>3, <1>7, <1>13
  <2>2. vm'[v].st # "none"
    BY <2>1 DEF VmStep
  <2>3. ASSUME vm'[v].st \in {"starting", "run"}
        PROVE  /\ vm'[v].dir = d /\ dir'[d].there /\ dir'[d].base # None /\ d \notin Doomed'
               /\ dir'[d].pid = IF vm'[v].st = "run" THEN v ELSE None
    <3>1. vm[v].st \in {"starting", "run"} /\ vm'[v].dir = vm[v].dir
      BY <2>1, <2>3 DEF VmStep
    <3>2. /\ vm[v].dir = d /\ dir[d].there /\ dir[d].base # None /\ d \notin Doomed
          /\ dir[d].pid = IF vm[v].st = "run" THEN v ELSE None
      BY <1>3, <1>13, <3>1
    <3>3. d \notin Doomed'
      <4>1. ~Stale(d)
        BY <3>1, <3>2 DEF Stale, Looks, Live
      <4>2. QED
        BY <1>5, <3>2, <4>1
    <3>4. CASE vm'[v] = vm[v]
      <4>1. ~\E i \in Vm : vm[i].st = "starting" /\ vm'[i].st = "run" /\ vm[i].dir = d
        BY <1>1, <3>4
      <4>2. ~\E i \in Vm : vm'[i].st = "gone" /\ dir[d].pid = i
        BY <3>1, <3>2, <3>4, TreeAssumption DEF Vm
      <4>3. QED
        BY <1>7, <1>8, <1>9, <3>1, <3>2, <3>3, <3>4, <4>1, <4>2 DEF DirStep, Keeps
    <3>5. CASE vm'[v] # vm[v]
      <4>1. vm[v].st = "starting" /\ vm'[v].st = "run" /\ dir' = [dir EXCEPT ![vm[v].dir].pid = v]
        BY <2>1, <2>3, <3>5 DEF VmStep
      <4>2. QED
        BY <1>1, <3>1, <3>2, <3>3, <4>1 DEF TypeOK, SessionDir
    <3>6. QED
      BY <3>4, <3>5
  <2>4. QED
    BY <2>1, <2>2, <2>3
<1>14. QED
  BY <1>1, <1>4, <1>6, <1>10, <1>11, <1>12, <1>13 DEF FreshDirIsOwn

LEMMA FreshStep ==
  ASSUME TypeOK, ServerHasId, NamesInOrder, FreshDirIsOwn, [Next]_vars
  PROVE  FreshDirIsOwn'
<1>1. server \in Server /\ \A e \in Dir : e <= named => e <= named'
  <2>1. /\ named \in Nat /\ named' \in Nat /\ named <= named'
        /\ \A d \in Dir : d \in Nat
    BY DirSteps
  <2>2. QED
    BY <2>1 DEF TypeOK
<1>2. SUFFICES ASSUME policy' = "discard", server'.pc \in Booting_ \cup {"starting", "up"}
               PROVE  FreshDirIsOwn'
  BY DEF FreshDirIsOwn
<1>3. policy = "discard"
  BY <1>2, ServerRests, CommandRests DEF Next, vars
<1>4. CASE server' = server
  BY <1>2, <1>3, <1>4, FreshRests
<1>5. CASE MakeSession
  <2>1. /\ SessionId = named + 1 /\ named' = named + 1 /\ SessionId \in Dir
    BY <1>3, <1>5, DirSteps DEF MakeSession, Locates, SessionId
  <2>2. /\ dir[SessionId] = NoDir /\ named \in Nat /\ SessionId > named
    BY <2>1, DirSteps DEF NamesInOrder
  <2>3. server'.pc = "overlay" /\ server'.id = SessionId
    BY <1>1, <1>5 DEF MakeSession, Server
  <2>4. /\ dir'[SessionId].there /\ dir'[SessionId].pid = None /\ ~dir'[SessionId].build
    BY <1>5, <2>1, <2>2 DEF MakeSession, TypeOK, NoDir
  <2>5. vm' = vm /\ tool' = tool
    BY <1>5 DEF MakeSession
  <2>6. /\ \A i \in Vm : vm[i].dir # SessionId
        /\ tool.dir # SessionId /\ SessionId \notin tool.todo
    BY <2>1, <2>2, DirSteps DEF NamesInOrder, TypeOK, VmProcess, Tool
  <2>7. SessionId \notin Doomed /\ Doomed' = Doomed /\ SessionId <= named'
    BY <2>1, <2>2, <2>5, <2>6 DEF Doomed
  <2>8. QED
    BY <2>1, <2>3, <2>4, <2>5, <2>6, <2>7 DEF FreshDirIsOwn, Booting_
<1>6. CASE CreateOverlay \/ CopyVars
  <2>1. /\ server'.id = server.id /\ tool' = tool /\ vm' = vm /\ named' = named
        /\ \/ server.pc = "overlay" /\ server'.pc = "vars"
              /\ \E b : dir' = [dir EXCEPT ![server.id].base = server.golden, ![server.id].exposed = b]
           \/ server.pc = "vars" /\ server'.pc = "spawn" /\ \E F : dir' = [dir EXCEPT ![server.id].files = F]
    BY <1>1, <1>2, <1>6, BootEndsIdle DEF CreateOverlay, CopyVars, Server, Booting_
  <2>2. server.pc = "overlay" => server.golden # None
    BY TreeAssumption DEF NamesInOrder, Golden
  <2>3. /\ server.id \in Dir /\ server.id <= named /\ ~dir[server.id].build
        /\ \A i \in Vm : ~(vm[i].st \in {"starting", "run"} /\ vm[i].dir = server.id)
        /\ tool.pc \in Working => tool.dir # server.id
        /\ dir[server.id].there /\ dir[server.id].pid = None /\ server.id \notin Doomed
        /\ server.pc # "overlay" => dir[server.id].base # None
    BY <1>3, <2>1 DEF FreshDirIsOwn, Booting_
  <2>4. /\ ~dir'[server.id].build /\ dir'[server.id].there /\ dir'[server.id].pid = None
        /\ dir'[server.id].base # None
    <3>1. dir[server.id] \in SessionDir /\ dir \in [Dir -> SessionDir]
      BY <2>3 DEF TypeOK
    <3>2. ASSUME NEW b, server.pc = "overlay",
                 dir' = [dir EXCEPT ![server.id].base = server.golden, ![server.id].exposed = b]
          PROVE  /\ ~dir'[server.id].build /\ dir'[server.id].there /\ dir'[server.id].pid = None
                 /\ dir'[server.id].base # None
      BY <2>2, <2>3, <3>1, <3>2 DEF SessionDir
    <3>3. ASSUME NEW F, dir' = [dir EXCEPT ![server.id].files = F], server.pc = "vars"
          PROVE  /\ ~dir'[server.id].build /\ dir'[server.id].there /\ dir'[server.id].pid = None
                 /\ dir'[server.id].base # None
      BY <2>3, <3>1, <3>3 DEF SessionDir
    <3>4. QED
      BY <2>1, <3>2, <3>3
  <2>5. Doomed' = Doomed
    BY <2>1 DEF Doomed
  <2>6. QED
    BY <2>1, <2>3, <2>4, <2>5 DEF FreshDirIsOwn, Booting_
<1>7. CASE Spawn
  <2>1. /\ server.id \in Dir /\ server.id <= named /\ ~dir[server.id].build
        /\ \A i \in Vm : ~(vm[i].st \in {"starting", "run"} /\ vm[i].dir = server.id)
        /\ tool.pc \in Working => tool.dir # server.id
        /\ dir[server.id].there /\ dir[server.id].pid = None /\ server.id \notin Doomed
        /\ dir[server.id].base # None
    BY <1>3, <1>7 DEF FreshDirIsOwn, Booting_, Spawn
  <2>2. PICK i \in NextVm : /\ vm' = Spawned(i, server.id)
                            /\ server' = [server EXCEPT !.pc = "starting", !.vm = i]
    BY <1>7, <2>1 DEF Spawn
  <2>3. server'.pc = "starting" /\ server'.vm = i /\ server'.id = server.id /\ i \in Vm
    BY <1>1, <2>2 DEF Server, NextVm
  <2>4. /\ vm'[i].st = "starting" /\ vm'[i].dir = server.id
        /\ \A j \in Vm : j # i => vm'[j] = vm[j]
    BY <2>2, <2>3 DEF Spawned, TypeOK
  <2>5. tool' = tool /\ dir' = dir /\ named' = named /\ Doomed' = Doomed
    BY <1>7 DEF Spawn, Doomed
  <2>6. QED
    BY <2>1, <2>3, <2>4, <2>5 DEF FreshDirIsOwn, Booting_
<1>8. CASE BootUp
  <2>1. /\ server.pc = "starting" /\ server'.pc = "up" /\ server'.id = server.id /\ server'.vm = server.vm
        /\ tool' = tool /\ dir' = dir /\ named' = named /\ vm' = vm /\ Doomed' = Doomed
    BY <1>1, <1>8 DEF BootUp, Server, Doomed
  <2>2. QED
    BY <1>3, <2>1 DEF FreshDirIsOwn, Booting_
<1>9. ~Reuse
  <2>1. Reuse => SessionId = named + 1 /\ SessionId \in Dir /\ dir[SessionId].base # None
    BY <1>3 DEF Reuse, Locates, SessionId
  <2>2. SessionId = named + 1 /\ SessionId \in Dir => dir[SessionId] = NoDir
    BY DirSteps DEF NamesInOrder
  <2>3. QED
    BY <2>1, <2>2 DEF NoDir
<1>10. ~BeginBoot /\ ~(\E e \in Dir : SweepRead(e)) /\ ~SweepJudge /\ ~SweepRemove
  <2>1. NextEntry.pc = "sweep"
    BY <1>1 DEF NextEntry, Server
  <2>2. ~BeginBoot
    BY <1>1, <1>2 DEF BeginBoot, Server, Booting_
  <2>3. ~(\E e \in Dir : SweepRead(e))
    BY <1>1, <1>2 DEF SweepRead, Server, Booting_
  <2>4. ~SweepJudge
    BY <1>1, <1>2, <2>1 DEF SweepJudge, Server, Booting_
  <2>5. ~SweepRemove
    BY <1>1, <1>2, <2>1 DEF SweepRemove, Server, Booting_
  <2>6. QED
    BY ONLY <2>2, <2>3, <2>4, <2>5
<1>11. ~LocateFails /\ ~StopDone /\ ~ServerCrash /\ ~BeginStop
  BY <1>1, <1>2, BootEndsIdle DEF LocateFails, StopDone, ServerCrash, BeginStop, Server, Booting_
<1>12. QED
  BY <1>4, <1>5, <1>6, <1>7, <1>8, <1>9, <1>10, <1>11, ServerRests DEF Next, Serve, LadderKills, vars

LEMMA SessionAlways == Spec => []SessionInv
<1>1. ASSUME Init PROVE SessionInv
  <2>1. TreeInv /\ 0 \in Dir
    BY <1>1, TreeInit, NullTypes
  <2>2. NoDir.pid = None /\ Retained.pid = None /\ Installed.pid = None
    BY DEF NoDir, Retained, Installed, EmptyDir
  <2>3. named \in {0, 1} /\ \A d \in Dir : d > named => dir[d] = NoDir
    BY <1>1, TreeAssumption DEF Init, Dir
  <2>4. \A d \in Dir : dir[d].pid = None
    BY <1>1, <2>2 DEF Init
  <2>5. /\ server = NewServer /\ tool = NoTool /\ NoTool.todo = {} /\ NoTool.dir = 0 /\ NoTool.pc = "idle"
        /\ \A i \in Vm : vm[i].dir = 0
    BY <1>1 DEF Init, NoTool
  <2>6. NamesInOrder
    BY <2>3, <2>5, BootEndsIdle DEF NamesInOrder
  <2>7. FreshDirIsOwn /\ SweepMeetsOrphans
    BY <2>4, <2>5, BootEndsIdle DEF FreshDirIsOwn, SweepMeetsOrphans, Booting_
  <2>8. QED
    BY <2>1, <2>6, <2>7 DEF SessionInv
<1>2. SessionInv /\ [Next]_vars => SessionInv'
  BY TreeStep, NamesStep, FreshStep, SweepStep DEF SessionInv, TreeInv
<1>3. QED
  BY <1>1, <1>2, PTL DEF Spec

(* Under discard, reset, gc and the sweep leave the running session its     *)
(* overlay and its pidfile, for any number of commands and servers, of      *)
(* which any may crash.  About stale detection by the pidfile alone.        *)
THEOREM FreshSessionKept == Spec => []FreshSessionKeepsItsDir
<1>1. SessionInv => FreshSessionKeepsItsDir
  BY DEF SessionInv, FreshDirIsOwn, FreshSessionKeepsItsDir, SessionKeepsItsDir, Booting_
<1>2. QED
  BY <1>1, SessionAlways, PTL

(* A sweep that is through has killed every QEMU that ran when it began, of *)
(* the server's predecessors, and whose pidfile is still there.  About      *)
(* sweepStaleSessions.                                                      *)
THEOREM OrphansReaped == Spec => []SweepReapsOrphans
<1>1. ASSUME SessionInv PROVE SweepReapsOrphans
  <2>1. server \in Server
    BY <1>1 DEF SessionInv, TreeInv, TypeOK
  <2>2. QED
    BY <1>1, <2>1 DEF SessionInv, SweepMeetsOrphans, SweepReapsOrphans, SweepDone
<1>2. QED
  BY <1>1, SessionAlways, PTL


-----------------------------------------------------------------------------
(* gc and the overlays that are made while it works.                        *)

(* What a gc spares: what it has seen an overlay refer to, or has yet to    *)
(* read, and the newest images; what it removes is neither.                 *)
GcSpares ==
  /\ \A d \in Dir : dir[d].base # None => dir[d].there
  /\ tool.cmd = "gc" =>
       /\ tool.pc \in {"plan", "remove"}
       /\ tool.pc = "plan" =>
            \A d \in Dir : dir[d].base # None /\ ~dir[d].exposed =>
              \/ dir[d].base \in tool.goldens
              \/ d \in tool.unread
              \/ dir[d].base \notin Beyond
       /\ tool.pc = "remove" =>
            /\ tool.goldens \subseteq Beyond
            /\ \A d \in Dir : dir[d].base # None /\ ~dir[d].exposed => dir[d].base \notin tool.goldens

(* An overlay is made by a boot, goes with its directory, and is otherwise  *)
(* exposed or not by the gc that reads it.                                  *)
BaseStays(d) == /\ dir'[d].base = dir[d].base
                /\ dir[d].there => dir'[d].there \/ dir'[d].base = None

BaseIsRead(d) ==
  /\ GcReadOverlay(d)
  /\ \/ dir'[d].exposed
     \/ /\ dir'[d].base \in tool'.goldens
        /\ ~dir[d].exposed \/ "disk" \in golden[dir[d].base].files

BaseIsMade(d) ==
  /\ CreateOverlay /\ dir'[d].base = server.golden /\ dir'[d].there
  /\ "disk" \in golden[server.golden].files
  /\ dir'[d].exposed = (server.golden \in Beyond)

LEMMA BaseSteps ==
  ASSUME TypeOK, ServerHasId, NamesInOrder, [Next]_vars, NEW d \in Dir
  PROVE  \/ BaseStays(d) /\ dir'[d].exposed = dir[d].exposed
         \/ BaseStays(d) /\ BaseIsRead(d)
         \/ dir'[d].base = None
         \/ BaseIsMade(d)
<1>1. dir \in [Dir -> SessionDir] /\ dir[d] \in SessionDir /\ NoDir.base = None /\ EmptyDir(TRUE).base = None
  BY DEF TypeOK, NoDir, EmptyDir
<1>2. CASE dir'[d] = dir[d]
  BY <1>2 DEF BaseStays
<1>3. CASE SweepRemove \/ StopDone \/ ResetRemove \/ GcRemove \/ InstallMakeDir
  <2>1. dir'[d] = dir[d] \/ dir'[d] = NoDir \/ dir'[d] = EmptyDir(TRUE)
    BY <1>1, <1>3 DEF SweepRemove, StopDone, ResetRemove, GcRemove, InstallMakeDir
  <2>2. QED
    BY <1>1, <1>2, <2>1
<1>4. CASE MakeSession
  BY <1>1, <1>4 DEF MakeSession, SessionDir, BaseStays
<1>5. CASE CreateOverlay
  <2>1. \/ dir' = dir
        \/ /\ dir' = [dir EXCEPT ![server.id].base = server.golden,
                                  ![server.id].exposed = server.golden \in Beyond]
           /\ dir[server.id].there /\ "disk" \in golden[server.golden].files
    BY <1>5 DEF CreateOverlay
  <2>2. CASE d = server.id /\ dir' # dir
    <3>1. dir'[d] = [dir[d] EXCEPT !.base = server.golden, !.exposed = server.golden \in Beyond]
      BY <1>1, <2>1, <2>2
    <3>2. /\ dir'[d].base = server.golden /\ dir'[d].there = dir[d].there
          /\ dir'[d].exposed = (server.golden \in Beyond)
      BY <1>1, <3>1 DEF SessionDir
    <3>3. QED
      BY <1>5, <2>1, <2>2, <3>2 DEF BaseIsMade
  <2>3. CASE d # server.id \/ dir' = dir
    BY <1>1, <1>2, <2>1, <2>3
  <2>4. QED
    BY <2>2, <2>3
<1>6. CASE CopyVars
  BY <1>1, <1>6 DEF CopyVars, SessionDir, BaseStays
<1>7. CASE InstallDisk \/ ProvisionPin \/ GuestDone \/ SnapshotPromote
  <2>1. dir' = dir \/ (\E F : dir' = [dir EXCEPT ![tool.dir].files = F])
          \/ (\E b : dir' = [dir EXCEPT ![tool.dir].passed = b])
    BY <1>7 DEF InstallDisk, ProvisionPin, GuestDone, SnapshotPromote, PromoteFile
  <2>2. ASSUME NEW F, dir' = [dir EXCEPT ![tool.dir].files = F]
        PROVE  BaseStays(d) /\ dir'[d].exposed = dir[d].exposed
    BY <1>1, <2>2 DEF SessionDir, BaseStays
  <2>3. ASSUME NEW b, dir' = [dir EXCEPT ![tool.dir].passed = b]
        PROVE  BaseStays(d) /\ dir'[d].exposed = dir[d].exposed
    BY <1>1, <2>3 DEF SessionDir, BaseStays
  <2>4. QED
    BY <1>2, <2>1, <2>2, <2>3
<1>8. ASSUME NEW i \in Vm, QemuReady(i) \/ QemuExits(i)
      PROVE  BaseStays(d) /\ dir'[d].exposed = dir[d].exposed
  <2>1. dir' = dir \/ \E p : dir' = [dir EXCEPT ![vm[i].dir].pid = p]
    BY <1>1, <1>8 DEF QemuReady, QemuExits, TypeOK, SessionDir, VmProcess
  <2>2. ASSUME NEW p, dir' = [dir EXCEPT ![vm[i].dir].pid = p]
        PROVE  BaseStays(d) /\ dir'[d].exposed = dir[d].exposed
    BY <1>1, <2>2 DEF SessionDir, BaseStays
  <2>3. QED
    BY <2>1, <2>2 DEF BaseStays
<1>9. ASSUME NEW x \in Dir, GcReadOverlay(x), dir'[d] # dir[d]
      PROVE  BaseStays(d) /\ BaseIsRead(d)
  <2>1. dir[x].exposed \in BOOLEAN
    BY DEF TypeOK, SessionDir
  <2>2. PICK b \in BOOLEAN : dir' = [dir EXCEPT ![x].exposed = b]
    BY <1>9, <2>1, ReadingExposes
  <2>3. d = x
    BY <1>1, <1>9, <2>2
  <2>4. dir'[d] = [dir[d] EXCEPT !.exposed = b]
    BY <1>1, <2>2, <2>3
  <2>5. BaseStays(d) /\ dir'[d].exposed = b
    BY <1>1, <2>4 DEF SessionDir, BaseStays
  <2>6. \/ dir' = [dir EXCEPT ![d].exposed = TRUE]
        \/ /\ dir' = [dir EXCEPT ![d].exposed = @ /\ "disk" \notin golden[dir[d].base].files]
           /\ tool' = [tool EXCEPT !.unread = @ \ {d}, !.goldens = @ \cup {dir[d].base}]
    BY <1>9, <2>3 DEF GcReadOverlay
  <2>7. CASE dir' = [dir EXCEPT ![d].exposed = TRUE]
    <3>1. dir'[d] = [dir[d] EXCEPT !.exposed = TRUE]
      BY <1>1, <2>7
    <3>2. dir'[d].exposed
      BY <1>1, <3>1 DEF SessionDir
    <3>3. QED
      BY <1>9, <2>3, <2>5, <3>2 DEF BaseIsRead
  <2>8. CASE /\ dir' = [dir EXCEPT ![d].exposed = @ /\ "disk" \notin golden[dir[d].base].files]
             /\ tool' = [tool EXCEPT !.unread = @ \ {d}, !.goldens = @ \cup {dir[d].base}]
    <3>1. dir'[d] = [dir[d] EXCEPT !.exposed = @ /\ "disk" \notin golden[dir[d].base].files]
      BY <1>1, <2>8
    <3>2. dir'[d].exposed = (dir[d].exposed /\ "disk" \notin golden[dir[d].base].files)
      BY <1>1, <3>1 DEF SessionDir
    <3>3. dir[d].base \in tool'.goldens
      BY <2>8 DEF TypeOK, Tool
    <3>4. QED
      BY <1>9, <2>3, <2>5, <3>2, <3>3 DEF BaseIsRead, BaseStays
  <2>9. QED
    BY <2>6, <2>7, <2>8
<1>10. QED
  BY <1>2, <1>3, <1>4, <1>5, <1>6, <1>7, <1>8, <1>9 DEF Next, Serve, Host, Operate, vars, BeginBoot,
     SweepRead, SweepJudge, LocateFails, Reuse, Spawn, BootUp, BeginStop, LadderKills, ServerCrash, Reaped,
     PidRecycled, AlienExits, InstallBegin, ProvisionBegin, GuestSpawn, ProvisionPass, GuestLadder,
     SnapshotBegin, SnapshotMakeGolden, ResetBegin, ResetJudge, ResetDone, GcBegin, GcPlan, ToolCrash

(* What gc reads, it spares or exposes.                                     *)
LEMMA ReadOrExposed ==
  ASSUME TypeOK, NEW d \in Dir, GcReadOverlay(d), dir[d].base # None
  PROVE  dir[d].base \in tool'.goldens \/ dir'[d].exposed
<1>1. CASE tool' = [tool EXCEPT !.unread = @ \ {d}, !.goldens = @ \cup {dir[d].base}]
  BY <1>1 DEF TypeOK, Tool
<1>2. CASE dir' = [dir EXCEPT ![d].exposed = TRUE]
  <2>1. dir'[d] = [dir[d] EXCEPT !.exposed = TRUE] /\ dir[d] \in SessionDir
    BY <1>2 DEF TypeOK
  <2>2. QED
    BY <2>1 DEF SessionDir
<1>3. QED
  BY <1>1, <1>2 DEF GcReadOverlay, Refers

LEMMA ImageSteps ==
  ASSUME TypeOK, ServerHasId, [Next]_vars
  PROVE  /\ golden' = golden \/ SnapshotMakeGolden \/ SnapshotPromote \/ GcRemove
         /\ \A g \in Golden : \/ /\ golden[g].there => golden'[g].there
                                 /\ golden[g].files \subseteq golden'[g].files
                              \/ GcRemove /\ g \in tool.goldens
<1>1. golden' = golden \/ SnapshotMakeGolden \/ SnapshotPromote \/ GcRemove
  BY HostKeeps DEF Next, Serve, Operate, vars, BeginBoot, SweepRead, SweepJudge, SweepRemove, LocateFails, Reuse,
     MakeSession, CreateOverlay, CopyVars, Spawn, BootUp, BeginStop, LadderKills, StopDone, ServerCrash,
     InstallBegin, InstallMakeDir, InstallDisk, ProvisionBegin, GuestSpawn, ProvisionPin, ProvisionPass,
     GuestLadder, GuestDone, SnapshotBegin, ResetBegin, ResetJudge, ResetRemove, ResetDone, GcBegin, GcReadOverlay, GcPlan, ToolCrash
<1>2. ASSUME NEW g \in Golden
      PROVE  \/ /\ golden[g].there => golden'[g].there
                /\ golden[g].files \subseteq golden'[g].files
             \/ GcRemove /\ g \in tool.goldens
  <2>1. golden \in [Golden -> GoldenDir] /\ golden[g] \in GoldenDir
    BY DEF TypeOK
  <2>2. CASE SnapshotMakeGolden
    <3>1. golden' = golden \/ golden' = [golden EXCEPT ![stamped + 1].there = TRUE]
      BY <2>2 DEF SnapshotMakeGolden
    <3>2. QED
      BY <2>1, <3>1 DEF GoldenDir
  <2>3. CASE SnapshotPromote
    <3>1. PICK file, b : \/ golden' = golden
                         \/ golden' = [golden EXCEPT ![stamped].files = @ \cup {file}, ![stamped].passed = b]
      <4>1. PICK file : PromoteFile(file)
        BY <2>3 DEF SnapshotPromote
      <4>2. CASE golden' # golden
        <5>1. golden' = [golden EXCEPT ![stamped].files = @ \cup {file},
                ![stamped].passed = IF file = "disk" THEN dir[tool.dir].passed ELSE @]
          BY <4>1, <4>2 DEF PromoteFile
        <5>2. stamped \in Golden
          BY DEF TypeOK
        <5>3. QED
          BY <2>1, <5>1, <5>2
      <4>3. QED
        BY <4>2
    <3>2. QED
      BY <2>1, <3>1 DEF GoldenDir
  <2>4. CASE GcRemove
    BY <2>1, <2>4 DEF GcRemove
  <2>5. QED
    BY <1>1, <2>2, <2>3, <2>4
<1>3. QED
  BY <1>1, <1>2

(* A gc that reads d has it no longer unread; every other step of the plan  *)
(* leaves what was named and what is unread alone.                          *)
LEMMA PlanSteps ==
  ASSUME TypeOK, GcSpares, [Next]_vars, tool'.cmd = "gc"
  PROVE  \/ GcBegin
         \/ \E x \in Dir : GcReadOverlay(x) /\ tool.cmd = "gc"
         \/ GcPlan /\ tool.cmd = "gc"
         \/ tool' = tool
<1>1. tool \in Tool /\ NoTool.cmd # "gc"
  BY TreeAssumption DEF TypeOK, NoTool, Command
<1>2. SUFFICES ASSUME ~GcBegin, tool' # tool
      PROVE  tool.cmd = "gc" /\ ((\E x \in Dir : GcReadOverlay(x)) \/ GcPlan)
  OBVIOUS
<1>3. Operate
  BY <1>2, CommandRests, HostKeeps DEF Next, vars
<1>4. tool.cmd = "gc" /\ tool.pc \in {"plan", "remove"}
  <2>1. tool'.cmd = tool.cmd
    BY <1>1, <1>2, <1>3 DEF Operate, Tool, NoTool,
       InstallBegin, InstallMakeDir, InstallDisk, ProvisionBegin, GuestSpawn, ProvisionPin, ProvisionPass,
       GuestLadder, GuestDone, SnapshotBegin, SnapshotMakeGolden, SnapshotPromote, PromoteFile,
       ResetBegin, ResetJudge, ResetRemove, ResetDone, GcReadOverlay, GcPlan, GcRemove, ToolCrash
  <2>2. QED
    BY <2>1 DEF GcSpares
<1>5. (\E x \in Dir : GcReadOverlay(x)) \/ GcPlan
  BY <1>1, <1>2, <1>3, <1>4 DEF Operate, Admitted,
       InstallBegin, InstallMakeDir, InstallDisk, ProvisionBegin, GuestSpawn, ProvisionPin, ProvisionPass,
       GuestLadder, GuestDone, SnapshotBegin, SnapshotMakeGolden, SnapshotPromote,
       ResetBegin, ResetJudge, ResetRemove, ResetDone, GcRemove, ToolCrash
<1>6. QED
  BY <1>4, <1>5

(* Every overlay that is not exposed keeps its backing file, and a gc under *)
(* way is about to take none.                                               *)
LEMMA OverlayStep ==
  ASSUME TypeOK, ServerHasId, NamesInOrder, GcSpares, OverlayHasGolden, [Next]_vars
  PROVE  GcSpares' /\ OverlayHasGolden'
<1>1. ASSUME NEW d \in Dir
      PROVE  \/ BaseStays(d) /\ dir'[d].exposed = dir[d].exposed
             \/ BaseStays(d) /\ BaseIsRead(d)
             \/ dir'[d].base = None
             \/ BaseIsMade(d)
  BY BaseSteps
<1>2. \A d \in Dir : dir'[d].base # None => dir'[d].there
  BY <1>1 DEF GcSpares, BaseStays, BaseIsMade
<1>3. CreateOverlay => golden' = golden /\ tool' = tool
  BY DEF CreateOverlay
<1>4. ASSUME NEW x \in Dir, GcReadOverlay(x)
      PROVE  golden' = golden /\ tool.pc = "plan" /\ tool'.pc = "plan" /\ tool'.cmd = tool.cmd
             /\ tool.goldens \subseteq tool'.goldens /\ tool'.unread = tool.unread \ {x}
  BY <1>4, ReadingKeeps
<1>5. ASSUME NEW d \in Dir, dir'[d].base # None, ~dir'[d].exposed
      PROVE  "disk" \in golden'[dir'[d].base].files
  <2>1. CASE BaseIsMade(d)
    BY <1>3, <2>1 DEF BaseIsMade
  <2>2. CASE BaseStays(d) /\ BaseIsRead(d)
    <3>1. golden' = golden /\ dir'[d].base = dir[d].base
      BY <1>4, <2>2 DEF BaseStays, BaseIsRead
    <3>2. "disk" \in golden[dir[d].base].files
      BY <1>5, <2>2, <3>1 DEF BaseIsRead, OverlayHasGolden
    <3>3. QED
      BY <3>1, <3>2
  <2>3. CASE BaseStays(d) /\ dir'[d].exposed = dir[d].exposed
    <3>1. dir'[d].base = dir[d].base /\ "disk" \in golden[dir[d].base].files /\ dir[d].base \in Golden
      BY <1>5, <2>3 DEF BaseStays, OverlayHasGolden, TypeOK, SessionDir
    <3>2. GcRemove => dir[d].base \notin tool.goldens
      BY <1>5, <2>3, <3>1 DEF GcRemove, GcSpares
    <3>3. QED
      BY <3>1, <3>2, ImageSteps
  <2>4. QED
    BY <1>1, <1>5, <2>1, <2>2, <2>3
<1>6. ASSUME tool'.cmd = "gc"
      PROVE  /\ tool'.pc \in {"plan", "remove"}
             /\ tool'.pc = "plan" =>
                  \A d \in Dir : dir'[d].base # None /\ ~dir'[d].exposed =>
                    \/ dir'[d].base \in tool'.goldens
                    \/ d \in tool'.unread
                    \/ dir'[d].base \notin Beyond'
             /\ tool'.pc = "remove" =>
                  /\ tool'.goldens \subseteq Beyond'
                  /\ \A d \in Dir : dir'[d].base # None /\ ~dir'[d].exposed
                                        => dir'[d].base \notin tool'.goldens
  <2>1. tool \in Tool
    BY DEF TypeOK
  <2>2. ASSUME golden' = golden PROVE Beyond' = Beyond
    BY <2>2 DEF Beyond, Images
  <2>3. CASE GcBegin
    <3>1. tool'.pc = "plan" /\ tool'.unread = Existing /\ dir' = dir
      BY <2>3 DEF GcBegin, NoTool
    <3>2. \A d \in Dir : dir[d].base # None => d \in Existing
      BY DEF GcSpares, Existing
    <3>3. QED
      BY <3>1, <3>2
  <2>4. CASE GcPlan /\ tool.cmd = "gc"
    <3>1. /\ tool.pc = "plan" /\ tool.unread = {}
          /\ tool'.pc = "remove" /\ tool'.goldens = Beyond \ tool.goldens
          /\ golden' = golden /\ dir' = dir
      BY <2>1, <2>4 DEF GcPlan, Tool
    <3>2. \A d \in Dir : dir[d].base # None /\ ~dir[d].exposed
            => dir[d].base \in tool.goldens \/ dir[d].base \notin Beyond
      BY <2>4, <3>1 DEF GcSpares
    <3>3. QED
      BY <2>2, <3>1, <3>2
  <2>5. ASSUME NEW x \in Dir, GcReadOverlay(x), tool.cmd = "gc"
        PROVE  \A d \in Dir : dir'[d].base # None /\ ~dir'[d].exposed =>
                    \/ dir'[d].base \in tool'.goldens
                    \/ d \in tool'.unread
                    \/ dir'[d].base \notin Beyond'
    <3> SUFFICES ASSUME NEW d \in Dir, dir'[d].base # None, ~dir'[d].exposed
                 PROVE  \/ dir'[d].base \in tool'.goldens
                        \/ d \in tool'.unread
                        \/ dir'[d].base \notin Beyond'
      OBVIOUS
    <3>0. dir'[d].base # None /\ ~dir'[d].exposed
      OBVIOUS
    <3>1. Beyond' = Beyond /\ tool.pc = "plan"
      BY <1>4, <2>2, <2>5
    <3>2. CASE BaseIsRead(d)
      BY <3>2 DEF BaseIsRead
    <3>3. CASE ~BaseIsRead(d)
      <4>1. ~CreateOverlay
        <5>1. server' = server /\ server \in Server
          BY <2>5, ReadingKeeps DEF TypeOK
        <5>2. CreateOverlay => server.pc = "overlay" /\ server'.pc # "overlay"
          BY <5>1, BootEndsIdle DEF CreateOverlay, Server
        <5>3. QED
          BY <5>1, <5>2
      <4>2. BaseStays(d) /\ dir'[d].exposed = dir[d].exposed
        BY <1>1, <3>0, <3>3, <4>1 DEF BaseIsMade, BaseStays
      <4>3. dir[d].base \in tool.goldens \/ d \in tool.unread \/ dir[d].base \notin Beyond
        BY <2>5, <3>1, <4>2 DEF GcSpares, BaseStays
      <4>4. d \in tool.unread => d \in tool'.unread \/ d = x
        BY <1>4, <2>5
      <4>5. CASE d = x /\ d \in tool.unread
        <5>1. GcReadOverlay(d) /\ dir[d].base # None
          BY <2>5, <3>0, <4>2, <4>5 DEF BaseStays
        <5>2. dir[d].base \in tool'.goldens \/ dir'[d].exposed
          BY <5>1, ReadOrExposed
        <5>3. QED
          BY <3>0, <4>2, <5>2 DEF BaseStays
      <4>6. CASE ~(d = x /\ d \in tool.unread)
        BY <1>4, <2>5, <3>1, <4>2, <4>3, <4>4, <4>6 DEF BaseStays
      <4>7. QED
        BY <4>5, <4>6
    <3>4. QED
      BY <3>2, <3>3
  <2>6. CASE tool' = tool
    <3>1. tool.pc \in {"plan", "remove"}
      BY <1>6, <2>6 DEF GcSpares
    <3>2. golden' = golden
      BY <2>6, <3>1, ImageSteps DEF SnapshotMakeGolden, SnapshotPromote, GcRemove, NoTool
    <3>3. ASSUME NEW d \in Dir, dir'[d].base # None, ~dir'[d].exposed
          PROVE  \/ dir'[d].base = dir[d].base /\ dir[d].base # None /\ ~dir[d].exposed
                 \/ dir'[d].base \notin Beyond
                 \/ dir'[d].base \in tool.goldens /\ tool.pc = "plan"
      <4>1. CASE BaseStays(d) /\ dir'[d].exposed = dir[d].exposed
        BY <3>3, <4>1 DEF BaseStays
      <4>2. CASE BaseIsRead(d)
        BY <1>4, <2>6, <3>3, <4>2 DEF BaseIsRead
      <4>3. CASE BaseIsMade(d)
        BY <3>3, <4>3 DEF BaseIsMade
      <4>4. QED
        BY <1>1, <3>3, <4>1, <4>2, <4>3
    <3>4. QED
      BY <1>6, <2>2, <2>6, <3>1, <3>2, <3>3 DEF GcSpares
  <2>7. QED
    BY <1>4, <1>6, <2>3, <2>4, <2>5, <2>6, PlanSteps
<1>7. GcSpares'
  BY <1>2, <1>6 DEF GcSpares
<1>8. OverlayHasGolden'
  BY <1>5 DEF OverlayHasGolden
<1>9. QED
  BY <1>7, <1>8

LEMMA OverlayInit == Init => GcSpares /\ OverlayHasGolden
<1>1. SUFFICES ASSUME Init PROVE GcSpares /\ OverlayHasGolden
  OBVIOUS
<1>2. /\ NoDir.base = None /\ Installed.base = None
      /\ Retained.base = 1 /\ Retained.there
  BY DEF NoDir, Installed, Retained, EmptyDir
<1>3. \A d \in Dir : dir[d].base # None => dir[d].base = 1 /\ dir[d].there
  BY <1>1, <1>2 DEF Init
<1>4. 1 \in Golden /\ "disk" \in golden[1].files
  BY <1>1, TreeAssumption DEF Init, Golden, GoldenFiles
<1>5. tool.cmd # "gc"
  BY <1>1, TreeAssumption DEF Init, NoTool, Command
<1>6. QED
  BY <1>3, <1>4, <1>5 DEF GcSpares, OverlayHasGolden

(* No gc removes the backing file of an overlay, one there already or one   *)
(* made while it works, whatever else promotes images meanwhile, unless     *)
(* qemu-img info failed on that overlay, or the overlay was made on an      *)
(* image that was by then beyond those a gc keeps: the code knows nothing   *)
(* of boots under way.  About vmGc and pickGoldensToPrune.                  *)
THEOREM OverlaysAreBacked == Spec => []OverlayHasGolden
<1>1. Init => GcSpares /\ OverlayHasGolden
  BY OverlayInit
<1>2. GcSpares /\ OverlayHasGolden /\ SessionInv /\ [Next]_vars
        => GcSpares' /\ OverlayHasGolden'
  BY OverlayStep DEF SessionInv, TreeInv
<1>3. QED
  BY <1>1, <1>2, SessionAlways, PTL DEF Spec
=============================================================================
