-------------------------------- MODULE Doctor --------------------------------
(***************************************************************************)
(* What main() demands of the settings, the environment, the images and    *)
(* the host before it serves (config.ts, vm/preflight.ts, main.ts), which  *)
(* image its session service then boots (vm/service.ts), and what          *)
(* openhammer doctor says of it beforehand (cli/doctor.ts).                *)
(*                                                                         *)
(* All are functions of the settings, the images, the environment and the  *)
(* host; the last two are quantified over where the property needs them.   *)
(* No flag is given.  The guest root is absolute whatever MCP_ROOT_DIR     *)
(* says (resolve()).                                                       *)
(***************************************************************************)
EXTENDS SettingsForms

\* The mode and at most one more variable of MCP_VM_* are set.
Env(mode, var, text) == [mode |-> mode, var |-> var, text |-> text]
EnvText(env, var) == IF env.var = var THEN env.text ELSE Blank
Envs ==
  {Env(mode, "none", Blank) : mode \in {Blank, <<"off">>, <<"vm">>, <<"on">>}}
    \cup {Env(Blank, "memoryMb", <<"1">>)}
    \cup {Env(<<"vm">>, v[1], v[2]) :
            v \in {<<"memoryMb", <<"1">>>>, <<"cpus", <<"0">>>>, <<"sshPort", <<"-1">>>>,
                   <<"persist", <<"never">>>>, <<"diskCapGb", <<"1">>>>,
                   <<"image", <<"with a manifest">>>>, <<"image", <<"without">>>>}}

\* lacks: the one requirement that is not met; of "token", a bearer token or the
\* leave to write one, of "port", an address to listen on that is free.  freeGb:
\* -1 where statfs fails.  treeGb: what the vm tree holds, 0 where there is none
\* or nothing in it.  secrets: the mode of credentials.json; jwt: is there a
\* secret to sign with.
Equipped == [lacks |-> "none", freeGb |-> 100, treeGb |-> 10, secrets |-> "owner", jwt |-> TRUE]
Hosts == {[Equipped EXCEPT !.lacks = l] : l \in {"none", "platform", "firmware", "kvm", "rg", "token", "port"}}
         \cup {[Equipped EXCEPT !.freeGb = f] : f \in {-1, 4}} \cup {[Equipped EXCEPT !.treeGb = 0]}
         \cup {[lacks |-> "ram", freeGb |-> 100, treeGb |-> 50, secrets |-> "open", jwt |-> FALSE]}

\* Values one by one, none where the variable is malformed.
VmEnvEnum(text, allowed, fallback) ==
  IF text = Blank THEN {fallback} ELSE {v \in allowed : text = <<v>>}
VmEnvInt(text, fallback, min) ==
  IF text = Blank THEN {fallback} ELSE {n \in IntegerOf(text) : n >= min}

\* Off reads nothing but the mode.
ResolveVmConfig(env, s) ==
  LET modes == VmEnvEnum(env.mode, VmModes, s.vm.mode)
      Number(var, fallback, min) == VmEnvInt(EnvText(env, var), fallback, min)
  IN IF modes = {"off"} THEN {[mode |-> "off", image |-> Blank, memoryMb |-> s.vm.memoryMb, diskCapGb |-> 45]}
     ELSE {[mode |-> mode, image |-> EnvText(env, "image"), memoryMb |-> memory, diskCapGb |-> cap] :
             mode \in modes, memory \in Number("memoryMb", s.vm.memoryMb, 1),
             cap \in Number("diskCapGb", 45, 1), c \in Number("cpus", s.vm.cpus, 1), p \in Number("sshPort", 0, 0),
             o \in VmEnvEnum(EnvText(env, "persist"), VmPersist, s.vm.persist),
             d \in VmEnvEnum(EnvText(env, "display"), {"headless"}, "headless")}

\* The checks of a boot, in order; the first that fails is the message.  The
\* image is the newest one, whatever MCP_VM_IMAGE names.
VmPreflight(c, host) ==
  \/ c.mode = "off"
  \/ /\ host.lacks \notin {"platform", "firmware", "kvm"}
     /\ PreflightGolden
     /\ host.freeGb = -1 \/ host.freeGb >= c.diskCapGb
     /\ c.memoryMb \in 2048..16384

\* What follows takes what resolveConfig makes of the settings and of one
\* environment: a configuration, or none where it throws.

\* main() ends with an error: resolveConfig or prepareVmBoot throws, or
\* ensureToken, or listen.  The channel and the signing secret end nothing.
MainFails(resolved, host) ==
  \/ resolved = {}
  \/ \E c \in resolved : c.mode # "off" /\ ~VmPreflight(c, host)
  \/ host.lacks \in {"token", "port"}

\* What the session service of the server then looks for, in locateGolden.
FindsItsImage(c) == IF c.image # Blank THEN c.image = <<"with a manifest">> ELSE LocatesGolden

-----------------------------------------------------------------------------
(* Doctor.                                                                 *)

\* A document that is there and does not load.
ConfigCheck == IF config.is = "corrupt" THEN "fail" ELSE "pass"

\* Advice, never a failure: the secrets are readable by others, the signing
\* secret is yet to be minted.
CredentialsCheck(host) == IF host.secrets = "open" THEN "warn" ELSE "pass"
JwtSecretCheck(host)   == IF host.jwt THEN "pass" ELSE "warn"

\* grep needs rg, find needs fd; a server starts without.
BinaryCheck(name, host) == IF host.lacks = name THEN "fail" ELSE "pass"

VmChecks == {"vm-preflight", "vm-golden", "vm-ram", "vm-footprint", "vm-root"}

VmTreeExists(host) == GoldenExists \/ host.treeGb > 0

\* Broken variant: a presence that throws is an absence.
CheckPresentNotThrown(check, resolved, host) ==
  IF check = "vm-footprint" THEN VmTreeExists(host)
  ELSE \/ \E c \in resolved : c.mode # "off"
       \/ resolved # {} /\ check # "vm-root" /\ GoldenExists

\* Is there anything of the sandbox to check; a presence that throws counts.
CheckPresent(check, resolved, host) ==
  IF check = "vm-footprint" THEN VmTreeExists(host)
  ELSE \/ resolved = {}
       \/ \E c \in resolved : c.mode # "off"
       \/ check # "vm-root" /\ GoldenExists

VmPreflightCheck(resolved, host) == IF \A c \in resolved : VmPreflight(c, host) THEN "pass" ELSE "fail"
VmGoldenCheck          == IF ListedNewest THEN "pass" ELSE "warn"
VmRamCheck(host)       == IF host.lacks = "ram" THEN "warn" ELSE "pass"
VmFootprintCheck(host) == IF host.treeGb > 40 THEN "warn" ELSE "pass"
VmRootCheck            == "pass"

\* Every vm check but the footprint's resolves the configuration, and fails
\* where that throws.
RunCheck(check, resolved, host) ==
  IF check # "vm-footprint" /\ resolved = {} THEN "fail"
  ELSE CASE check = "vm-preflight" -> VmPreflightCheck(resolved, host)
         [] check = "vm-golden"    -> VmGoldenCheck
         [] check = "vm-ram"       -> VmRamCheck(host)
         [] check = "vm-footprint" -> VmFootprintCheck(host)
         [] check = "vm-root"      -> VmRootCheck

\* The default checks; those of the channels, of which none fails, are in Channels.
Reports(resolved, host) ==
  {ConfigCheck, CredentialsCheck(host), JwtSecretCheck(host), BinaryCheck("rg", host), BinaryCheck("fd", host)}
  \cup {RunCheck(c, resolved, host) : c \in {v \in VmChecks : CheckPresent(v, resolved, host)}}
DoctorFails(resolved, host) == "fail" \in Reports(resolved, host)

(* Doctor foretells the boot, with the settings, images, environment and   *)
(* host as they are.  It exits 1 where a server started now would end with *)
(* an error, but for the two causes it does not look at: a token that      *)
(* cannot be written and an address that is taken.  It exits 1 only there, *)
(* where a tool would lack its program, or where config.json is there and  *)
(* reads as the defaults.  And where it exits 0 and a vm mode is set, the  *)
(* session service finds an image to boot, unless MCP_VM_IMAGE names one,  *)
(* of which neither doctor nor the preflight asks.  About                  *)
(* resolveVmCheckConfig, checkPresent, safeRun and vmPreflight against     *)
(* main() and locateGolden.                                                *)
DoctorForetellsBoot ==
  \A resolved \in {ResolveVmConfig(env, LoadSettings) : env \in Envs}, host \in Hosts :
    LET ends == MainFails(resolved, host)
        says == DoctorFails(resolved, host)
    IN /\ ends => says \/ host.lacks \in {"token", "port"}
       /\ says => ends \/ config.is = "corrupt" \/ host.lacks \in {"rg", "fd"}
       /\ ~says => \A c \in resolved : c.mode # "off" /\ c.image = Blank => FindsItsImage(c)
=============================================================================
