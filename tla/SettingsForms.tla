---------------------------- MODULE SettingsForms ----------------------------
(***************************************************************************)
(* config.json and the forms that edit it: the sections mcp and vm         *)
(* (config/sections.ts), config set with and without a field (cli.ts), the *)
(* document and the shape its loader demands (config/settings.ts).         *)
(*                                                                         *)
(* The channels are one token, the numbers integers, and every text of a   *)
(* field but the list of clients has one entry.  One process edits; what   *)
(* several do to the file is in HomeFiles.                                 *)
(***************************************************************************)
EXTENDS FormWizard, GoldenScan

CONSTANT MaxSaves   \* bound: documents ever saved

ASSUME SettingsAssumption == MaxSaves \in Nat

VARIABLES config,    \* what config.json holds
          form,      \* the open section, and the settings it was seeded with
          saves,     \* saves so far
          lastSave   \* the last save: what it was asked and what it wrote

settingsVars == <<config, form, saves, lastSave, goldenVars>>

VmModes   == {"off", "vm", "agent"}
VmPersist == {"auto", "retain", "discard"}
NoDir     == ""   \* secretsDir: null

DefaultVm == [mode |-> "off", memoryMb |-> 4096, cpus |-> 4, persist |-> "auto",
              idleTimeoutMs |-> 0, agentCmd |-> "claude", secretsDir |-> NoDir]
DefaultSettings == [channels |-> "none", clients |-> <<>>, vm |-> DefaultVm]

Document(s) == [is |-> "document", settings |-> s]
NoDocument(how) == [is |-> how]

IsVmSettings(vm) ==
  /\ vm.mode \in VmModes /\ vm.persist \in VmPersist
  /\ vm.memoryMb > 0 /\ vm.cpus > 0 /\ vm.idleTimeoutMs >= 0
  /\ vm.agentCmd # ""

\* A document that does not parse reads as the defaults; so does a vm section
\* that is not one, with the rest of its document kept.
LoadSettings ==
  IF config.is = "document"
  THEN [config.settings EXCEPT !.vm = IF IsVmSettings(@) THEN @ ELSE DefaultVm]
  ELSE DefaultSettings

-----------------------------------------------------------------------------
(* The sections.                                                           *)

\* Number(text), where it is an integer.
IntegerOf(text) ==
  CASE text = <<"-1">> -> {-1}       [] text = <<"0">> -> {0}          [] text = <<"1">> -> {1}
    [] text = <<"2">> -> {2}         [] text = <<"0x2">> -> {2}        [] text = <<"4">> -> {4}
    [] text = <<"2048">> -> {2048}   [] text = <<"4096">> -> {4096}    [] text = <<"20000">> -> {20000}
    [] OTHER -> {}

\* String(n), of the numbers a field may hold.
Numeral(n) == CHOOSE t \in {"0", "1", "2", "4", "2048", "4096", "20000"} : IntegerOf(<<t>>) = {n}

McpFields == [allowedClients |-> TextField]
VmFields ==
  [mode |-> SelectField(VmModes), memoryMb |-> TextField, cpus |-> TextField,
   persist |-> SelectField(VmPersist), idleTimeoutMs |-> TextField,
   agentCmd |-> TextField, secretsDir |-> TextField]
FieldsOf(section) == IF section = "mcp" THEN McpFields ELSE VmFields

ReadSection(s, section) ==
  IF section = "mcp" THEN [allowedClients |-> TextOf(s.clients)]
  ELSE [k \in DOMAIN s.vm |-> IF k \in {"memoryMb", "cpus", "idleTimeoutMs"}
                              THEN <<Numeral(s.vm[k])>> ELSE <<s.vm[k]>>]

\* What an answer yields: one value, or none where the write throws.
\* Broken variant: any integer will do.
VmIntFieldAnyMinimum(text, fallback, min) ==
  IF text = Blank THEN {fallback} ELSE IntegerOf(text)
VmIntField(text, fallback, min) ==
  IF text = Blank THEN {fallback} ELSE {n \in IntegerOf(text) : n >= min}

VmSelectValue(text, allowed, fallback) ==
  IF text = Blank THEN {fallback} ELSE {v \in allowed : text = <<v>>}

\* The texts are trimmed here once more: a seed may be blank, or have blanks around it.
VmAnswer(text, fallback) == IF Trimmed(text) = Blank THEN fallback ELSE Trim(text[1])

\* mcpSection.write, vmSection.write: a mode other than off, set now or before,
\* needs a bootable image.
WriteSection(s, section, vals) ==
  IF section = "mcp" THEN {[s EXCEPT !.clients = EntriesOf(vals.allowedClients)]}
  ELSE {[s EXCEPT !.vm =
           [mode |-> mode, memoryMb |-> memory, cpus |-> cpus, persist |-> persist,
            idleTimeoutMs |-> idle, agentCmd |-> VmAnswer(vals.agentCmd, s.vm.agentCmd),
            secretsDir |-> VmAnswer(vals.secretsDir, NoDir)]] :
          mode \in {m \in VmSelectValue(vals.mode, VmModes, s.vm.mode) :
                      m = "off" \/ GoldenManifestExists},
          memory \in VmIntField(vals.memoryMb, s.vm.memoryMb, 1),
          cpus \in VmIntField(vals.cpus, s.vm.cpus, 1),
          persist \in VmSelectValue(vals.persist, VmPersist, s.vm.persist),
          idle \in VmIntField(vals.idleTimeoutMs, s.vm.idleTimeoutMs, 0)}

\* What an operator may type into a field.
Typed(key) ==
  CASE key = "allowedClients" -> {Blank, <<"", "">>, <<"a">>, <<"a", "", "b">>}
    [] key = "mode" -> {<<"vm">>, <<"off">>, <<"on">>}
    [] key = "persist" -> {<<"retain">>, <<"never">>}
    [] key \in {"memoryMb", "cpus", "idleTimeoutMs"} -> {<<"-1">>, <<"0">>, <<"0x2">>, <<"2048">>, <<"x">>}
    [] OTHER -> {Blank, <<"other">>}

-----------------------------------------------------------------------------
(* The commands.                                                           *)

NoForm == [section |-> "none"]
NoSave == [section |-> "none", key |-> "none"]

\* The file as an operator may have left it: a vm section edited by hand among them.
SettingsInit ==
  /\ \E s \in {DefaultSettings,
               [DefaultSettings EXCEPT !.channels = "pub", !.clients = <<"a">>,
                                       !.vm.agentCmd = " other", !.vm.secretsDir = " "],
               [DefaultSettings EXCEPT !.vm.agentCmd = " ", !.vm.secretsDir = " other"],
               [DefaultSettings EXCEPT !.channels = "pub", !.vm.mode = "on"]} :
       config \in {Document(s), NoDocument("absent"), NoDocument("corrupt")}
  /\ form = NoForm /\ saves = 0 /\ lastSave = NoSave
  /\ GoldensInit

\* A write that throws ends its command with nothing saved.
SaveSettings(section, key, before, raw) ==
  /\ saves < MaxSaves
  /\ \E s \in WriteSection(before, section, Reduced(Seeded(FieldsOf(section), ReadSection(before, section)), raw)) :
       /\ config' = Document(s)
       /\ lastSave' = [section |-> section, key |-> key, before |-> before, settings |-> s]
  /\ saves' = saves + 1
  /\ UNCHANGED goldenVars

\* config set <section>.<key> <value>: loads and saves without an await.
ConfigSetField(section, key, text) ==
  LET fields == Seeded(FieldsOf(section), ReadSection(LoadSettings, section))
  IN /\ SaveSettings(section, key, LoadSettings, FlagAnswers(fields, key, text))
     /\ UNCHANGED form

\* config set, and the dashboard's edit screens: the settings are read before
\* the questions are asked.
OpenSection(section) ==
  /\ form = NoForm /\ form' = [section |-> section, seed |-> LoadSettings]
  /\ UNCHANGED <<config, saves, lastSave, goldenVars>>

SubmitSection(key, text) ==
  LET fields == Seeded(FieldsOf(form.section), ReadSection(form.seed, form.section))
  IN /\ form # NoForm /\ key \in DOMAIN fields /\ Offered(fields[key], text)
     /\ SaveSettings(form.section, key, form.seed, TerminalAnswers(fields, key, text))
     /\ form' = NoForm

CancelSection ==
  /\ form # NoForm /\ form' = NoForm
  /\ UNCHANGED <<config, saves, lastSave, goldenVars>>

SettingsNext ==
  \/ \E section \in {"mcp", "vm"} :
       \/ OpenSection(section)
       \/ \E key \in DOMAIN FieldsOf(section), text \in UNION {Typed(k) : k \in DOMAIN FieldsOf(section)} :
            text \in Typed(key) /\ (ConfigSetField(section, key, text) \/ SubmitSection(key, text))
  \/ CancelSection
  \/ GoldensNext /\ UNCHANGED <<config, form, saves, lastSave>>

SettingsTypeOK ==
  /\ config.is \in {"absent", "corrupt", "document"}
  /\ form.section \in {"none", "mcp", "vm"} /\ saves \in 0..MaxSaves
  /\ sealing \in Seconds \cup {0} /\ DOMAIN goldens \subseteq Seconds
  /\ \A g \in DOMAIN goldens : goldens[g] \in Manifests

-----------------------------------------------------------------------------
(* What a form saved is what the next process loads: no answer, typed or   *)
(* given as a flag, is written in a shape the loader would refuse and      *)
(* silently replace by the defaults of the whole section.  About           *)
(* vmIntField and vmSelectValue against isVmSettings.                      *)
SettingsLoadBack == saves > 0 => LoadSettings = lastSave.settings

(* A save changes the field it was asked to change and no other: not the   *)
(* rest of its section, not the other section, not the channels; only the  *)
(* blanks around agentCmd and secretsDir, which the loader accepts, go     *)
(* with any save of their section.  About seedDefaults, reduceFields,      *)
(* flagIo, vmAnswer and the two write functions, and the promise of        *)
(* cli.ts:497-498, which is true but for those blanks.                     *)
OnlyTheTargetChanges ==
  saves > 0 =>
  LET old == lastSave.before
      new == lastSave.settings
  IN /\ new.channels = old.channels
     /\ lastSave.key # "allowedClients" => new.clients = old.clients
     /\ \A k \in DOMAIN old.vm \ {lastSave.key} :
          \/ new.vm[k] = old.vm[k]
          \/ k \in {"agentCmd", "secretsDir"} /\ new.vm[k] = Trim(old.vm[k])
=============================================================================
