------------------------------ MODULE GuestForms ------------------------------
(***************************************************************************)
(* The editors of what the sandbox is built and booted with, and the two   *)
(* commands to a running guest (tui/wizards/guest-setup.ts), with the      *)
(* files they keep: guest.json (vm/provision/guest-config.ts), the secrets *)
(* store (secrets.ts) and provision.sh.                                    *)
(*                                                                         *)
(* The packages are a list of names, the boot commands the list of their   *)
(* lines (FormWizard); every token field has one good other value and one  *)
(* the pattern refuses.  The env file is the set of                        *)
(* its lines, a line the sequence of its parts between "="; the value "\n" *)
(* stands for one with a newline.  Every image has a user of its own.      *)
(***************************************************************************)
EXTENDS FormWizard, GoldenScan

CONSTANTS MaxTurns,   \* bound: answers in the secrets editor
          MaxSetups   \* bound: saves of guest.json

ASSUME GuestFormsAssumption == MaxTurns \in Nat /\ MaxSetups \in Nat

VARIABLES guest,        \* what guest.json holds
          setup,        \* the open Guest setup form
          lastGuest,    \* its last save: what was asked and what was written
          vault,        \* the secrets store: the env file, the file map
          editor,       \* the open secrets editor and its working copy
          lastSecrets,  \* what each half of the store was last written with
          script,       \* provision.sh: absent, template, edited
          sandbox,      \* the running session: its image, 0 for none, its agent and theme
          turns

guestVars == <<guest, setup, lastGuest, vault, editor, lastSecrets, script, sandbox, turns, goldenVars>>
guestFormVars == <<guest, setup, lastGuest>>
secretsVars == <<vault, editor, lastSecrets>>
runningVars == <<script, sandbox>>

-----------------------------------------------------------------------------
(* guest.json.                                                             *)

GuestAgents == {"claude", "codex"}
PackageNames == {"p", "q"}   \* what the pattern admits
TokenFields == {"hostname", "timezone", "keyboard", "username"}
ListFields  == {"extraPackages", "bootCommands"}

DefaultGuest ==
  [k \in TokenFields \cup ListFields \cup {"gitName", "gitEmail", "encrypt", "agent"} |->
     CASE k = "encrypt" -> "false" [] k = "agent" -> "claude" [] k \in ListFields -> <<>> [] OTHER -> "default"]

\* The shape the loader demands: the charset of the tokens and of a package.
IsGuestConfig(c) ==
  /\ \A k \in TokenFields : c[k] \in {"default", "other"}
  /\ c.encrypt \in {"true", "false"} /\ c.agent \in GuestAgents
  /\ \A i \in DOMAIN c.extraPackages : c.extraPackages[i] \in PackageNames
  /\ \A i \in DOMAIN c.bootCommands : c.bootCommands[i] # ""

LoadGuest == IF guest.is = "document" /\ IsGuestConfig(guest.config) THEN guest.config ELSE DefaultGuest

GuestFields ==
  [k \in DOMAIN DefaultGuest |->
     CASE k = "encrypt" -> ConfirmField
       [] k = "agent"   -> SelectField(GuestAgents)
       [] OTHER         -> TextField]
GuestTexts(c) == [k \in DOMAIN c |-> IF k \in ListFields THEN TextOf(c[k]) ELSE <<c[k]>>]

\* Of a package named twice the first stays; a command may be repeated.
ParsePackages(text) ==
  LET all == EntriesOf(text)
  IN Picked(all, {i \in DOMAIN all : \A j \in 1..i-1 : all[j] # all[i]})

\* What the answers make of the seed; refused where the loader would refuse it.
Candidate(seed, answers) ==
  [k \in DOMAIN seed |->
     CASE k = "extraPackages" -> ParsePackages(answers[k])
       [] k = "bootCommands"  -> EntriesOf(answers[k])
       [] OTHER               -> answers[k][1]]

GuestTyped(key) ==
  CASE key \in TokenFields -> {Blank, <<"other">>, <<"not a token">>}
    [] key = "encrypt" -> {<<"true">>, <<"false">>}
    [] key = "agent" -> {<<a>> : a \in GuestAgents}
    [] key = "extraPackages" -> {Blank, <<"", "">>, <<"p", "q", "p">>, <<"p", "p!">>}
    [] key = "bootCommands" -> {Blank, <<"c">>, <<"c", "", "c">>}
    [] OTHER -> {Blank, <<" other">>}

NoSetup == [at |-> "closed"]
NoGuestSave == [key |-> "none"]

\* With an image built, the operator is told first that the edits are for the next.
OpenSetup ==
  /\ setup.at = "closed"
  /\ setup' = IF GoldenExists THEN [at |-> "warned"]
              ELSE [at |-> "fields", seed |-> LoadGuest]
  /\ UNCHANGED <<guest, lastGuest>>

GoOnSetup ==
  /\ setup.at = "warned" /\ setup' = [at |-> "fields", seed |-> LoadGuest]
  /\ UNCHANGED <<guest, lastGuest>>

\* Declined, cancelled at a question, an answer refused, or a save that failed.
LeaveSetup ==
  /\ setup.at # "closed" /\ setup' = NoSetup
  /\ UNCHANGED <<guest, lastGuest>>

SaveSetup(key, text) ==
  LET fields == Seeded(GuestFields, GuestTexts(setup.seed))
      answers == Reduced(fields, TerminalAnswers(fields, key, text))
  IN /\ setup.at = "fields" /\ Offered(fields[key], text)
     /\ LET c == Candidate(setup.seed, answers)
        IN /\ IsGuestConfig(c)
           /\ guest' = [is |-> "document", config |-> c]
           /\ lastGuest' = [key |-> key, text |-> text, before |-> setup.seed, config |-> c]
     /\ setup' = NoSetup

-----------------------------------------------------------------------------
(* The secrets store.                                                      *)

EnvKeys == {"K", "L"}   \* what the grammar of a key admits
NoEnv   == [k \in {} |-> <<>>]

\* One line a pair, split again at the first "=": one line that is no pair
\* empties the whole.
ParseEnv(lines) ==
  IF \A l \in lines : Len(l) > 1 /\ l[1] \in EnvKeys
  THEN [k \in {l[1] : l \in lines} |-> Tail(CHOOSE l \in lines : l[1] = k)]
  ELSE NoEnv
SerializeEnv(env) == {<<k>> \o env[k] : k \in DOMAIN env}

\* Absolute paths, and no two mappings to one path of the guest.
IsFileMap(files) ==
  /\ \A i \in DOMAIN files : files[i].host \in {"/a", "/b"} /\ files[i].guest \in {"/a", "/b"}
  /\ \A i, j \in DOMAIN files : files[i].guest = files[j].guest => i = j
IsSecrets(env, files) ==
  /\ \A k \in DOMAIN env : k \in EnvKeys /\ env[k] # <<"\n">>
  /\ IsFileMap(files)

\* The halves are judged each by itself.
LoadSecrets ==
  [env |-> ParseEnv(vault.env), files |-> IF IsFileMap(vault.files) THEN vault.files ELSE <<>>]

NoSandbox == [image |-> 0, agent |-> "baked", theme |-> "baked"]

NoEditor == [at |-> "closed", env |-> NoEnv, files |-> <<>>]

\* The working copy is taken before the question a live session raises.
OpenSecrets ==
  /\ editor.at = "closed"
  /\ editor' = [at    |-> IF sandbox.image # 0 THEN "asked" ELSE "menu",
                env   |-> LoadSecrets.env,
                files |-> LoadSecrets.files]
  /\ UNCHANGED <<vault, lastSecrets, sandbox>>

EditAnyway ==
  /\ editor.at = "asked" /\ editor' = [editor EXCEPT !.at = "menu"]
  /\ UNCHANGED <<vault, lastSecrets, sandbox>>

\* The restart's outcome is its acceptance: the old session is stopped; or it
\* is refused or declined, and the editor ends.
RestartFirst ==
  /\ editor.at = "asked"
  /\ \/ editor' = [editor EXCEPT !.at = "menu"] /\ sandbox' = NoSandbox
     \/ editor' = NoEditor /\ UNCHANGED sandbox
  /\ UNCHANGED <<vault, lastSecrets>>

\* Every answer that is refused ends the editor with nothing written.
AddEnv(key, value) ==
  /\ editor.at = "menu"
  /\ editor' = IF key \in EnvKeys /\ value # <<"\n">>
               THEN [editor EXCEPT !.env = [k \in DOMAIN @ \cup {key} |-> IF k = key THEN value ELSE @[k]]]
               ELSE NoEditor
  /\ UNCHANGED <<vault, lastSecrets, sandbox>>

RemoveEnv(key) ==
  /\ editor.at = "menu" /\ key \in DOMAIN editor.env
  /\ editor' = [editor EXCEPT !.env = [k \in DOMAIN @ \ {key} |-> @[k]]]
  /\ UNCHANGED <<vault, lastSecrets, sandbox>>

AddFile(f) ==
  /\ editor.at = "menu"
  /\ editor' = IF IsFileMap(Append(editor.files, f)) THEN [editor EXCEPT !.files = Append(@, f)] ELSE NoEditor
  /\ UNCHANGED <<vault, lastSecrets, sandbox>>

RemoveFile(i) ==
  /\ editor.at = "menu" /\ i \in DOMAIN editor.files
  /\ editor' = [editor EXCEPT !.files = SubSeq(@, 1, i - 1) \o SubSeq(@, i + 1, Len(@))]
  /\ UNCHANGED <<vault, lastSecrets, sandbox>>

\* The env file first; the file map may then fail to be written.
SaveVault ==
  /\ editor.at = "menu" /\ IsSecrets(editor.env, editor.files)
  /\ \E files \in {editor.files, vault.files} :
       /\ vault' = [env |-> SerializeEnv(editor.env), files |-> files]
       /\ lastSecrets' = [env |-> editor.env,
                          files |-> IF files = editor.files THEN files ELSE LoadSecrets.files]
  /\ editor' = NoEditor /\ UNCHANGED sandbox

LeaveSecrets ==
  /\ editor.at # "closed" /\ editor' = NoEditor
  /\ UNCHANGED <<vault, lastSecrets, sandbox>>

EditorTurn ==
  \/ \E key \in EnvKeys \cup {"k"}, value \in {<<"">>, <<"v", "w">>, <<"\n">>} : AddEnv(key, value)
  \/ \E key \in EnvKeys : RemoveEnv(key)
  \/ \E h \in {"/a"}, g \in {"/a", "/b", "c"} : AddFile([host |-> h, guest |-> g])
  \/ \E i \in 1..2 : RemoveFile(i)

-----------------------------------------------------------------------------
(* provision.sh, and the running guest.                                    *)

\* With no $EDITOR nothing is written; the template goes on disk before the
\* editor runs, whatever the editor then does.
EditScript(edited) ==
  /\ script' = IF edited THEN "edited" ELSE IF script = "absent" THEN "template" ELSE script
  /\ UNCHANGED sandbox

\* The session service takes the newest image, or the boot fails.
SandboxBoots ==
  /\ sandbox.image = 0 /\ LocatesGolden
  /\ sandbox' = [image |-> Newest(ServiceKey), agent |-> "baked", theme |-> "baked"] /\ UNCHANGED script

SandboxStops ==
  /\ sandbox.image # 0 /\ sandbox' = NoSandbox /\ UNCHANGED script

\* The user the forms log in as is that of the newest image, where readable.
ApplyUser == {g \in {NewestGoldenId} \ {0} : Readable(g)}

\* The line of the session; the login fails where another image's user is
\* taken.  The command may fail in the guest.
ApplyReady == sandbox.image # 0 /\ sandbox.image \in ApplyUser

ApplyAgent(agent) ==
  /\ ApplyReady
  /\ sandbox' = [sandbox EXCEPT !.agent = agent] /\ UNCHANGED script

\* A theme of the guest's own list, or typed where the list could not be read.
ApplyTheme ==
  /\ ApplyReady
  /\ sandbox' = [sandbox EXCEPT !.theme = "set"] /\ UNCHANGED script

-----------------------------------------------------------------------------
\* The files as an operator may have left them by hand; a session may be live,
\* of an image vm gc has since removed.
GuestInit ==
  /\ guest \in {[is |-> "absent"],
                [is |-> "document", config |-> [DefaultGuest EXCEPT !.username = "not a token"]],
                [is |-> "document", config |-> [DefaultGuest EXCEPT !.gitName = "other", !.encrypt = "true",
                                                !.extraPackages = <<"p">>, !.bootCommands = <<"c", "d", "c">>]],
                [is |-> "document", config |-> [DefaultGuest EXCEPT !.gitName = " other", !.gitEmail = " ",
                                                !.extraPackages = <<"p", "q", "p">>, !.bootCommands = <<"d", " c", " ">>]]}
  /\ setup = NoSetup /\ lastGuest = NoGuestSave
  /\ vault \in [env : {{}, {<<"K", "v", "w">>}, {<<"K", "v">>, <<"L">>}}, files : {<<>>, <<[host |-> "/b", guest |-> "/b"]>>}]
  /\ editor = NoEditor /\ lastSecrets = LoadSecrets
  /\ script = "absent" /\ sandbox \in {NoSandbox, [NoSandbox EXCEPT !.image = 1]} /\ turns = 0
  /\ GoldensInit

Turn(bound) == turns < bound /\ turns' = turns + 1

\* One modal form is open at a time: an operator at Guest setup ...
GuestNext ==
  \/ /\ OpenSetup \/ GoOnSetup \/ LeaveSetup
     /\ UNCHANGED <<secretsVars, runningVars, turns, goldenVars>>
  \/ /\ Turn(MaxSetups) /\ \E key \in DOMAIN DefaultGuest : \E text \in GuestTyped(key) : SaveSetup(key, text)
     /\ UNCHANGED <<secretsVars, runningVars, goldenVars>>
  \/ /\ \/ \E edited \in BOOLEAN : EditScript(edited)
        \/ SandboxBoots \/ SandboxStops
        \/ \E a \in GuestAgents : ApplyAgent(a)
        \/ ApplyTheme
     /\ setup.at = "closed" /\ UNCHANGED <<guestFormVars, secretsVars, turns, goldenVars>>
  \/ GoldensNext /\ UNCHANGED <<guestFormVars, secretsVars, runningVars, turns>>

\* ... and one at the secrets.
SecretsNext ==
  \/ /\ OpenSecrets \/ EditAnyway \/ RestartFirst \/ LeaveSecrets \/ SaveVault
     /\ UNCHANGED <<guestFormVars, script, turns, goldenVars>>
  \/ /\ Turn(MaxTurns) /\ EditorTurn
     /\ UNCHANGED <<guestFormVars, script, goldenVars>>

GuestSpec == GuestInit /\ [][GuestNext]_guestVars

-----------------------------------------------------------------------------
(* What the editors wrote is what the build and the boot load: no answer   *)
(* puts guest.json or a half of the secrets store in a shape its loader    *)
(* silently replaces by the defaults or by nothing, also where the second  *)
(* half of the store could not be written.  About guestConfigFromAnswers   *)
(* against normalizeGuestConfig, and envPairError, fileMappingError and    *)
(* serializeEnv against parseEnvFile and normalizeSecrets.                 *)
GuestLoadBack ==
  /\ lastGuest.key # "none" => LoadGuest = lastGuest.config
  /\ LoadSecrets = lastSecrets

Names(list) == {list[i] : i \in DOMAIN list}

\* What a value says, and whether it is as the form itself would write it.
Gist(key, value) ==
  CASE key = "extraPackages" -> Names(value)
    [] key = "bootCommands"  -> EntriesOf(value)
    [] OTHER                 -> Trim(value)
IsTidy(key, value) ==
  CASE key = "extraPackages" -> \A i, j \in DOMAIN value : value[i] = value[j] => i = j
    [] key = "bootCommands"  -> \A i \in DOMAIN value : value[i] # "" /\ Trim(value[i]) = value[i]
    [] OTHER                 -> Trim(value) = value

(* A saved Guest setup changes the field that was answered and no other.   *)
(* guest.json may have been edited by hand: of a field that was not        *)
(* answered a save may then drop what the form cannot hold, a package      *)
(* named again, the blanks around a name or a line of the commands (those  *)
(* of a here-document among them), a blank line, and that only.  About     *)
(* guestSetupFields and reduceFields against parsePackageList,             *)
(* parseBootCommands and guestConfigFromAnswers.                           *)
OnlyTheAnswerChanges ==
  lastGuest.key # "none" =>
  LET old == lastGuest.before
      new == lastGuest.config
  IN \A k \in DOMAIN DefaultGuest \ {lastGuest.key} :
       /\ Gist(k, new[k]) = Gist(k, old[k])
       /\ IsTidy(k, old[k]) => new[k] = old[k]

(* The comment of parsePackageList: "Lossless for any valid doc", the list *)
(* "round-trips ... exactly" (guest-setup.ts:134-135).  The loader takes a *)
(* list that names a package twice.                                        *)
PackagesRoundTrip ==
  lastGuest.key \notin {"none", "extraPackages"} =>
    lastGuest.config.extraPackages = lastGuest.before.extraPackages

(* The help of the two lists: "blank = none".  About guest-setup.ts:236    *)
(* and :243 against reduceFields, which takes the seed for a blank.        *)
BlankMeansNone ==
  lastGuest.key \in ListFields /\ lastGuest.text = Blank => lastGuest.config[lastGuest.key] = <<>>
=============================================================================
