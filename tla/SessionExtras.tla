----------------------------- MODULE SessionExtras -----------------------------
(***************************************************************************)
(* The extras of a session's start (vm/service.ts, agent mode): the        *)
(* secrets store is pushed into the guest, file by file, over commands     *)
(* that may each fail (vm/secrets-push.ts), the agent's tmux session is    *)
(* started (vm/agent-session.ts), and only then may tool calls run shells  *)
(* in the guest, which read what was pushed (vm/backend.ts).               *)
(*                                                                         *)
(* The store has one environment pair and maps one credential file.  What  *)
(* programs in the guest do to their own files is left out, and so is what *)
(* a stop does to the boot (VmService): here a session ends at any moment. *)
(***************************************************************************)
EXTENDS Sequences

VARIABLES
  secrets,     \* the two halves of the store on the host: the pair's value, the mapping
  credential,  \* the host file the mapping names: its content, or missing
  extras,      \* the boot, and what it has loaded
  guestFiles,  \* the pushed files, in the guest
  shellSaw     \* the pair as the last shell of a tool call saw it

extrasVars == <<secrets, credential, extras, guestFiles, shellSaw>>

\* A value is one word, or has a space in it; the store refuses line ends only.
PairValues  == {"word", "two words"}
Credentials == {"first", "second"}

EnvFiles     == {"env", "environment.d"}
GuestTargets == EnvFiles \cup {"credential"}
NoGuestFile  == [holds |-> "nothing", private |-> FALSE]

\* The session is not up yet: nothing is loaded and nothing reported.
NoExtras(mode) ==
  [at |-> "booting", mode |-> mode, todo |-> <<>>, step |-> "mkdir",
   pair |-> "none", data |-> "none", skipped |-> FALSE, mapped |-> FALSE, report |-> "none",
   agent |-> FALSE]

ExtrasInit ==
  /\ secrets \in [pair : PairValues, mapped : BOOLEAN]
  /\ credential \in Credentials \cup {"missing"}
  /\ \E mode \in {"vm", "agent"} : extras = NoExtras(mode)
  /\ guestFiles = [t \in GuestTargets |-> NoGuestFile]
  /\ shellSaw = "none"

-----------------------------------------------------------------------------
\* The host

\* The editor replaces the two halves one after the other: a boot may load one of each.
HalfSaved ==
  /\ \/ \E v \in PairValues : secrets' = [secrets EXCEPT !.pair = v]
     \/ \E m \in BOOLEAN : secrets' = [secrets EXCEPT !.mapped = m]
  /\ secrets' # secrets
  /\ UNCHANGED <<credential, extras, guestFiles, shellSaw>>

\* A credential is renewed, removed or logged into for the first time.
CredentialChanges ==
  /\ credential' \in (Credentials \cup {"missing"}) \ {credential}
  /\ UNCHANGED <<secrets, extras, guestFiles, shellSaw>>

-----------------------------------------------------------------------------
\* The push

\* Only an agent's guest is given secrets; a vm boot is ready at once.
LoadForPush ==
  /\ extras.at = "booting"
  /\ extras' = IF extras.mode = "vm" THEN [extras EXCEPT !.at = "ready"]
               ELSE [extras EXCEPT
                       !.at = "push", !.pair = secrets.pair, !.mapped = secrets.mapped,
                       !.todo = IF secrets.mapped THEN <<"env", "environment.d", "credential">>
                                ELSE <<"env", "environment.d">>]
  /\ UNCHANGED <<secrets, credential, guestFiles, shellSaw>>

Pushes(step) == extras.at = "push" /\ extras.todo # <<>> /\ extras.step = step
Pushed       == Head(extras.todo)

\* The host file of a mapping is read when its turn comes; a missing one is skipped.
ReadHostFile ==
  /\ Pushes("mkdir") /\ Pushed = "credential" /\ extras.data = "none"
  /\ extras' = IF credential = "missing" THEN [extras EXCEPT !.skipped = TRUE, !.todo = Tail(@)]
               ELSE [extras EXCEPT !.data = credential]
  /\ UNCHANGED <<secrets, credential, guestFiles, shellSaw>>

\* What is written to a target.
Bytes(t) == IF t \in EnvFiles THEN extras.pair ELSE extras.data

MakeParent ==
  /\ Pushes("mkdir") /\ Bytes(Pushed) # "none"
  /\ extras' = [extras EXCEPT !.step = "write"]
  /\ UNCHANGED <<secrets, credential, guestFiles, shellSaw>>

\* A redirect: a file that was there keeps its mode, a new one is readable by all.
WriteGuestFile ==
  /\ Pushes("write")
  /\ guestFiles' = [guestFiles EXCEPT ![Pushed].holds = Bytes(Pushed)]
  /\ extras' = [extras EXCEPT !.step = "chmod"]
  /\ UNCHANGED <<secrets, credential, shellSaw>>

FileDone(e) == [e EXCEPT !.step = "mkdir", !.todo = Tail(@)]

\* Broken variant: the exit code of chmod is not looked at.
MakePrivateUnchecked ==
  /\ Pushes("chmod")
  /\ guestFiles' \in {guestFiles, [guestFiles EXCEPT ![Pushed].private = TRUE]}
  /\ extras' = FileDone(extras)
  /\ UNCHANGED <<secrets, credential, shellSaw>>

MakePrivate ==
  /\ Pushes("chmod")
  /\ guestFiles' = [guestFiles EXCEPT ![Pushed].private = TRUE]
  /\ extras' = FileDone(extras)
  /\ UNCHANGED <<secrets, credential, shellSaw>>

\* A command fails, times out or loses its connection: the push ends there.  What was
\* being written is cut short, and nothing that was written is taken back.
PushFails ==
  /\ extras.at = "push" /\ extras.todo # <<>>
  /\ extras.step = "mkdir" => Bytes(Pushed) # "none"
  /\ guestFiles' \in IF extras.step = "write"
                     THEN {guestFiles, [guestFiles EXCEPT ![Pushed].holds = "part"]} ELSE {guestFiles}
  /\ extras' = [extras EXCEPT !.at = "session", !.report = "failed"]
  /\ UNCHANGED <<secrets, credential, shellSaw>>

\* The report is logged; failed or not, the boot goes on.
PushReported ==
  /\ extras.at = "push" /\ extras.todo = <<>>
  /\ extras' = [extras EXCEPT !.at = "session", !.report = "pushed"]
  /\ UNCHANGED <<secrets, credential, guestFiles, shellSaw>>

-----------------------------------------------------------------------------
\* The session and its end

\* has-session, then new-session: a session that runs is left alone, and either may fail.
StartAgentSession ==
  /\ extras.at = "session"
  /\ \E runs \in BOOLEAN : extras' = [extras EXCEPT !.at = "tried", !.agent = runs]
  /\ UNCHANGED <<secrets, credential, guestFiles, shellSaw>>

\* Either way it is logged, and the boot is ready.
BecomesReady ==
  /\ extras.at = "tried"
  /\ extras' = [extras EXCEPT !.at = "ready"]
  /\ UNCHANGED <<secrets, credential, guestFiles, shellSaw>>

\* `set -a; . ~/.openhammer/env`: to a shell, KEY=two words runs the command "words".
Sourced(holds) == IF holds = "word" THEN "word" ELSE "unset"

\* The shell of a tool call.
RunShell ==
  /\ extras.at = "ready"
  /\ shellSaw' = Sourced(guestFiles["env"].holds)
  /\ UNCHANGED <<secrets, credential, extras, guestFiles>>

\* The guest is stopped or dies.  A discarded overlay takes the files with it; in a
\* retained one, what the guest had not written back is cut short.
GuestEnds ==
  /\ extras.at # "booting"
  /\ guestFiles' \in {[t \in GuestTargets |-> NoGuestFile], guestFiles} \cup
                     {[guestFiles EXCEPT ![t].holds = "part"] :
                        t \in {u \in GuestTargets : guestFiles[u] # NoGuestFile}}
  /\ extras' = NoExtras(extras.mode)
  /\ shellSaw' = "none"
  /\ UNCHANGED <<secrets, credential>>

ExtrasNext ==
  \/ HalfSaved
  \/ CredentialChanges
  \/ LoadForPush
  \/ ReadHostFile
  \/ MakeParent
  \/ WriteGuestFile
  \/ MakePrivate
  \/ PushFails
  \/ PushReported
  \/ StartAgentSession
  \/ BecomesReady
  \/ RunShell
  \/ GuestEnds

ExtrasSpec == ExtrasInit /\ [][ExtrasNext]_extrasVars

-----------------------------------------------------------------------------
(* A push that is reported as done left each file in the guest whole and   *)
(* private: both environment files hold the same pairs, those the boot     *)
(* loaded, and the credential is what the host had when it was read - or   *)
(* is named as skipped.  Whatever an earlier, failed push or a crash left  *)
(* in a retained overlay.  About pushSecrets and writeGuestFile.           *)
PushReportIsTrue ==
  extras.report = "pushed" =>
    /\ \A t \in EnvFiles : guestFiles[t] = [holds |-> extras.pair, private |-> TRUE]
    /\ extras.mapped =>
         extras.skipped \/ guestFiles["credential"] = [holds |-> extras.data, private |-> TRUE]

(* After a push that is reported as done, the shell of a tool call has the *)
(* pair with its value.  secrets-push.ts:16-17 says that no quoting is     *)
(* needed because all consumers are line-based parsers; but the wrapper of *)
(* runShell sources the file.                                              *)
ShellsGetTheSecrets ==
  extras.report = "pushed" /\ shellSaw # "none" => shellSaw = extras.pair
=============================================================================
