------------------------------ MODULE HomeFiles ------------------------------
(***************************************************************************)
(* The files under ~/.openhammer that the server, the command line and the *)
(* dashboard each read, merge and replace without a lock: config.json      *)
(* (config/settings.ts), credentials.json (config/credentials.ts),         *)
(* vm/guest.json and the two files of vm/secrets (vm/provision/guest-      *)
(* config.ts, secrets.ts), and the commands that write them (cli.ts, the   *)
(* wizards under tui/).                                                    *)
(*                                                                         *)
(* A write is a temporary file named after the process, filled and renamed *)
(* over the target.  Each step is a system call; processes interleave      *)
(* between any two, any may fail, and a process may die.                   *)
(*                                                                         *)
(* config.json holds the set of channels, credentials.json the ids that    *)
(* have secrets, the others the number of the save that wrote them.        *)
(***************************************************************************)
EXTENDS Naturals, Sequences, FiniteSets, Functions

CONSTANTS Writers,     \* processes: a server, commands, a dashboard
          Entries,     \* ids of channels, and of OAuth clients
          MaxCommands  \* bound: commands and wizards ever started

ASSUME HomeAssumption == MaxCommands \in Nat

Documents == {"settings", "credentials", "guest", "env", "files"}

\* What a file holds: nothing, part of a document, or one, written by save n.
Content(n, ids) == [is |-> "whole", save |-> n, ids |-> ids]
Absent == [is |-> "absent", save |-> 0, ids |-> {}]
Torn   == [is |-> "torn", save |-> 0, ids |-> {}]

VARIABLES home,  \* the documents
          temp,  \* the temporary files there are, by name
          task,  \* what each process is doing
          begun  \* commands so far

homeVars == <<home, temp, task, begun>>

\* pc: "asking" (a wizard is open), "create", "fill", "rename".  seed is the
\* settings as the command loaded them; todo the writes it has still to make.
Idle_ == [pc |-> "idle", kind |-> "none", seed |-> {}, id |-> "none", todo |-> <<>>]

HomeInit ==
  /\ home = [d \in Documents |-> Absent]
  /\ temp = <<>>
  /\ task = [w \in Writers |-> Idle_]
  /\ begun = 0

\* Broken variant: one temporary name for every process.
TempNameShared(w, d) == <<CHOOSE v \in Writers : TRUE, d>>

\* <file>.<pid>.tmp
TempName(w, d) == <<w, d>>

\* loadSettings, readCredentialsMap: what is not a whole document reads as empty.
Load(d) == IF home[d].is = "whole" THEN home[d].ids ELSE {}

-----------------------------------------------------------------------------
(* The commands.                                                           *)

\* Each loads the settings first; a wizard then asks.
Begin(w, kind) ==
  /\ task[w].pc = "idle" /\ begun < MaxCommands
  /\ begun' = begun + 1
  /\ task' = [task EXCEPT ![w] = [Idle_ EXCEPT !.pc = "asking", !.kind = kind, !.seed = Load("settings")]]
  /\ UNCHANGED <<home, temp>>

Answered(w, kind, id, todo) ==
  /\ task[w].pc = "asking" /\ task[w].kind = kind
  /\ task' = [task EXCEPT ![w].pc = "create", ![w].id = id, ![w].todo = todo]
  /\ UNCHANGED <<home, temp, begun>>

\* addChannel: the secret goes in before the entry.
AddChannelCmd(w) ==
  \E id \in Entries \ task[w].seed : Answered(w, "add", id, <<"credentials", "settings">>)

\* removeChannel: the secret goes before the entry, if there is one.
RemoveChannelCmd(w) ==
  \E id \in task[w].seed :
    Answered(w, "remove", id, IF id \in Load("credentials") THEN <<"credentials", "settings">>
                              ELSE <<"settings">>)

\* channel use, config set, and the dashboard's persist: the same channels again.
RewriteSettings(w) == Answered(w, "rewrite", "none", <<"settings">>)

\* auth add-client, set-login, and the server's registrations: credentials only.
StoreClient(w) == \E id \in Entries : Answered(w, "client", id, <<"credentials">>)

SaveGuestConfig(w) == Answered(w, "guest", "none", <<"guest">>)
SaveSecrets(w)     == Answered(w, "secrets", "none", <<"env", "files">>)

\* Cancelled, refused, or a failed probe: nothing is written.
GivesUp(w) ==
  /\ task[w].pc = "asking" /\ task' = [task EXCEPT ![w] = Idle_]
  /\ UNCHANGED <<home, temp, begun>>

-----------------------------------------------------------------------------
(* One write.                                                              *)

Target(w) == Head(task[w].todo)

\* The credentials are read just before they are written, the settings were
\* read when the command began.
Composed(w) ==
  LET t == task[w]
      ids == CASE Target(w) = "credentials" ->
                    IF t.kind = "remove" THEN Load("credentials") \ {t.id} ELSE Load("credentials") \cup {t.id}
               [] Target(w) = "settings" ->
                    IF t.kind = "add" THEN t.seed \cup {t.id} ELSE t.seed \ {t.id}
               [] OTHER -> {}
  IN Content(begun, ids)

Throws(w) == task' = [task EXCEPT ![w] = Idle_]

\* The temporary file is created, or truncated if an earlier process left one.
Create(w) ==
  /\ task[w].pc = "create"
  /\ \/ /\ LET name == TempName(w, Target(w))
           IN  temp' = [n \in DOMAIN temp \cup {name} |-> IF n = name THEN Torn ELSE temp[n]]
        /\ task' = [task EXCEPT ![w].pc = "fill"]
     \/ Throws(w) /\ UNCHANGED temp
  /\ UNCHANGED <<home, begun>>

\* Broken variant: the document is written in place.
FillInPlace(w) ==
  /\ task[w].pc = "fill"
  /\ home' = [home EXCEPT ![Target(w)] = Torn]
  /\ \/ /\ temp' = [temp EXCEPT ![TempName(w, Target(w))] = Composed(w)]
        /\ task' = [task EXCEPT ![w].pc = "rename"]
     \/ Throws(w) /\ UNCHANGED temp
  /\ UNCHANGED begun

\* A write that fails leaves what it has written so far.
Fill(w) ==
  /\ task[w].pc = "fill"
  /\ \/ /\ temp' = [temp EXCEPT ![TempName(w, Target(w))] = Composed(w)]
        /\ task' = [task EXCEPT ![w].pc = "rename"]
     \/ Throws(w) /\ UNCHANGED temp
  /\ UNCHANGED <<home, begun>>

\* The rename, and on to the next file; a rename that fails removes the
\* temporary file, and what an earlier write of the command replaced stays so.
Rename(w) ==
  /\ task[w].pc = "rename" /\ TempName(w, Target(w)) \in DOMAIN temp
  /\ temp' = Restrict(temp, DOMAIN temp \ {TempName(w, Target(w))})
  /\ \/ /\ home' = [home EXCEPT ![Target(w)] = temp[TempName(w, Target(w))]]
        /\ task' = [task EXCEPT ![w] = IF Len(@.todo) = 1 THEN Idle_
                                       ELSE [task[w] EXCEPT !.pc = "create", !.todo = Tail(@)]]
     \/ Throws(w) /\ UNCHANGED home
  /\ UNCHANGED begun

\* The process is killed; a later one may get its pid, and finds its files.
Dies(w) ==
  /\ task[w].pc # "idle" /\ Throws(w)
  /\ UNCHANGED <<home, temp, begun>>

HomeNext ==
  \E w \in Writers :
    \/ \E kind \in {"add", "remove", "rewrite", "client", "guest", "secrets"} : Begin(w, kind)
    \/ AddChannelCmd(w) \/ RemoveChannelCmd(w) \/ RewriteSettings(w) \/ StoreClient(w)
    \/ SaveGuestConfig(w) \/ SaveSecrets(w) \/ GivesUp(w)
    \/ Create(w) \/ Fill(w) \/ Rename(w) \/ Dies(w)

HomeSpec == HomeInit /\ [][HomeNext]_homeVars

-----------------------------------------------------------------------------
HomeTypeOK ==
  /\ \A d \in Documents : home[d].ids \subseteq Entries
  /\ \A w \in Writers : task[w].seed \subseteq Entries

(* No document is ever part of one, whatever other processes write at the  *)
(* same time, wherever a write fails and whenever a process dies: a torn   *)
(* document would read as an empty one, and the next save would make the   *)
(* loss permanent.  About writeCredentialsFile, saveSettings,              *)
(* saveGuestConfig and writeAtomic.                                        *)
HomeStaysWhole == \A d \in Documents : home[d].is # "torn"
=============================================================================
