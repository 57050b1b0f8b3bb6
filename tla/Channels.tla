------------------------------- MODULE Channels -------------------------------
(***************************************************************************)
(* The channels openhammer is reached by: the entries of config.json and   *)
(* their secrets, the commands and dashboard actions that edit them        *)
(* (tunnel/manage.ts, tui/wizards/channel.ts, cli.ts), what a boot makes   *)
(* of the default one (tunnel/boot.ts and the providers), what doctor says *)
(* of each, and the live states the dashboard shows, fed by the server and *)
(* by its own probe (tui/dashboard/channel-probe.ts).                      *)
(*                                                                         *)
(* A value is blank or not: options and secrets are the keys that are set. *)
(* Ids are minted once.  Writes succeed here; HomeFiles has the ones that  *)
(* do not, and the processes that overlap inside a write.                  *)
(***************************************************************************)
EXTENDS Naturals, Sequences, SequencesExt

CONSTANTS ChannelIds,       \* the ids randomUUID may mint
          MaxChannelEdits,  \* bound: adds, removals and changes of the default
          MaxSweeps         \* bound: sweeps of the probe

ASSUME ChannelsAssumption ==
  "none" \notin ChannelIds /\ MaxChannelEdits \in Nat /\ MaxSweeps \in Nat

VARIABLES entries,    \* config.json: the channels in order, and the default
          authtokens, \* credentials.json: the ids with a secret
          edit,       \* the dashboard's copy of the settings, and the adds under way
          minted,     \* the ids used so far, and the edits
          probe,      \* the sweeps of the dashboard's probe, and whether it has quit
          live,       \* what the dashboard shows of each channel, and who said so
          active      \* the channel the running server reports

channelVars == <<entries, authtokens, edit, minted>>
probeVars   == <<probe, live, active>>

-----------------------------------------------------------------------------
(* The providers.                                                          *)

ChannelKinds == {"ngrok", "cloudflare", "nginx", "static-url"}
Mode(kind) == IF kind \in {"ngrok", "cloudflare"} THEN "live" ELSE "static"

staticFields(kind) == {"publicUrl"} \cup (IF kind = "nginx" THEN {"upstream"} ELSE {})
Fields(kind) ==
  CASE kind = "ngrok" -> {"authtoken"} [] kind = "cloudflare" -> {} [] OTHER -> staticFields(kind)
Required == {"authtoken", "publicUrl"}
Secret   == {"authtoken"}

hasAuthtoken(options) == "authtoken" \in options
hasPublicUrl(options) == "publicUrl" \in options

\* host: is cloudflared installed, does the provider's edge answer in time, is
\* the declared endpoint reachable.
Networks == [cloudflared : BOOLEAN, edge : BOOLEAN, reachable : BOOLEAN]

isAvailable(kind, options, host) ==
  CASE kind = "ngrok" -> hasAuthtoken(options)
    [] kind = "cloudflare" -> host.cloudflared
    [] OTHER -> hasPublicUrl(options)

\* Does start, or resolve, yield a handle.
NgrokStarts(options, host) == hasAuthtoken(options) /\ host.edge
CloudflareStarts(host)     == host.cloudflared /\ host.edge
StaticResolves(options)    == hasPublicUrl(options)
StaticProbe(options, host) == hasPublicUrl(options) /\ host.reachable

-----------------------------------------------------------------------------
(* The settings and their editors.                                         *)

NoChannels == [channels |-> <<>>, default |-> "none"]
NoAdd == [channels |-> <<>>, default |-> "asks nothing"]
IdsOf(s) == {s.channels[i].id : i \in DOMAIN s.channels}
EntryOf(s, id) == s.channels[SelectInSeq(s.channels, LAMBDA e : e.id = id)]
Entry(id, kind, options) == [id |-> id, kind |-> kind, options |-> options]

\* A document the loader accepts: entries the operator may have emptied of their
\* options by hand, with or without the secrets they need.
ChannelsInit ==
  /\ \E ids \in {<<>>} \cup {<<id>> : id \in ChannelIds}
                \cup {p \in ChannelIds \X ChannelIds : p[1] # p[2]},
        kind \in ChannelKinds, options \in {{}, {"publicUrl"}} :
       entries = IF ids = <<>> THEN NoChannels
                 ELSE [channels |-> [i \in DOMAIN ids |-> Entry(ids[i], kind, options)], default |-> ids[1]]
  /\ authtokens \in SUBSET IdsOf(entries)
  /\ edit = [copy |-> entries, cli |-> NoAdd, dashboard |-> NoAdd]
  /\ minted = [ids |-> IdsOf(entries), edits |-> 0]
  /\ probe = [list |-> entries.channels, sweeps |-> <<>>, quit |-> FALSE]
  /\ live = [id \in ChannelIds |-> [by |-> "nobody", up |-> FALSE]]
  /\ active = [id |-> entries.default, up |-> FALSE]

\* A command loads the document; an action of the dashboard takes its copy.
SettingsOf(editor) == IF editor = "cli" THEN entries ELSE edit.copy

\* The document is replaced by what the editor made of the one it read.
Persist(editor, s) ==
  /\ minted.edits < MaxChannelEdits
  /\ entries' = s
  /\ edit' = IF editor = "cli" THEN [edit EXCEPT !.cli = NoAdd]
             ELSE [edit EXCEPT !.copy = s, !.dashboard = NoAdd]

\* channel add without flags, and the dashboard's: the settings are read before
\* the questions.
StartAdd(editor) ==
  /\ edit[editor] = NoAdd
  /\ edit' = [edit EXCEPT ![editor] = SettingsOf(editor)]
  /\ UNCHANGED <<entries, authtokens, minted>>

\* addChannel: the answers, a required one among them blank or not; a static
\* channel's endpoint is probed first.  The secret goes to the credentials, the
\* rest to the entry, and the first channel becomes the default.
addChannel(editor, seed, kind, answers, forceDefault) ==
  /\ Fields(kind) \cap Required \subseteq answers
  /\ \E id \in ChannelIds \ minted.ids :
       /\ authtokens' = IF answers \cap Secret = {} THEN authtokens ELSE authtokens \cup {id}
       /\ minted' = [ids |-> minted.ids \cup {id}, edits |-> minted.edits + 1]
       /\ Persist(editor,
            [channels |-> Append(seed.channels, Entry(id, kind, answers \ Secret)),
             default  |-> IF seed.channels = <<>> \/ forceDefault THEN id ELSE seed.default])

ChannelAnswered(editor) ==
  /\ edit[editor] # NoAdd
  /\ \E kind \in ChannelKinds : \E answers \in SUBSET Fields(kind) :
       addChannel(editor, edit[editor], kind, answers, FALSE)

\* channel add with flags: nothing is asked, and --default may force it.
addChannelFlags ==
  \E kind \in ChannelKinds, force \in BOOLEAN : \E answers \in SUBSET Fields(kind) :
    addChannel("cli", entries, kind, answers, force)

\* Cancelled, a required answer left blank, or a probe that failed.
ChannelDropped(editor) ==
  /\ edit[editor] # NoAdd
  /\ edit' = [edit EXCEPT ![editor] = NoAdd]
  /\ UNCHANGED <<entries, authtokens, minted>>

\* The filter takes one entry out, as ids are minted once; the default goes with
\* its channel.
removeChannel(s, id) ==
  LET at == CHOOSE i \in DOMAIN s.channels : s.channels[i].id = id
  IN [channels |-> RemoveAt(s.channels, at),
      default  |-> IF s.default = id THEN "none" ELSE s.default]

\* channel remove: the secret goes first.
RemoveEntry(editor) ==
  /\ editor = "dashboard" => edit.dashboard = NoAdd
  /\ \E id \in IdsOf(SettingsOf(editor)) :
       /\ authtokens' = authtokens \ {id}
       /\ Persist(editor, removeChannel(SettingsOf(editor), id))
  /\ minted' = [minted EXCEPT !.edits = @ + 1]

setDefaultChannel(s, id) == [s EXCEPT !.default = id]

\* channel use.
UseEntry(editor) ==
  /\ editor = "dashboard" => edit.dashboard = NoAdd
  /\ \E id \in IdsOf(SettingsOf(editor)) : Persist(editor, setDefaultChannel(SettingsOf(editor), id))
  /\ minted' = [minted EXCEPT !.edits = @ + 1]
  /\ UNCHANGED authtokens

-----------------------------------------------------------------------------
(* A boot and doctor.                                                      *)

getCredentials(id) == IF id \in authtokens THEN Secret ELSE {}

\* The options a provider is given.
mergeOptions(entry) == entry.options \cup getCredentials(entry.id)

\* A boot without --channel: does the default channel yield a handle.
ChannelBoots(host) ==
  /\ entries.default \in IdsOf(entries)
  /\ LET entry == EntryOf(entries, entries.default) IN
       CASE entry.kind = "ngrok" -> NgrokStarts(mergeOptions(entry), host)
         [] entry.kind = "cloudflare" -> CloudflareStarts(host)
         [] OTHER -> StaticResolves(mergeOptions(entry))

\* doctor: a live channel is ready when its gate is met, a static one when its
\* endpoint answers.
ChannelCheck(entry, host) ==
  LET options == entry.options \cup getCredentials(entry.id) IN
    IF Mode(entry.kind) = "live"
    THEN IF isAvailable(entry.kind, options, host) THEN "pass" ELSE "warn"
    ELSE IF StaticProbe(options, host) THEN "pass" ELSE "warn"

-----------------------------------------------------------------------------
(* The dashboard's live states.                                            *)

\* Broken variant: a channel the server reported down is anyone's.
serverReportedUp(id) == live[id].by = "server" /\ live[id].up

\* The server has reported the channel since the dashboard started.
serverReported(id) == live[id].by = "server"

\* A server boots with what is then the default, or --channel, and reports it.
ServerBootsWith ==
  /\ active' \in [id : ChannelIds \cup {"none"}, up : BOOLEAN]
  /\ UNCHANGED <<probe, live>>

\* A line of the feed reaches the dashboard.
ServerReports ==
  /\ active.id # "none" /\ ~probe.quit
  /\ live' = [live EXCEPT ![active.id] = [by |-> "server", up |-> active.up]]
  /\ UNCHANGED <<probe, active>>

\* At launch, and with every tick of the timer, whether or not the last sweep has
\* ended: over the channels as they were when the dashboard was launched.
StartSweep ==
  /\ ~probe.quit /\ Len(probe.sweeps) < MaxSweeps
  /\ probe' = [probe EXCEPT !.sweeps = Append(@, [left |-> probe.list, awaits |-> FALSE])]
  /\ UNCHANGED <<live, active>>

Moves(s, left, awaits) == probe' = [probe EXCEPT !.sweeps[s] = [left |-> left, awaits |-> awaits]]

\* The next channel: one the server reported is passed over, and so is a live one.
SweepNext(s) ==
  LET sweep == probe.sweeps[s] IN
    /\ ~sweep.awaits /\ sweep.left # <<>>
    /\ IF probe.quit THEN Moves(s, <<>>, FALSE)
       ELSE IF serverReported(Head(sweep.left).id) \/ Mode(Head(sweep.left).kind) = "live"
            THEN Moves(s, Tail(sweep.left), FALSE)
            ELSE Moves(s, sweep.left, TRUE)
    /\ UNCHANGED <<live, active>>

\* The probe of a channel answers; what the server said meanwhile stands, and a
\* dashboard that has quit shows nothing.
ProbeAnswers(s) ==
  LET sweep == probe.sweeps[s] id == Head(sweep.left).id IN
    /\ sweep.awaits /\ Moves(s, Tail(sweep.left), FALSE)
    /\ IF probe.quit \/ serverReported(id) THEN UNCHANGED live
       ELSE \E up \in {FALSE, hasPublicUrl(Head(sweep.left).options)} :
              live' = [live EXCEPT ![id] = [by |-> "probe", up |-> up]]
    /\ UNCHANGED active

QuitDashboard ==
  /\ ~probe.quit /\ probe' = [probe EXCEPT !.quit = TRUE]
  /\ UNCHANGED <<live, active>>

ChannelsNext ==
  \/ \E editor \in {"cli", "dashboard"} :
       \/ StartAdd(editor) \/ ChannelAnswered(editor) \/ ChannelDropped(editor)
       \/ RemoveEntry(editor) \/ UseEntry(editor)
  \/ addChannelFlags

\* The dashboard's view: what the commands change of the document reaches it only
\* through the server's reports.
ProbeNext ==
  \/ ServerBootsWith \/ ServerReports \/ StartSweep \/ QuitDashboard
  \/ \E s \in DOMAIN probe.sweeps : SweepNext(s) \/ ProbeAnswers(s)

-----------------------------------------------------------------------------
(* Doctor foretells the default channel, whatever the commands and the     *)
(* dashboard did to the settings and in whatever order they overlapped:    *)
(* the default names a channel that is there; one doctor passes yields a   *)
(* handle at the next boot unless the provider's edge is out; and a live   *)
(* one it does not pass yields none.  About createChannelCheck against     *)
(* selectChannel, resolveChannelHandle and the providers.                  *)
DoctorForetellsChannel ==
  \A host \in Networks :
    LET entry == EntryOf(entries, entries.default) IN
      entries.default # "none" =>
        /\ entries.default \in IdsOf(entries)
        /\ ChannelCheck(entry, host) = "pass" => ChannelBoots(host) \/ ~host.edge
        /\ Mode(entry.kind) = "live" /\ ChannelBoots(host) => ChannelCheck(entry, host) = "pass"

(* The server stays authoritative: what it has reported of a channel, no   *)
(* probe overwrites, however long the probe was under way and however many *)
(* sweeps overlap; and after quit nothing is shown any more.  About sweep, *)
(* its re-check after the await, and the wiring in runDashboard.           *)
ServerStaysAuthoritative ==
  [][\A id \in ChannelIds :
       /\ live[id].by = "server" => live'[id].by = "server"
       /\ probe.quit => live'[id] = live[id]]_probeVars
=============================================================================
