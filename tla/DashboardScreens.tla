---------------------------- MODULE DashboardScreens ----------------------------
(***************************************************************************)
(* What the operator's keys do: the screens of the dashboard, their rows   *)
(* and the row in focus (tui/dashboard/root.ts, screens.ts), the actions a *)
(* row starts, and the modals that take the keys away (withModal of        *)
(* tui/dashboard.ts over suspend and resume of render.ts).                 *)
(*                                                                         *)
(* A row's action is awaited while the keys work on, unless it opens a     *)
(* modal: the golden build, the read of the serial log and the sandbox     *)
(* commands finish on whatever screen is shown by then.  Lists change      *)
(* under the focus: the vm-state line, the golden image and the clients    *)
(* decide which rows there are.                                            *)
(*                                                                         *)
(* Left out: the text of rows, headers and flashes, and what the actions   *)
(* do to the settings, which Dashboard models.                             *)
(***************************************************************************)
EXTENDS Naturals, Sequences

CONSTANTS MaxClients,  \* bound: OAuth clients ever issued
          MaxChannels  \* bound: channels

ASSUME ScreensAssumption == MaxClients \in Nat /\ MaxChannels \in Nat

VARIABLES ui,     \* DashboardRoot: screen, focus, menuFocus, reveal
          lists,  \* what the store says the rows are
          file,   \* the clients in the credentials file, and the number ever issued
          waits,  \* the awaits of activate() that are open
          keys    \* whether input reaches the dashboard

screenVars == <<ui, lists, file, waits, keys>>

Menu == <<"status", "channels", "clients", "monitor", "settings", "doctor", "sandbox", "quit">>
Section(s) == [kind |-> "section", of |-> s, id |-> 0]
Screen(kind, id) == [kind |-> kind, of |-> "", id |-> id]

ScreensInit ==
  /\ ui = [screen |-> Screen("menu", 0), focus |-> 0, menuFocus |-> 0, reveal |-> 0]
  /\ lists \in [channels : 0 .. MaxChannels, clients : {<<>>}, golden : BOOLEAN,
                session : {"over"}, sandboxed : BOOLEAN]
  /\ lists.sandboxed => lists.golden
  /\ file = [clients |-> <<>>, issued |-> 0]
  /\ waits = [modal |-> "none", build |-> "no", serial |-> "no"]
  /\ keys = TRUE

-----------------------------------------------------------------------------
(* The rows of each screen: the labels that activate() compares.           *)

Only(row, condition) == IF condition THEN <<row>> ELSE <<>>

channelItems == [i \in 1 .. lists.channels |-> "channel"] \o <<"add">>
clientItems  == <<"login">> \o [i \in 1 .. Len(lists.clients) |-> "client"] \o <<"issue">>

\* A channel that is gone leaves only the way back; so does a client.
channelDetailItems(id) == Only("use", id <= lists.channels) \o Only("remove", id <= lists.channels) \o <<"back">>
clientDetailItems(id) ==
  Only("remove", \E i \in 1 .. Len(lists.clients) : lists.clients[i] = id) \o <<"back">>

sandboxItems ==
  LET active == lists.session \in {"booting", "ready"}
  IN Only("start", ~active) \o Only("off", lists.sandboxed)
     \o <<"stop", "restart", "modal", "serial">>  \* "modal": configure, guest setup, secrets, provision.sh
     \o Only("modal", lists.session = "ready")    \* default agent, theme
     \o Only("install", ~lists.golden /\ ~active) \o <<"back">>

Rows ==
  CASE ui.screen.kind = "menu"           -> Menu
    [] ui.screen.kind = "channel-detail" -> channelDetailItems(ui.screen.id)
    [] ui.screen.kind = "client-detail"  -> clientDetailItems(ui.screen.id)
    [] ui.screen.kind = "build"          -> <<"back">>
    [] ui.screen.kind = "serial"         -> <<"refresh", "back">>
    [] ui.screen.of \in {"status", "monitor"} -> <<"back">>
    [] ui.screen.of \in {"settings", "doctor"} -> <<"modal", "back">>
    [] ui.screen.of = "channels" -> channelItems
    [] ui.screen.of = "clients"  -> clientItems
    [] ui.screen.of = "sandbox"  -> sandboxItems

Shows(screen) == [ui EXCEPT !.screen = screen, !.focus = 0]

\* back(), from whatever screen is shown.
Back ==
  CASE ui.screen.kind = "menu" -> ui
    [] ui.screen.kind = "section" ->
         [ui EXCEPT !.screen = Screen("menu", 0), !.focus = ui.menuFocus,
                    !.reveal = IF ui.screen.of = "clients" THEN 0 ELSE @]
    [] ui.screen.kind = "channel-detail" -> Shows(Section("channels"))
    [] ui.screen.kind = "client-detail"  -> Shows(Section("clients"))
    [] OTHER -> Shows(Section("sandbox"))

-----------------------------------------------------------------------------
(* Keys that move.                                                         *)

Up   == keys /\ ui.focus > 0 /\ ui' = [ui EXCEPT !.focus = @ - 1] /\ UNCHANGED <<lists, file, waits, keys>>

\* A focus beyond a list that has shrunk comes back to its last row.
Down ==
  /\ keys
  /\ ui' = [ui EXCEPT !.focus = IF ui.focus + 1 < Len(Rows) THEN ui.focus + 1 ELSE Len(Rows) - 1]
  /\ UNCHANGED <<lists, file, waits, keys>>

Escape == keys /\ ui' = Back /\ UNCHANGED <<lists, file, waits, keys>>

Quit_ ==
  /\ keys /\ keys' = FALSE
  /\ ui' = Shows(Screen("gone", 0))
  /\ waits' = [modal |-> "none", build |-> "no", serial |-> "no"]
  /\ UNCHANGED <<lists, file>>

\* Enter on a row that is there.
On(row) == keys /\ ui.focus < Len(Rows) /\ Rows[ui.focus + 1] = row

EnterSection ==
  /\ ui.screen.kind = "menu"
  /\ \E i \in 1 .. Len(Menu) - 1 :
       /\ On(Menu[i])
       /\ ui' = [ui EXCEPT !.menuFocus = ui.focus, !.screen = Section(Menu[i]), !.focus = 0]
       /\ lists' = IF Menu[i] = "clients" THEN [lists EXCEPT !.clients = file.clients] ELSE lists
  /\ UNCHANGED <<file, waits, keys>>

EnterQuit == ui.screen.kind = "menu" /\ On("quit") /\ Quit_

EnterDetail ==
  /\ \/ On("channel") /\ ui' = Shows(Screen("channel-detail", ui.focus + 1))
     \/ On("client") /\ ui' = [Shows(Screen("client-detail", lists.clients[ui.focus])) EXCEPT !.reveal = 0]
  /\ UNCHANGED <<lists, file, waits, keys>>

\* The Back rows of the build and of the serial screen are rows without an action.
EnterBack ==
  /\ On("back")
  /\ ui' = IF ui.screen.kind \in {"build", "serial"} THEN ui ELSE Back
  /\ UNCHANGED <<lists, file, waits, keys>>

-----------------------------------------------------------------------------
(* Actions in a modal.                                                     *)

\* One modal started by a key at a time; the build's question may open over it.
\* Those whose outcome is only flashed are one and the same, "modal".
EnterModal ==
  /\ waits.modal = "none"
  /\ \E row \in {"add", "login", "issue", "use", "remove", "start", "off", "stop", "modal"} :
       /\ On(row)
       /\ waits' = [waits EXCEPT !.modal = CASE row = "remove" -> ui.screen.kind
                                              [] row \in {"login", "use", "stop"} -> "modal"
                                              [] OTHER -> row]
  /\ keys' = FALSE
  /\ UNCHANGED <<ui, lists, file>>

\* Broken variant: an action that throws leaves the renderer suspended.
ModalThrowsSuspended ==
  /\ waits.modal # "none" /\ waits' = [waits EXCEPT !.modal = "none"]
  /\ UNCHANGED <<ui, lists, file, keys>>

\* The action throws: the modal closes, a flash says so.
ModalThrows ==
  /\ waits.modal # "none" /\ waits' = [waits EXCEPT !.modal = "none"]
  /\ keys' = TRUE
  /\ UNCHANGED <<ui, lists, file>>

ModalCloses ==
  /\ waits.modal # "none" /\ waits' = [waits EXCEPT !.modal = "none"]
  /\ keys' = TRUE

\* Cancelled, or an action whose result is only flashed.
ModalFlashes ==
  /\ ModalCloses
  /\ lists' \in {lists} \cup
       (CASE waits.modal = "add" -> {[lists EXCEPT !.channels = @ + 1]}
          [] waits.modal = "off" -> {[lists EXCEPT !.sandboxed = FALSE]}
          [] waits.modal = "start" /\ lists.golden -> {[lists EXCEPT !.sandboxed = TRUE]}
          [] OTHER -> {})
  /\ lists'.channels <= MaxChannels
  /\ UNCHANGED <<ui, file>>

\* The secret is shown by the clients screen from now on, whichever is open.
ClientIssued ==
  /\ waits.modal = "issue" /\ ModalCloses /\ file.issued < MaxClients
  /\ file' = [clients |-> Append(file.clients, file.issued + 1), issued |-> file.issued + 1]
  /\ lists' = [lists EXCEPT !.clients = file'.clients]
  /\ ui' = [ui EXCEPT !.reveal = file'.issued]

\* The id was taken from the screen at the key; the way back is from the
\* screen shown now.
ClientRemoved ==
  /\ waits.modal = "client-detail" /\ ModalCloses
  /\ \E c \in {lists.clients[i] : i \in 1 .. Len(lists.clients)} :
       /\ ui.screen.kind = "client-detail" => c = ui.screen.id
       /\ file' = [file EXCEPT !.clients = SelectSeq(@, LAMBDA d : d # c)]
  /\ lists' = [lists EXCEPT !.clients = file'.clients]
  /\ ui' = Back

ChannelRemoved_ ==
  /\ waits.modal = "channel-detail" /\ lists.channels > 0 /\ ModalCloses
  /\ lists' = [lists EXCEPT !.channels = @ - 1]
  /\ ui' = Back
  /\ UNCHANGED file

-----------------------------------------------------------------------------
(* Actions beside the keys.                                                *)

\* restartSandbox runs beside the keys too, but only flashes.
ReadSerial ==
  /\ waits.serial = "no"
  /\ \/ On("serial") /\ waits' = [waits EXCEPT !.serial = "open"]
     \/ On("refresh") /\ waits' = [waits EXCEPT !.serial = "refresh"]
  /\ UNCHANGED <<ui, lists, file, keys>>

\* The tail is shown, or its rows are read again; or there is no log yet.
SerialRead ==
  /\ waits.serial # "no"
  /\ waits' = [waits EXCEPT !.serial = "no"]
  /\ ui' \in {ui, IF waits.serial = "open" THEN Shows(Screen("serial", 0)) ELSE [ui EXCEPT !.focus = 0]}
  /\ UNCHANGED <<lists, file, keys>>

\* The build screen is shown; a second build is refused there.
InstallPressed ==
  /\ On("install")
  /\ ui' = Shows(Screen("build", 0))
  /\ waits' = [waits EXCEPT !.build = IF @ = "no" THEN "building" ELSE @]
  /\ UNCHANGED <<lists, file, keys>>

\* A failure stays on the screen; a success asks whether to start.
BuildFails == waits.build = "building" /\ waits' = [waits EXCEPT !.build = "no"] /\ UNCHANGED <<ui, lists, file, keys>>

BuildSucceeds ==
  /\ waits.build = "building"
  /\ waits' = [waits EXCEPT !.build = "asking"]
  /\ lists' = [lists EXCEPT !.golden = TRUE]
  /\ keys' = FALSE
  /\ UNCHANGED <<ui, file>>

\* Declined, or the start it chained is over: one level back from where we are.
BuildAnswered ==
  /\ waits.build = "asking"
  /\ waits' = [waits EXCEPT !.build = "no"]
  /\ keys' = TRUE
  /\ ui' = Back
  /\ lists' \in {lists, [lists EXCEPT !.sandboxed = TRUE]}
  /\ UNCHANGED file

\* A vm-state line, "over" for stopped and error; `auth client` in another terminal.
VmLine ==
  /\ lists.sandboxed /\ ui.screen.kind # "gone"
  /\ \E s \in {"booting", "ready", "over"} : s # lists.session /\ lists' = [lists EXCEPT !.session = s]
  /\ UNCHANGED <<ui, file, waits, keys>>

ClientsElsewhere ==
  /\ ui.screen.kind # "gone"
  /\ \/ file.issued < MaxClients /\ file' = [clients |-> Append(file.clients, file.issued + 1), issued |-> file.issued + 1]
     \/ file.clients # <<>> /\ file' = [file EXCEPT !.clients = Tail(@)]
  /\ UNCHANGED <<ui, lists, waits, keys>>

ScreensNext ==
  \/ Up \/ Down \/ Escape \/ Quit_ \/ EnterSection \/ EnterQuit \/ EnterDetail \/ EnterBack
  \/ EnterModal \/ ModalThrows \/ ModalFlashes \/ ClientIssued \/ ClientRemoved \/ ChannelRemoved_
  \/ ReadSerial \/ SerialRead
  \/ InstallPressed \/ BuildFails \/ BuildSucceeds \/ BuildAnswered
  \/ VmLine \/ ClientsElsewhere

ScreensSpec == ScreensInit /\ [][ScreensNext]_screenVars

-----------------------------------------------------------------------------
ScreensTypeOK == ui.focus \in 0 .. 15 /\ keys \in BOOLEAN /\ lists.channels \in 0 .. MaxChannels

(* The keys are dead only while a question or a wizard is open: whatever   *)
(* an action's outcome, also when it throws, and although suspend and      *)
(* resume of overlapping modals are not nested.  About withModal and the   *)
(* suspend of issueClient.                                                 *)
KeysComeBack ==
  ~keys => waits.modal # "none" \/ waits.build = "asking" \/ ui.screen.kind = "gone"
=============================================================================
