---------------------------- MODULE OAuthServer ----------------------------
(***************************************************************************)
(* The OAuth authorization server of auth/oauth/ (dynamic registration,    *)
(* the login, authorization codes, refresh rotation, access tokens), the   *)
(* gate of auth/middleware.ts, and the file ~/.openhammer/credentials.json *)
(* that it shares, without a lock, with the processes of `openhammer auth` *)
(* and of the dashboard.                                                   *)
(*                                                                         *)
(* A handler runs to its first await, the signature of a token.  The file  *)
(* is read twice and renamed over by every writer, and other processes may *)
(* come in between, so these are steps of their own.  Requests that are    *)
(* refused before they change anything are left out.                       *)
(***************************************************************************)
EXTENDS Naturals, Sequences, FiniteSets

CONSTANTS
  Dynamic,       \* client ids that POST /register hands out
  Manual,        \* client ids that add-client hands out
  Confidential,  \* the clients with a secretHash
  CodeClients,   \* the clients with the grant authorization_code
  OwnLogin,      \* the clients with a login of their own
  Clis,          \* other processes that write the file
  Slots,         \* bound: token requests in flight
  MaxCodes,      \* bound: codes minted
  MaxRefresh,    \* bound: refresh tokens minted
  MaxMints,      \* bound: jwt secrets minted
  MaxTries,      \* bound: presentations of one code
  MaxCli,        \* bound: commands of the other processes
  MaxRestarts,   \* bound: restarts of the server
  Faults,        \* "disk": a write of the file may fail
  Null

Client == Dynamic \cup Manual

ASSUME OAuthAssumption ==
  /\ Dynamic \cap Manual = {} /\ Manual # {}
  /\ Confidential \cup CodeClients \cup OwnLogin \subseteq Client
  /\ OwnLogin \cap Dynamic = {} /\ Faults \subseteq {"disk"}
  /\ "server" \notin Clis /\ Null \notin Client \cup Slots
  /\ {MaxCodes, MaxRefresh, MaxMints, MaxTries, MaxCli, MaxRestarts} \subseteq Nat

VARIABLES
  file,        \* credentials.json: the clients, the jwt secret, an operator login
  server,      \* its state, and the secret the gate verifies with
  pending,     \* pendingClients
  codes,       \* the map codes, in the order of their minting
  refresh,     \* the map refreshTokens, in the order of their minting
  request,     \* token requests that await their signature
  update,      \* what a process is about to write to the file
  minted,      \* jwt secrets minted so far
  access,      \* access tokens handed out: who signed, who was to verify
  authorized,  \* history: clients somebody with a login stood for
  dropped,     \* history: clients that expired or went from the file
  cliOps, restarts

vars == <<file, server, pending, codes, refresh, request, update, minted,
          access, authorized, dropped, cliOps, restarts>>

ServerProc == "server"
Procs == {ServerProc} \cup Clis
NoSecret == 0

-----------------------------------------------------------------------------
(* States.                                                                  *)

EmptyFile == [clients |-> {}, jwt |-> NoSecret, login |-> FALSE]
NoUpdate == [pc |-> "none", op |-> "none", client |-> Null, slot |-> Null,
             seen |-> EmptyFile, map |-> EmptyFile]
NoRequest == [pc |-> "idle", client |-> Null, family |-> 0, secret |-> NoSecret]

Init ==
  /\ file = EmptyFile
  /\ server = [pc |-> "down", gate |-> NoSecret]
  /\ pending = {} /\ codes = <<>> /\ refresh = <<>>
  /\ request = [r \in Slots |-> NoRequest]
  /\ update = [p \in Procs |-> NoUpdate]
  /\ minted = 0 /\ access = {} /\ authorized = {} /\ dropped = {}
  /\ cliOps = 0 /\ restarts = 0

Idle(p) == update[p].pc = "none"
Serving == server.pc = "up" /\ Idle(ServerProc)

(* findClient() in the server; other processes have no pending clients.     *)
FindClient(c) == c \in pending \cup file.clients

(* The secret there is, without minting one.  OAUTH_JWT_SECRET is not set.  *)
PeekJwtSecret == file.jwt

-----------------------------------------------------------------------------
(* The file: readState(), then the read, the merge and the rename of        *)
(* setCredentials().                                                        *)

StartUpdate(p, op, c, slot) ==
  update' = [update EXCEPT ![p] =
    [NoUpdate EXCEPT !.pc = IF op = "login" THEN "map" ELSE "state",
                     !.op = op, !.client = c, !.slot = slot]]

(* What the bag becomes: the registry as it was at readState() with one     *)
(* change, and a secret only if there was one.                              *)
Registry(u) ==
  CASE u.op \in {"commit", "add"} -> u.seen.clients \cup {u.client}
    [] u.op = "remove"            -> u.seen.clients \ {u.client}
    [] u.op = "mint"              -> u.seen.clients
JwtValue(u) == IF u.op = "mint" THEN minted + 1 ELSE u.seen.jwt
Merged(u) ==
  IF u.op = "login" THEN [u.map EXCEPT !.login = TRUE]
  ELSE [u.map EXCEPT !.clients = Registry(u),
                     !.jwt = IF JwtValue(u) = NoSecret THEN @ ELSE JwtValue(u)]

(* The continuation of the server's handler: a boot ends, a request signs   *)
(* or is answered 500, a login hands out its code.                          *)
SecretResolved(u, secret) ==
  IF u.slot = Null
  THEN server' = [pc |-> "up", gate |-> secret] /\ UNCHANGED request
  ELSE /\ request' = [request EXCEPT ![u.slot] =
            IF secret = NoSecret THEN NoRequest ELSE [@ EXCEPT !.pc = "signing", !.secret = secret]]
       /\ UNCHANGED server

GenerateCode(c) ==
  codes' = Append(codes, [client |-> c, consumed |-> FALSE, expired |-> FALSE,
                          tries |-> 0, sold |-> {}])

(* commitClient() keeps a client pending when the write fails.              *)
PendingAfterCommit(c, written) == IF written THEN pending \ {c} ELSE pending

Finish(p, written) ==
  LET u == update[p]
  IN  /\ update' = [update EXCEPT ![p] = NoUpdate]
      /\ CASE u.op = "commit" -> /\ pending' = PendingAfterCommit(u.client, written)
                                 /\ GenerateCode(u.client)
                                 /\ UNCHANGED <<server, request>>
           [] u.op = "mint"   -> /\ SecretResolved(u, IF written THEN minted + 1 ELSE NoSecret)
                                 /\ UNCHANGED <<pending, codes>>
           [] OTHER           -> UNCHANGED <<server, request, pending, codes>>

(* readState(): a client already gone, or a secret already there, ends it.  *)
ReadState(p) ==
  LET u == update[p]
  IN  /\ u.pc = "state"
      /\ \/ /\ u.op = "remove" /\ u.client \notin file.clients
            /\ update' = [update EXCEPT ![p] = NoUpdate]
            /\ UNCHANGED <<server, request>>
         \/ /\ u.op = "mint" /\ file.jwt # NoSecret
            /\ update' = [update EXCEPT ![p] = NoUpdate]
            /\ SecretResolved(u, file.jwt)
         \/ /\ u.op = "remove" => u.client \in file.clients
            /\ u.op = "mint" => file.jwt = NoSecret
            /\ update' = [update EXCEPT ![p].pc = "map", ![p].seen = file]
            /\ UNCHANGED <<server, request>>
  /\ UNCHANGED <<file, pending, codes, refresh, minted, access, authorized, dropped,
                 cliOps, restarts>>

ReadMap(p) ==
  /\ update[p].pc = "map"
  /\ update' = [update EXCEPT ![p].pc = "rename", ![p].map = file]
  /\ UNCHANGED <<file, server, pending, codes, refresh, request, minted, access,
                 authorized, dropped, cliOps, restarts>>

Rename(p) ==
  /\ update[p].pc = "rename"
  /\ minted' = IF update[p].op = "mint" THEN minted + 1 ELSE minted
  /\ minted' <= MaxMints
  /\ file' = Merged(update[p])
  /\ dropped' = dropped \cup (file.clients \ file'.clients)
  /\ Finish(p, TRUE)
  /\ UNCHANGED <<refresh, access, authorized, cliOps, restarts>>

(* The directory or the temporary file cannot be written, or the process of *)
(* a command ends before its rename: the file stays as it was.              *)
WriteFails(p) ==
  /\ update[p].pc = "rename" /\ "disk" \in Faults
  /\ Finish(p, FALSE)
  /\ UNCHANGED <<file, refresh, minted, access, authorized, dropped, cliOps, restarts>>

-----------------------------------------------------------------------------
(* The server: boot, registration, login.                                   *)

(* main() resolves the secret of the gate once.                             *)
Boot ==
  /\ server.pc = "down"
  /\ \/ /\ PeekJwtSecret # NoSecret /\ server' = [pc |-> "up", gate |-> PeekJwtSecret]
        /\ UNCHANGED update
     \/ /\ PeekJwtSecret = NoSecret /\ server' = [server EXCEPT !.pc = "boot"]
        /\ StartUpdate(ServerProc, "mint", Null, Null)
  /\ UNCHANGED <<file, pending, codes, refresh, request, minted, access, authorized,
                 dropped, cliOps, restarts>>

(* The stores of the process go with it.                                    *)
Restart ==
  /\ server.pc # "down" /\ restarts < MaxRestarts
  /\ restarts' = restarts + 1
  /\ server' = [pc |-> "down", gate |-> NoSecret]
  /\ pending' = {} /\ codes' = <<>> /\ refresh' = <<>>
  /\ request' = [r \in Slots |-> NoRequest]
  /\ update' = [update EXCEPT ![ServerProc] = NoUpdate]
  /\ UNCHANGED <<file, minted, access, authorized, dropped, cliOps>>

(* issueClient(): staged in memory for a registration, written for a        *)
(* command.                                                                 *)
IssueClient(p, c) ==
  IF p = ServerProc THEN pending' = pending \cup {c} /\ UNCHANGED update
  ELSE StartUpdate(p, "add", c, Null) /\ UNCHANGED pending

(* POST /register.  An id is handed out once.                               *)
Register(c) ==
  /\ Serving /\ c \in Dynamic /\ ~FindClient(c) /\ c \notin dropped \cup authorized
  /\ IssueClient(ServerProc, c)
  /\ UNCHANGED <<file, server, codes, refresh, request, minted, access,
                 authorized, dropped, cliOps, restarts>>

(* Every lookup prunes first, so an expired registration is as good as gone.*)
PendingExpires(c) ==
  /\ Serving /\ c \in pending
  /\ pending' = pending \ {c} /\ dropped' = dropped \cup {c}
  /\ UNCHANGED <<file, server, codes, refresh, request, update, minted, access,
                 authorized, cliOps, restarts>>

(* loginValid(): the client's own login, else the operator's.               *)
VerifyClientLogin(c, right) == c \in OwnLogin /\ right
VerifyOperatorLogin(right)  == file.login /\ right
LoginValid(c, right) ==
  IF c \in OwnLogin THEN VerifyClientLogin(c, right) ELSE VerifyOperatorLogin(right)

(* POST /oauth/authorize with a redirect_uri of the client.  Broken         *)
(* variant: the client is committed before its login is looked at.          *)
CommitsEarly(c, right) == c \in pending
Commits(c, right) == c \in pending /\ LoginValid(c, right)

Login(c, right) ==
  /\ Serving /\ FindClient(c) /\ Len(codes) < MaxCodes
  /\ Commits(c, right) \/ LoginValid(c, right)
  /\ authorized' = IF LoginValid(c, right) THEN authorized \cup {c} ELSE authorized
  /\ IF Commits(c, right)
     THEN StartUpdate(ServerProc, "commit", c, Null) /\ UNCHANGED codes
     ELSE GenerateCode(c) /\ UNCHANGED update
  /\ UNCHANGED <<file, server, pending, refresh, request, minted, access, dropped,
                 cliOps, restarts>>

-----------------------------------------------------------------------------
(* POST /oauth/token.                                                       *)

(* resolveJwtSecret(), then the await of signAccessToken().                 *)
ResolveAndSign(r, c, family) ==
  IF PeekJwtSecret # NoSecret
  THEN /\ request' = [request EXCEPT ![r] =
            [pc |-> "signing", client |-> c, family |-> family, secret |-> PeekJwtSecret]]
       /\ UNCHANGED update
  ELSE /\ request' = [request EXCEPT ![r] =
            [NoRequest EXCEPT !.pc = "minting", !.client = c, !.family = family]]
       /\ StartUpdate(ServerProc, "mint", Null, r)

SecretRight(c, right) == c \in Confidential => "secret" \in right

(* consumeCode(): the code is spent before the rest is compared.  Broken    *)
(* variant: only a presentation that fits spends it.                        *)
Fits(k, c, right) ==
  ~codes[k].expired /\ codes[k].client = c /\ "verifier" \in right
SpentIfFits(k, c, right) == codes[k].consumed \/ Fits(k, c, right)
Spent(k, c, right) == TRUE

(* authorization_code: right names what was presented rightly.              *)
Exchange(r, k, c, right) ==
  /\ Serving /\ request[r].pc = "idle" /\ codes[k].tries < MaxTries
  /\ FindClient(c) /\ c \in CodeClients /\ SecretRight(c, right)
  /\ LET sells == ~codes[k].consumed /\ Fits(k, c, right) /\ "redirect" \in right
         try   == codes[k].tries + 1
     IN  /\ codes' = [codes EXCEPT ![k].consumed = Spent(k, c, right), ![k].tries = try,
                                   ![k].sold = IF sells THEN @ \cup {try} ELSE @]
         /\ IF sells THEN ResolveAndSign(r, c, k) ELSE UNCHANGED <<request, update>>
  /\ UNCHANGED <<file, server, pending, refresh, minted, access, authorized, dropped,
                 cliOps, restarts>>

(* client_credentials: no refresh token comes with it.                      *)
MachineGrant(r, c) ==
  /\ Serving /\ request[r].pc = "idle" /\ FindClient(c) /\ c \in Confidential
  /\ ResolveAndSign(r, c, 0)
  /\ UNCHANGED <<file, server, pending, codes, refresh, minted, access, authorized,
                 dropped, cliOps, restarts>>

(* redeemRefreshToken(): the token is spent before the await.  Broken       *)
(* variant: it is spent by the answer, so a second request may overtake.    *)
RedeemedByTheAnswer(t) == refresh
Redeemed(t) == [refresh EXCEPT ![t].used = TRUE]

Refresh(r, t) ==
  /\ Serving /\ request[r].pc = "idle"
  /\ ~refresh[t].used /\ ~refresh[t].expired
  /\ refresh' = Redeemed(t)
  /\ ResolveAndSign(r, refresh[t].client, refresh[t].family)
  /\ UNCHANGED <<file, server, pending, codes, minted, access, authorized, dropped,
                 cliOps, restarts>>

(* The signature is there: the answer leaves, and may be lost on its way.   *)
WithRefresh(family) == family # 0
Answer(r) ==
  /\ Serving /\ request[r].pc = "signing" /\ Len(refresh) < MaxRefresh
  /\ LET q == request[r]
     IN  /\ access' = access \cup {[secret |-> q.secret, gate |-> server.gate]}
         /\ refresh' = IF WithRefresh(q.family)
                       THEN Append(refresh, [client |-> q.client, family |-> q.family,
                                             used |-> FALSE, expired |-> FALSE])
                       ELSE refresh
  /\ request' = [request EXCEPT ![r] = NoRequest]
  /\ UNCHANGED <<file, server, pending, codes, update, minted, authorized, dropped,
                 cliOps, restarts>>

(* Ten minutes, or thirty days.                                             *)
CodeExpires(k) ==
  /\ ~codes[k].expired /\ ~codes[k].consumed
  /\ codes' = [codes EXCEPT ![k].expired = TRUE]
  /\ UNCHANGED <<file, server, pending, refresh, request, update, minted, access,
                 authorized, dropped, cliOps, restarts>>
RefreshExpires(t) ==
  /\ ~refresh[t].expired /\ ~refresh[t].used
  /\ refresh' = [refresh EXCEPT ![t].expired = TRUE]
  /\ UNCHANGED <<file, server, pending, codes, request, update, minted, access,
                 authorized, dropped, cliOps, restarts>>

(* The gate of /mcp: a token is verified with the secret of the boot, if    *)
(* there was one.                                                           *)
Admits(gate, token) == gate # NoSecret /\ token.secret = gate

-----------------------------------------------------------------------------
(* openhammer auth, and the panel of the dashboard.                         *)

AddClient(p, c) ==
  /\ c \in Manual \ (authorized \cup dropped)
  /\ IssueClient(p, c) /\ authorized' = authorized \cup {c}
RemoveClient(p, c) ==
  c \in file.clients /\ StartUpdate(p, "remove", c, Null) /\ UNCHANGED authorized
SetLogin(p) == StartUpdate(p, "login", Null, Null) /\ UNCHANGED authorized

AuthCommand(p) ==
  /\ Idle(p) /\ cliOps < MaxCli /\ cliOps' = cliOps + 1
  /\ \/ \E c \in Client : AddClient(p, c) \/ RemoveClient(p, c)
     \/ SetLogin(p)
  /\ UNCHANGED <<file, server, pending, codes, refresh, request, minted, access,
                 dropped, restarts>>

-----------------------------------------------------------------------------
Next ==
  \/ Boot \/ Restart
  \/ \E c \in Client : \/ Register(c) \/ PendingExpires(c)
                       \/ \E right \in BOOLEAN : Login(c, right)
  \/ \E r \in Slots :
       \/ \E k \in DOMAIN codes, c \in Client, right \in SUBSET {"secret", "verifier", "redirect"} :
            Exchange(r, k, c, right)
       \/ \E c \in Client : MachineGrant(r, c)
       \/ \E t \in DOMAIN refresh : Refresh(r, t)
       \/ Answer(r)
  \/ \E k \in DOMAIN codes : CodeExpires(k)
  \/ \E t \in DOMAIN refresh : RefreshExpires(t)
  \/ \E p \in Clis : AuthCommand(p)
  \/ \E p \in Procs : ReadState(p) \/ ReadMap(p) \/ Rename(p) \/ WriteFails(p)

Spec == Init /\ [][Next]_vars

-----------------------------------------------------------------------------
(* Properties.                                                              *)

Secret == 0 .. MaxMints
CredentialsFile == [clients : SUBSET Client, jwt : Secret, login : BOOLEAN]
Code == [client : Client, consumed : BOOLEAN, expired : BOOLEAN,
         tries : 0 .. MaxTries, sold : SUBSET (1 .. MaxTries)]
RefreshToken == [client : Client, family : 1 .. MaxCodes, used : BOOLEAN, expired : BOOLEAN]
TokenRequest == [pc : {"idle", "minting", "signing"}, client : Client \cup {Null},
                 family : 0 .. MaxCodes, secret : Secret]
Update == [pc : {"none", "state", "map", "rename"},
           op : {"none", "commit", "mint", "add", "remove", "login"},
           client : Client \cup {Null}, slot : Slots \cup {Null},
           seen : CredentialsFile, map : CredentialsFile]

TypeOK ==
  /\ file \in CredentialsFile
  /\ server \in [pc : {"down", "boot", "up"}, gate : Secret]
  /\ pending \subseteq Dynamic /\ authorized \subseteq Client /\ dropped \subseteq Client
  /\ codes \in Seq(Code) /\ Len(codes) <= MaxCodes
  /\ refresh \in Seq(RefreshToken) /\ Len(refresh) <= MaxRefresh
  /\ request \in [Slots -> TokenRequest] /\ update \in [Procs -> Update]
  /\ minted \in Secret /\ access \subseteq [secret : Secret \ {NoSecret}, gate : Secret]
  /\ cliOps \in 0 .. MaxCli /\ restarts \in 0 .. MaxRestarts

(* A code buys tokens with its first presentation or never: a wrong          *)
(* verifier, client or redirect spends it, and requests that overlap at the *)
(* signature, or at a write of the file, do not share it.                    *)
CodeBuysOnce == \A k \in DOMAIN codes : codes[k].sold \subseteq {1}

(* Rotation: one login has at most one refresh token that works, counting    *)
(* the one a request in flight is about to be handed.                        *)
Live(k) == {t \in DOMAIN refresh : refresh[t].family = k /\ ~refresh[t].used}
InFlight(k) == {r \in Slots : request[r].family = k}
OneLiveRefresh ==
  \A k \in DOMAIN codes : Cardinality(Live(k)) + Cardinality(InFlight(k)) <= 1

(* Registrations nobody logged in for never reach the disk.                 *)
AbandonedNeverPersisted == file.clients \subseteq authorized

(* A code that can still be exchanged belongs to a client the server can    *)
(* still find, also when the write that was to persist it failed; unless    *)
(* the client expired, was removed, or was overwritten by another process.  *)
LiveCodeHasItsClient ==
  \A k \in DOMAIN codes :
    ~codes[k].consumed /\ ~codes[k].expired /\ codes[k].client \notin dropped
      => FindClient(codes[k].client)

(* A registration lives as long as its login needs it: it reaches the disk  *)
(* with a login and not before, and is found until its code is spent.       *)
RegistrationsFollowLogins == AbandonedNeverPersisted /\ LiveCodeHasItsClient

(* An access token passes the gate of the server that issued it, until it    *)
(* expires: grants and gate use one secret.                                 *)
GrantVerifiesAtTheGate == \A a \in access : Admits(a.gate, a)
=============================================================================
