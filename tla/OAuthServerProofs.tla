--------------------------- MODULE OAuthServerProofs ---------------------------
(***************************************************************************)
(* Theorems about OAuthServer.tla, for any set of clients, of processes    *)
(* that write the file and of requests in flight, and for every bound.     *)
(***************************************************************************)
EXTENDS OAuthServer, SequenceTheorems, FiniteSetTheorems, TLAPS

(* The server writes commits and secrets, other processes the rest; a       *)
(* commit is of a client that stays pending until it is over, and leaves    *)
(* room for its code.                                                       *)
UpdatesByRole ==
  /\ \A p \in Procs : update[p].pc # "none" =>
       /\ update[p].op \in IF p = ServerProc THEN {"commit", "mint"} ELSE {"add", "remove", "login"}
       /\ update[p].op \in {"commit", "add", "remove"} => update[p].client \in Client
  /\ update[ServerProc].pc # "none" /\ update[ServerProc].op = "commit" =>
       update[ServerProc].client \in pending /\ Len(codes) < MaxCodes

(* A request in flight has a client, and what it is signed with exists; a   *)
(* secret is minted for the boot or for a request that waits for it.        *)
RequestsAreWhole ==
  /\ \A r \in Slots : /\ request[r].pc # "idle" => request[r].client \in Client
                      /\ request[r].pc = "idle" => request[r].family = 0
                      /\ request[r].pc = "signing" => request[r].secret # NoSecret
  /\ update[ServerProc].pc # "none" /\ update[ServerProc].slot # Null =>
       request[update[ServerProc].slot].pc = "minting"

(* Whatever a process has read of the file, or is about to add to it, was   *)
(* stood for by a login.                                                    *)
WritesAreAuthorized ==
  \A p \in Procs :
    /\ update[p].seen.clients \cup update[p].map.clients \subseteq authorized
    /\ update[p].pc # "none" /\ update[p].op \in {"commit", "add"} => update[p].client \in authorized

(* A code nobody presented is unspent, and a code that was presented is     *)
(* spent.                                                                   *)
PresentedMeansSpent ==
  \A k \in DOMAIN codes : ~codes[k].consumed => codes[k].tries = 0 /\ codes[k].sold = {}

(* Tokens, and requests that will hand one out, come from a code that sold. *)
FromSoldCode(k) == k \in DOMAIN codes /\ codes[k].sold # {}
FamiliesAreSold ==
  /\ \A t \in DOMAIN refresh : FromSoldCode(refresh[t].family)
  /\ \A r \in Slots : request[r].family # 0 => FromSoldCode(request[r].family)

(* The right to the next refresh token of a family is in one place: a token *)
(* that was not used, or a request in flight.                               *)
OneHolder ==
  \A k \in DOMAIN codes :
    /\ \A t, u \in Live(k) : t = u
    /\ \A r, s \in InFlight(k) : r = s
    /\ Live(k) = {} \/ InFlight(k) = {}

OAuthInv ==
  /\ TypeOK /\ UpdatesByRole /\ RequestsAreWhole
  /\ RegistrationsFollowLogins /\ WritesAreAuthorized
  /\ CodeBuysOnce /\ PresentedMeansSpent
  /\ FamiliesAreSold /\ OneHolder

-----------------------------------------------------------------------------
(* Types.                                                                   *)

LEMMA Bounds ==
  /\ MaxCodes \in Nat /\ MaxRefresh \in Nat /\ MaxMints \in Nat /\ MaxTries \in Nat
  /\ MaxCli \in Nat /\ MaxRestarts \in Nat
  /\ ServerProc \in Procs /\ ServerProc \notin Clis /\ NoSecret \in Secret
  /\ Dynamic \subseteq Client /\ Manual \subseteq Client
BY OAuthAssumption DEF ServerProc, Procs, NoSecret, Secret, Client

(* The records that stand for nothing have their types.                     *)
LEMMA NullTypes ==
  /\ EmptyFile \in CredentialsFile /\ NoUpdate \in Update /\ NoRequest \in TokenRequest
<1>1. EmptyFile \in CredentialsFile
  BY Bounds DEF EmptyFile, CredentialsFile
<1>2. NoUpdate \in Update
  BY <1>1 DEF NoUpdate, Update
<1>3. NoRequest \in TokenRequest
  BY Bounds DEF NoRequest, TokenRequest
<1>4. QED
  BY <1>1, <1>2, <1>3

LEMMA InitType == Init => TypeOK
<1>1. SUFFICES ASSUME Init PROVE TypeOK
  OBVIOUS
<1>2. codes \in Seq(Code) /\ Len(codes) <= MaxCodes
  BY <1>1, Bounds DEF Init
<1>3. refresh \in Seq(RefreshToken) /\ Len(refresh) <= MaxRefresh
  BY <1>1, Bounds DEF Init
<1>4. request \in [Slots -> TokenRequest] /\ update \in [Procs -> Update]
  BY <1>1, NullTypes DEF Init
<1>5. QED
  BY <1>1, <1>2, <1>3, <1>4, NullTypes, Bounds DEF Init, TypeOK, Secret

(* A process begins an update.                                              *)
LEMMA StartUpdateType ==
  ASSUME TypeOK, NEW p \in Procs, NEW op \in {"commit", "mint", "add", "remove", "login"},
         NEW c \in Client \cup {Null}, NEW slot \in Slots \cup {Null},
         StartUpdate(p, op, c, slot)
  PROVE  /\ update' \in [Procs -> Update]
         /\ update'[p] = [NoUpdate EXCEPT !.pc = IF op = "login" THEN "map" ELSE "state",
                                          !.op = op, !.client = c, !.slot = slot]
         /\ \A q \in Procs \ {p} : update'[q] = update[q]
<1> DEFINE u == [NoUpdate EXCEPT !.pc = IF op = "login" THEN "map" ELSE "state",
                                 !.op = op, !.client = c, !.slot = slot]
<1>1. u \in Update
  BY NullTypes DEF Update
<1>2. update' = [update EXCEPT ![p] = u]
  BY DEF StartUpdate
<1>3. QED
  BY <1>1, <1>2 DEF TypeOK

(* What a rename puts in place of the file is a file.                       *)
LEMMA MergedType ==
  ASSUME TypeOK, UpdatesByRole, NEW p \in Procs, update[p].pc = "rename",
         update[p].op = "mint" => minted + 1 <= MaxMints
  PROVE  Merged(update[p]) \in CredentialsFile
<1> DEFINE u == update[p]
<1>1. /\ u.seen \in CredentialsFile /\ u.map \in CredentialsFile
      /\ u.op \in {"commit", "mint", "add", "remove", "login"}
      /\ u.op \in {"commit", "add", "remove"} => u.client \in Client
  BY DEF TypeOK, UpdatesByRole, Update
<1>2. CASE u.op = "login"
  BY <1>1, <1>2 DEF Merged, CredentialsFile
<1>3. CASE u.op # "login"
  <2>1. Registry(u) \in SUBSET Client
    BY <1>1, <1>3 DEF Registry, CredentialsFile
  <2>2. JwtValue(u) \in Secret /\ u.map.jwt \in Secret
    BY <1>1, Bounds DEF JwtValue, CredentialsFile, TypeOK, Secret
  <2>3. Merged(u) = [u.map EXCEPT !.clients = Registry(u),
                                  !.jwt = IF JwtValue(u) = NoSecret THEN @ ELSE JwtValue(u)]
    BY <1>3 DEF Merged
  <2>4. QED
    BY <1>1, <2>1, <2>2, <2>3 DEF CredentialsFile
<1>4. QED
  BY <1>2, <1>3

(* A handler goes on with a secret, or without one.                         *)
LEMMA SecretResolvedType ==
  ASSUME TypeOK, NEW u \in Update, NEW secret \in Secret, SecretResolved(u, secret)
  PROVE  /\ server' \in [pc : {"down", "boot", "up"}, gate : Secret]
         /\ request' \in [Slots -> TokenRequest]
<1>1. CASE u.slot = Null
  BY <1>1 DEF SecretResolved, TypeOK
<1>2. CASE u.slot # Null
  <2>1. u.slot \in Slots /\ request[u.slot] \in TokenRequest
    BY <1>2 DEF Update, TypeOK
  <2>2. (IF secret = NoSecret THEN NoRequest
         ELSE [request[u.slot] EXCEPT !.pc = "signing", !.secret = secret]) \in TokenRequest
    BY <2>1, NullTypes DEF TokenRequest
  <2>3. QED
    BY <1>2, <2>1, <2>2 DEF SecretResolved, TypeOK
<1>3. QED
  BY <1>1, <1>2

(* A new code.                                                              *)
LEMMA GenerateCodeType ==
  ASSUME TypeOK, NEW c \in Client, Len(codes) < MaxCodes, GenerateCode(c)
  PROVE  /\ codes' \in Seq(Code) /\ Len(codes') <= MaxCodes
         /\ DOMAIN codes = 1 .. Len(codes) /\ DOMAIN codes' = 1 .. Len(codes) + 1
         /\ \A k \in DOMAIN codes : codes'[k] = codes[k]
         /\ codes'[Len(codes) + 1] = [client |-> c, consumed |-> FALSE, expired |-> FALSE,
                                      tries |-> 0, sold |-> {}]
<1> DEFINE new == [client |-> c, consumed |-> FALSE, expired |-> FALSE, tries |-> 0, sold |-> {}]
<1>1. new \in Code
  BY Bounds DEF Code
<1>2. codes \in Seq(Code) /\ codes' = Append(codes, new)
  BY DEF TypeOK, GenerateCode
<1>3. DOMAIN codes = 1 .. Len(codes) /\ Len(codes) \in Nat
  BY <1>2, LenProperties
<1>4. /\ codes' \in Seq(Code) /\ Len(codes') = Len(codes) + 1
      /\ \A k \in 1 .. Len(codes) : codes'[k] = codes[k]
      /\ codes'[Len(codes) + 1] = new
  BY <1>1, <1>2, AppendProperties
<1>5. DOMAIN codes' = 1 .. Len(codes')
  BY <1>4, LenProperties
<1>6. QED
  BY <1>3, <1>4, <1>5, Bounds

(* A handler that needs a secret has one, or begins to mint one.            *)
LEMMA ResolveAndSignType ==
  ASSUME TypeOK, NEW r \in Slots, NEW c \in Client, NEW f \in 0 .. MaxCodes,
         ResolveAndSign(r, c, f)
  PROVE  /\ request' \in [Slots -> TokenRequest] /\ update' \in [Procs -> Update]
         /\ \A s \in Slots \ {r} : request'[s] = request[s]
         /\ request'[r].family = f
         /\ request'[r].pc = "signing" => request'[r].secret # NoSecret
         /\ \/ update' = update
            \/ StartUpdate(ServerProc, "mint", Null, r)
<1>1. CASE PeekJwtSecret # NoSecret
  <2>1. request' = [request EXCEPT ![r] =
            [pc |-> "signing", client |-> c, family |-> f, secret |-> file.jwt]]
        /\ update' = update
    BY <1>1 DEF ResolveAndSign, PeekJwtSecret
  <2>2. [pc |-> "signing", client |-> c, family |-> f, secret |-> file.jwt] \in TokenRequest
    BY DEF TokenRequest, TypeOK, CredentialsFile
  <2>3. QED
    BY <1>1, <2>1, <2>2 DEF TypeOK, PeekJwtSecret
<1>2. CASE PeekJwtSecret = NoSecret
  <2>1. /\ request' = [request EXCEPT ![r] =
              [NoRequest EXCEPT !.pc = "minting", !.client = c, !.family = f]]
        /\ StartUpdate(ServerProc, "mint", Null, r)
    BY <1>2 DEF ResolveAndSign
  <2>2. [NoRequest EXCEPT !.pc = "minting", !.client = c, !.family = f] \in TokenRequest
    BY NullTypes DEF TokenRequest
  <2>3. update' \in [Procs -> Update]
    BY <2>1, StartUpdateType, Bounds
  <2>4. [NoRequest EXCEPT !.pc = "minting", !.client = c, !.family = f].family = f
        /\ [NoRequest EXCEPT !.pc = "minting", !.client = c, !.family = f].pc = "minting"
    BY DEF NoRequest
  <2>5. QED
    BY <2>1, <2>2, <2>3, <2>4 DEF TypeOK
<1>3. QED
  BY <1>1, <1>2

(* One code changes.                                                        *)
LEMMA CodeEdited ==
  ASSUME TypeOK, NEW k \in DOMAIN codes, NEW d \in Code, codes' = [codes EXCEPT ![k] = d]
  PROVE  /\ codes' \in Seq(Code) /\ Len(codes') = Len(codes) /\ DOMAIN codes' = DOMAIN codes
         /\ codes[k] \in Code /\ codes'[k] = d
         /\ \A j \in DOMAIN codes \ {k} : codes'[j] = codes[j]
<1>1. codes \in Seq(Code)
  BY DEF TypeOK
<1>2. k \in 1 .. Len(codes) /\ DOMAIN codes = 1 .. Len(codes)
  BY <1>1, LenProperties
<1>3. /\ codes' \in Seq(Code) /\ Len(codes') = Len(codes)
      /\ \A j \in 1 .. Len(codes) : codes'[j] = IF j = k THEN d ELSE codes[j]
  BY <1>1, <1>2, ExceptSeq
<1>4. DOMAIN codes' = 1 .. Len(codes')
  BY <1>3, LenProperties
<1>5. codes[k] \in Code
  BY <1>1, <1>2, ElementOfSeq
<1>6. QED
  BY <1>2, <1>3, <1>4, <1>5

(* One refresh token changes.                                               *)
LEMMA RefreshEdited ==
  ASSUME TypeOK, NEW t \in DOMAIN refresh, NEW d \in RefreshToken,
         refresh' = [refresh EXCEPT ![t] = d]
  PROVE  /\ refresh' \in Seq(RefreshToken) /\ Len(refresh') = Len(refresh)
         /\ DOMAIN refresh' = DOMAIN refresh
         /\ refresh[t] \in RefreshToken /\ refresh'[t] = d
         /\ \A j \in DOMAIN refresh \ {t} : refresh'[j] = refresh[j]
<1>1. refresh \in Seq(RefreshToken)
  BY DEF TypeOK
<1>2. t \in 1 .. Len(refresh) /\ DOMAIN refresh = 1 .. Len(refresh)
  BY <1>1, LenProperties
<1>3. /\ refresh' \in Seq(RefreshToken) /\ Len(refresh') = Len(refresh)
      /\ \A j \in 1 .. Len(refresh) : refresh'[j] = IF j = t THEN d ELSE refresh[j]
  BY <1>1, <1>2, ExceptSeq
<1>4. DOMAIN refresh' = 1 .. Len(refresh')
  BY <1>3, LenProperties
<1>5. refresh[t] \in RefreshToken
  BY <1>1, <1>2, ElementOfSeq
<1>6. QED
  BY <1>2, <1>3, <1>4, <1>5

(* A presentation of a code: which of its fields it changes, and when it    *)
(* sells.                                                                   *)
Sells(k, c, right) == ~codes[k].consumed /\ Fits(k, c, right) /\ "redirect" \in right

LEMMA ExchangeFacts ==
  ASSUME TypeOK, NEW r \in Slots, NEW k \in DOMAIN codes, NEW c \in Client,
         NEW right \in SUBSET {"secret", "verifier", "redirect"}, Exchange(r, k, c, right)
  PROVE  /\ codes' \in Seq(Code) /\ Len(codes') = Len(codes) /\ DOMAIN codes' = DOMAIN codes
         /\ codes[k] \in Code /\ codes'[k] \in Code /\ k \in 1 .. MaxCodes
         /\ codes'[k].client = codes[k].client /\ codes'[k].expired = codes[k].expired
         /\ codes'[k].consumed /\ codes'[k].tries = codes[k].tries + 1
         /\ codes'[k].sold = IF Sells(k, c, right) THEN codes[k].sold \cup {codes[k].tries + 1}
                             ELSE codes[k].sold
         /\ \A j \in DOMAIN codes \ {k} : codes'[j] = codes[j]
         /\ IF Sells(k, c, right) THEN ResolveAndSign(r, c, k) ELSE UNCHANGED <<request, update>>
<1> DEFINE try == codes[k].tries + 1
           d   == [codes[k] EXCEPT !.consumed = TRUE, !.tries = try,
                     !.sold = IF Sells(k, c, right) THEN @ \cup {try} ELSE @]
<1>1. codes \in Seq(Code) /\ Len(codes) <= MaxCodes
  BY DEF TypeOK
<1>2. k \in 1 .. Len(codes) /\ codes[k] \in Code /\ Len(codes) \in Nat
  BY <1>1, LenProperties, ElementOfSeq
<1>3. try \in 1 .. MaxTries
  BY <1>2, Bounds DEF Exchange, Code
<1>4. d \in Code
  <2>1. (IF Sells(k, c, right) THEN codes[k].sold \cup {try} ELSE codes[k].sold)
          \in SUBSET (1 .. MaxTries)
    BY <1>2, <1>3 DEF Code
  <2>2. try \in 0 .. MaxTries
    BY <1>3
  <2>3. QED
    BY <1>2, <2>1, <2>2 DEF Code
<1>5. codes' = [codes EXCEPT ![k] = d]
  BY <1>2 DEF Exchange, Spent, Sells, Code
<1>6. IF Sells(k, c, right) THEN ResolveAndSign(r, c, k) ELSE UNCHANGED <<request, update>>
  BY DEF Exchange, Sells
<1>7. /\ d.client = codes[k].client /\ d.expired = codes[k].expired /\ d.consumed
      /\ d.tries = try /\ d.sold = IF Sells(k, c, right) THEN codes[k].sold \cup {try} ELSE codes[k].sold
  BY <1>2 DEF Code
<1>8. k \in 1 .. MaxCodes
  BY <1>1, <1>2, Bounds
<1> HIDE DEF d
<1>9. QED
  BY <1>2, <1>4, <1>5, <1>6, <1>7, <1>8, CodeEdited

(* A refresh token is presented, and spent at once.                         *)
LEMMA RefreshFacts ==
  ASSUME TypeOK, NEW r \in Slots, NEW t \in DOMAIN refresh, Refresh(r, t)
  PROVE  /\ refresh' \in Seq(RefreshToken) /\ Len(refresh') = Len(refresh)
         /\ DOMAIN refresh' = DOMAIN refresh
         /\ refresh[t] \in RefreshToken /\ ~refresh[t].used /\ refresh'[t].used
         /\ refresh'[t].family = refresh[t].family
         /\ \A j \in DOMAIN refresh \ {t} : refresh'[j] = refresh[j]
         /\ ResolveAndSign(r, refresh[t].client, refresh[t].family)
<1> DEFINE d == [refresh[t] EXCEPT !.used = TRUE]
<1>1. refresh \in Seq(RefreshToken)
  BY DEF TypeOK
<1>2. refresh[t] \in RefreshToken
  BY <1>1, LenProperties, ElementOfSeq
<1>3. d \in RefreshToken /\ d.used /\ d.family = refresh[t].family
  BY <1>2 DEF RefreshToken
<1>4. refresh' = [refresh EXCEPT ![t] = d]
  BY DEF Refresh, Redeemed
<1>5. ~refresh[t].used /\ ResolveAndSign(r, refresh[t].client, refresh[t].family)
  BY DEF Refresh
<1> HIDE DEF d
<1>6. QED
  BY <1>3, <1>4, <1>5, RefreshEdited

(* An answer leaves, with a refresh token or without one.                   *)
LEMMA AnswerFacts ==
  ASSUME TypeOK, RequestsAreWhole, NEW r \in Slots, Answer(r)
  PROVE  /\ refresh' \in Seq(RefreshToken) /\ Len(refresh') <= MaxRefresh
         /\ DOMAIN refresh = 1 .. Len(refresh) /\ DOMAIN refresh' = 1 .. Len(refresh')
         /\ \A j \in DOMAIN refresh : j \in DOMAIN refresh' /\ refresh'[j] = refresh[j]
         /\ request[r].family = 0 => refresh' = refresh
         /\ request[r].family # 0 =>
              /\ DOMAIN refresh' = DOMAIN refresh \cup {Len(refresh) + 1}
              /\ Len(refresh) + 1 \notin DOMAIN refresh
              /\ refresh'[Len(refresh) + 1].family = request[r].family
         /\ request' = [request EXCEPT ![r] = NoRequest] /\ request' \in [Slots -> TokenRequest]
<1> DEFINE q == request[r]
           new == [client |-> q.client, family |-> q.family, used |-> FALSE, expired |-> FALSE]
<1>1. refresh \in Seq(RefreshToken) /\ Len(refresh) \in Nat /\ DOMAIN refresh = 1 .. Len(refresh)
  BY LenProperties DEF TypeOK
<1>2. Len(refresh) < MaxRefresh /\ request' = [request EXCEPT ![r] = NoRequest]
  BY DEF Answer
<1>3. request' \in [Slots -> TokenRequest] /\ q \in TokenRequest
  BY <1>2, NullTypes DEF TypeOK
<1>4. CASE q.family = 0
  <2>1. refresh' = refresh
    BY <1>4 DEF Answer, WithRefresh
  <2>2. QED
    BY <1>1, <1>2, <1>3, <1>4, <2>1 DEF TypeOK
<1>5. CASE q.family # 0
  <2>1. refresh' = Append(refresh, new)
    BY <1>5 DEF Answer, WithRefresh
  <2>2. new \in RefreshToken
    <3>1. q.family \in 1 .. MaxCodes
      BY <1>3, <1>5, Bounds DEF TokenRequest
    <3>2. q.client \in Client
      BY DEF RequestsAreWhole, Answer
    <3>3. QED
      BY <3>1, <3>2 DEF RefreshToken
  <2>3. /\ refresh' \in Seq(RefreshToken) /\ Len(refresh') = Len(refresh) + 1
        /\ \A j \in 1 .. Len(refresh) : refresh'[j] = refresh[j]
        /\ refresh'[Len(refresh) + 1] = new
    BY <1>1, <2>1, <2>2, AppendProperties
  <2>4. DOMAIN refresh' = 1 .. Len(refresh')
    BY <2>3, LenProperties
  <2>5. new.family = q.family
    OBVIOUS
  <2> HIDE DEF new
  <2>6. QED
    BY <1>1, <1>2, <1>3, <1>5, <2>3, <2>4, <2>5, Bounds
<1>6. QED
  BY <1>4, <1>5

(* An update ends, with its write done or without.                          *)
LEMMA FinishFacts ==
  ASSUME TypeOK, UpdatesByRole, NEW p \in Procs, NEW written \in BOOLEAN,
         update[p].pc = "rename", Finish(p, written),
         written /\ update[p].op = "mint" => minted + 1 \in Secret
  PROVE  /\ update' = [update EXCEPT ![p] = NoUpdate] /\ update' \in [Procs -> Update]
         /\ server' \in [pc : {"down", "boot", "up"}, gate : Secret]
         /\ request' \in [Slots -> TokenRequest]
         /\ codes' \in Seq(Code) /\ Len(codes') <= MaxCodes
         /\ pending' \subseteq pending
         /\ update[p].op = "commit" =>
              /\ p = ServerProc /\ update[p].client \in pending /\ update[p].client \in Client
              /\ GenerateCode(update[p].client) /\ Len(codes) < MaxCodes
              /\ pending' = PendingAfterCommit(update[p].client, written)
              /\ UNCHANGED request
         /\ update[p].op # "commit" => UNCHANGED <<pending, codes>>
         /\ update[p].op # "mint" => UNCHANGED request
         /\ update[p].op = "mint" => p = ServerProc
              /\ SecretResolved(update[p], IF written THEN minted + 1 ELSE NoSecret)
<1> DEFINE u == update[p]
<1>1. u \in Update
  BY DEF TypeOK
<1>2. update' = [update EXCEPT ![p] = NoUpdate] /\ update' \in [Procs -> Update]
  BY NullTypes DEF Finish, TypeOK
<1>3. u.op \in IF p = ServerProc THEN {"commit", "mint"} ELSE {"add", "remove", "login"}
  BY DEF UpdatesByRole
<1>4. CASE u.op = "commit"
  <2>1. p = ServerProc /\ u.client \in pending /\ u.client \in Client /\ Len(codes) < MaxCodes
    BY <1>3, <1>4 DEF UpdatesByRole
  <2>2. /\ pending' = PendingAfterCommit(u.client, written)
        /\ GenerateCode(u.client) /\ UNCHANGED <<server, request>>
    BY <1>4 DEF Finish
  <2>3. codes' \in Seq(Code) /\ Len(codes') <= MaxCodes
    BY <2>1, <2>2, GenerateCodeType
  <2>4. pending' \subseteq pending
    BY <2>2 DEF PendingAfterCommit
  <2>5. QED
    BY <1>2, <1>4, <2>1, <2>2, <2>3, <2>4 DEF TypeOK
<1>5. CASE u.op = "mint"
  <2>1. p = ServerProc
    BY <1>3, <1>5
  <2>2. /\ SecretResolved(u, IF written THEN minted + 1 ELSE NoSecret)
        /\ UNCHANGED <<pending, codes>>
    BY <1>5 DEF Finish
  <2>3. (IF written THEN minted + 1 ELSE NoSecret) \in Secret
    BY <1>5, Bounds
  <2>4. /\ server' \in [pc : {"down", "boot", "up"}, gate : Secret]
        /\ request' \in [Slots -> TokenRequest]
    BY <1>1, <2>2, <2>3, SecretResolvedType
  <2>5. QED
    BY <1>2, <1>5, <2>1, <2>2, <2>4 DEF TypeOK
<1>6. CASE u.op \notin {"commit", "mint"}
  <2>1. UNCHANGED <<server, request, pending, codes>>
    BY <1>6 DEF Finish
  <2>2. QED
    BY <1>2, <1>6, <2>1 DEF TypeOK
<1>7. QED
  BY <1>4, <1>5, <1>6

-----------------------------------------------------------------------------
(* Every step keeps the types.                                              *)
LEMMA TypeStep ==
  ASSUME TypeOK, UpdatesByRole, RequestsAreWhole, [Next]_vars
  PROVE  TypeOK'
<1> USE DEF TypeOK
<1>1. CASE Boot
  <2>1. update' \in [Procs -> Update]
    BY <1>1, StartUpdateType, Bounds DEF Boot
  <2>2. server' \in [pc : {"down", "boot", "up"}, gate : Secret]
    BY <1>1, Bounds DEF Boot, PeekJwtSecret, CredentialsFile
  <2>3. QED
    BY <1>1, <2>1, <2>2 DEF Boot
<1>2. CASE Restart
  <2>1. request' \in [Slots -> TokenRequest] /\ update' \in [Procs -> Update]
    BY <1>2, NullTypes DEF Restart
  <2>2. codes' \in Seq(Code) /\ refresh' \in Seq(RefreshToken) /\ Len(codes') = 0 /\ Len(refresh') = 0
    BY <1>2 DEF Restart
  <2>3. server' \in [pc : {"down", "boot", "up"}, gate : Secret] /\ restarts' \in 0 .. MaxRestarts
    BY <1>2, Bounds DEF Restart
  <2>4. QED
    BY <1>2, <2>1, <2>2, <2>3, Bounds DEF Restart
<1>3. ASSUME NEW c \in Client, Register(c) PROVE TypeOK'
  BY <1>3 DEF Register, IssueClient
<1>4. ASSUME NEW c \in Client, PendingExpires(c) PROVE TypeOK'
  BY <1>4 DEF PendingExpires
<1>5. ASSUME NEW c \in Client, NEW right \in BOOLEAN, Login(c, right) PROVE TypeOK'
  <2>1. authorized' \subseteq Client /\ Len(codes) < MaxCodes
    BY <1>5 DEF Login
  <2>2. CASE Commits(c, right)
    <3>1. update' \in [Procs -> Update]
      BY <1>5, <2>2, StartUpdateType, Bounds DEF Login
    <3>2. QED
      BY <1>5, <2>1, <2>2, <3>1 DEF Login
  <2>3. CASE ~Commits(c, right)
    <3>1. codes' \in Seq(Code) /\ Len(codes') <= MaxCodes
      BY <1>5, <2>1, <2>3, GenerateCodeType DEF Login
    <3>2. QED
      BY <1>5, <2>1, <2>3, <3>1 DEF Login
  <2>4. QED
    BY <2>2, <2>3
<1>6. ASSUME NEW r \in Slots, NEW k \in DOMAIN codes, NEW c \in Client,
             NEW right \in SUBSET {"secret", "verifier", "redirect"}, Exchange(r, k, c, right)
      PROVE  TypeOK'
  <2>1. codes' \in Seq(Code) /\ Len(codes') <= MaxCodes /\ k \in 0 .. MaxCodes
    <3>1. codes' \in Seq(Code) /\ Len(codes') = Len(codes) /\ k \in 1 .. MaxCodes
      BY <1>6, ExchangeFacts
    <3>2. QED
      BY <3>1, Bounds
  <2>2. request' \in [Slots -> TokenRequest] /\ update' \in [Procs -> Update]
    BY <1>6, <2>1, ExchangeFacts, ResolveAndSignType
  <2>3. QED
    BY <1>6, <2>1, <2>2 DEF Exchange
<1>7. ASSUME NEW r \in Slots, NEW c \in Client, MachineGrant(r, c) PROVE TypeOK'
  <2>1. request' \in [Slots -> TokenRequest] /\ update' \in [Procs -> Update]
    BY <1>7, ResolveAndSignType, Bounds DEF MachineGrant
  <2>2. QED
    BY <1>7, <2>1 DEF MachineGrant
<1>8. ASSUME NEW r \in Slots, NEW t \in DOMAIN refresh, Refresh(r, t) PROVE TypeOK'
  <2>1. refresh' \in Seq(RefreshToken) /\ Len(refresh') = Len(refresh) /\ refresh[t] \in RefreshToken
    BY <1>8, RefreshFacts
  <2>2. refresh[t].family \in 0 .. MaxCodes /\ refresh[t].client \in Client
    BY <2>1, Bounds DEF RefreshToken
  <2>3. request' \in [Slots -> TokenRequest] /\ update' \in [Procs -> Update]
    BY <1>8, <2>2, RefreshFacts, ResolveAndSignType
  <2>4. QED
    BY <1>8, <2>1, <2>3 DEF Refresh
<1>9. ASSUME NEW r \in Slots, Answer(r) PROVE TypeOK'
  <2>1. /\ refresh' \in Seq(RefreshToken) /\ Len(refresh') <= MaxRefresh
        /\ request' \in [Slots -> TokenRequest]
    BY <1>9, AnswerFacts
  <2>2. [secret |-> request[r].secret, gate |-> server.gate] \in [secret : Secret \ {NoSecret}, gate : Secret]
    BY <1>9 DEF Answer, RequestsAreWhole, TokenRequest
  <2>3. access' \subseteq [secret : Secret \ {NoSecret}, gate : Secret]
    BY <1>9, <2>2 DEF Answer
  <2>4. QED
    BY <1>9, <2>1, <2>3 DEF Answer
<1>10. ASSUME NEW k \in DOMAIN codes, CodeExpires(k) PROVE TypeOK'
  <2>1. codes' = [codes EXCEPT ![k] = [codes[k] EXCEPT !.expired = TRUE]]
    BY <1>10 DEF CodeExpires
  <2>2. codes[k] \in Code
    BY LenProperties, ElementOfSeq
  <2>3. [codes[k] EXCEPT !.expired = TRUE] \in Code
    BY <2>2 DEF Code
  <2>4. codes' \in Seq(Code) /\ Len(codes') = Len(codes)
    BY <2>1, <2>3, CodeEdited
  <2>5. QED
    BY <1>10, <2>4 DEF CodeExpires
<1>11. ASSUME NEW t \in DOMAIN refresh, RefreshExpires(t) PROVE TypeOK'
  <2>1. refresh' = [refresh EXCEPT ![t] = [refresh[t] EXCEPT !.expired = TRUE]]
    BY <1>11 DEF RefreshExpires
  <2>2. refresh[t] \in RefreshToken
    BY LenProperties, ElementOfSeq
  <2>3. [refresh[t] EXCEPT !.expired = TRUE] \in RefreshToken
    BY <2>2 DEF RefreshToken
  <2>4. refresh' \in Seq(RefreshToken) /\ Len(refresh') = Len(refresh)
    BY <2>1, <2>3, RefreshEdited
  <2>5. QED
    BY <1>11, <2>4 DEF RefreshExpires
<1>12. ASSUME NEW p \in Clis, AuthCommand(p) PROVE TypeOK'
  <2>1. p \in Procs
    BY DEF Procs
  <2>2. update' \in [Procs -> Update] /\ authorized' \subseteq Client
    BY <1>12, <2>1, StartUpdateType, Bounds
    DEF AuthCommand, AddClient, RemoveClient, SetLogin, IssueClient
  <2>3. cliOps' \in 0 .. MaxCli /\ pending' = pending
    BY <1>12, Bounds DEF AuthCommand
  <2>4. QED
    BY <1>12, <2>2, <2>3 DEF AuthCommand
<1>13. ASSUME NEW p \in Procs, ReadState(p) PROVE TypeOK'
  <2>1. update[p] \in Update /\ file.jwt \in Secret
    BY DEF CredentialsFile
  <2>2. update' \in [Procs -> Update]
    <3>1. NoUpdate \in Update /\ [update[p] EXCEPT !.pc = "map", !.seen = file] \in Update
      BY <2>1, NullTypes DEF Update
    <3>2. QED
      BY <1>13, <3>1 DEF ReadState
  <2>3. /\ server' \in [pc : {"down", "boot", "up"}, gate : Secret]
        /\ request' \in [Slots -> TokenRequest]
    BY <1>13, <2>1, SecretResolvedType DEF ReadState
  <2>4. QED
    BY <1>13, <2>2, <2>3 DEF ReadState
<1>14. ASSUME NEW p \in Procs, ReadMap(p) PROVE TypeOK'
  <2>a. update[p] \in Update /\ file \in CredentialsFile
    OBVIOUS
  <2>1. [update[p] EXCEPT !.pc = "rename", !.map = file] \in Update
    <3> DEFINE u == update[p]
    <3>1. u \in Update
      BY <2>a
    <3> HIDE DEF u
    <3>2. [u EXCEPT !.pc = "rename", !.map = file] \in Update
      BY ONLY <2>a, <3>1 DEF Update
    <3>3. QED
      BY ONLY <3>2 DEF u
  <2>2. QED
    BY <1>14, <2>1 DEF ReadMap
<1>15. ASSUME NEW p \in Procs, Rename(p) PROVE TypeOK'
  <2>1. file' \in CredentialsFile /\ minted' \in Secret /\ (update[p].op = "mint" => minted + 1 \in Secret)
    BY <1>15, MergedType, Bounds DEF Rename, Secret
  <2>2. dropped' \subseteq Client
    BY <1>15 DEF Rename, CredentialsFile
  <2>3. QED
    BY <1>15, <2>1, <2>2, FinishFacts DEF Rename
<1>16. ASSUME NEW p \in Procs, WriteFails(p) PROVE TypeOK'
  BY <1>16, FinishFacts DEF WriteFails
<1>17. CASE UNCHANGED vars
  BY <1>17 DEF vars
<1>18. QED
  BY <1>1, <1>2, <1>3, <1>4, <1>5, <1>6, <1>7, <1>8, <1>9, <1>10, <1>11, <1>12, <1>13, <1>14,
     <1>15, <1>16, <1>17 DEF Next

-----------------------------------------------------------------------------
(* Who updates what.                                                        *)

(* A process that did nothing yet, or begins an update in its role.         *)
LEMMA RoleOfStart ==
  ASSUME TypeOK, UpdatesByRole, NEW p \in Procs, NEW op, NEW c \in Client \cup {Null},
         NEW slot \in Slots \cup {Null},
         op \in IF p = ServerProc THEN {"commit", "mint"} ELSE {"add", "remove", "login"},
         op \in {"commit", "add", "remove"} => c \in Client,
         op = "commit" => c \in pending' /\ Len(codes') < MaxCodes,
         p # ServerProc => UNCHANGED <<pending, codes>>,
         StartUpdate(p, op, c, slot)
  PROVE  UpdatesByRole'
<1>1. op \in {"commit", "mint", "add", "remove", "login"}
  OBVIOUS
<1>2. /\ update'[p] = [NoUpdate EXCEPT !.pc = IF op = "login" THEN "map" ELSE "state",
                                      !.op = op, !.client = c, !.slot = slot]
      /\ \A q \in Procs \ {p} : update'[q] = update[q]
  BY DEF StartUpdate, TypeOK
<1>3. update'[p].op = op /\ update'[p].client = c
  BY <1>2 DEF NoUpdate
<1>4. ASSUME NEW q \in Procs, update'[q].pc # "none"
      PROVE  /\ update'[q].op \in IF q = ServerProc THEN {"commit", "mint"} ELSE {"add", "remove", "login"}
             /\ update'[q].op \in {"commit", "add", "remove"} => update'[q].client \in Client
  BY <1>2, <1>3, <1>4 DEF UpdatesByRole
<1>5. ASSUME update'[ServerProc].pc # "none", update'[ServerProc].op = "commit"
      PROVE  update'[ServerProc].client \in pending' /\ Len(codes') < MaxCodes
  BY <1>2, <1>3, <1>5, Bounds DEF UpdatesByRole
<1>6. QED
  BY <1>4, <1>5 DEF UpdatesByRole

LEMMA RoleStep ==
  ASSUME TypeOK, UpdatesByRole, RequestsAreWhole, [Next]_vars
  PROVE  UpdatesByRole'
<1>1. CASE Boot
  BY <1>1, RoleOfStart, Bounds DEF Boot, UpdatesByRole
<1>2. CASE Restart
  <2>1. /\ update'[ServerProc] = NoUpdate
        /\ \A q \in Procs \ {ServerProc} : update'[q] = update[q]
    BY <1>2, Bounds DEF Restart, TypeOK
  <2>2. NoUpdate.pc = "none"
    BY DEF NoUpdate
  <2>3. QED
    BY <2>1, <2>2 DEF UpdatesByRole
<1>3. ASSUME NEW c \in Client, Register(c) \/ PendingExpires(c) PROVE UpdatesByRole'
  <2>1. update[ServerProc].pc = "none" /\ update' = update
    BY <1>3 DEF Register, PendingExpires, IssueClient, Serving, Idle
  <2>2. QED
    BY <2>1 DEF UpdatesByRole
<1>4. ASSUME NEW c \in Client, NEW right \in BOOLEAN, Login(c, right) PROVE UpdatesByRole'
  <2>1. CASE Commits(c, right)
    <3>1. StartUpdate(ServerProc, "commit", c, Null) /\ UNCHANGED <<codes, pending>>
      BY <1>4, <2>1 DEF Login
    <3>2. c \in pending /\ Len(codes) < MaxCodes
      BY <1>4, <2>1 DEF Login, Commits
    <3>3. QED
      BY <3>1, <3>2, RoleOfStart, Bounds
  <2>2. CASE ~Commits(c, right)
    <3>1. update[ServerProc].pc = "none" /\ update' = update
      BY <1>4, <2>2 DEF Login, Serving, Idle
    <3>2. QED
      BY <3>1 DEF UpdatesByRole
  <2>3. QED
    BY <2>1, <2>2
<1>5. ASSUME update[ServerProc].pc = "none", NEW r \in Slots, NEW c \in Client,
             NEW f \in 0 .. MaxCodes, ResolveAndSign(r, c, f)
      PROVE  UpdatesByRole'
  <2>1. CASE update' = update
    BY <1>5, <2>1 DEF UpdatesByRole
  <2>2. CASE StartUpdate(ServerProc, "mint", Null, r)
    BY <2>2, RoleOfStart, Bounds
  <2>3. QED
    BY <1>5, <2>1, <2>2, ResolveAndSignType
<1>6. ASSUME NEW r \in Slots, NEW k \in DOMAIN codes, NEW c \in Client,
             NEW right \in SUBSET {"secret", "verifier", "redirect"}, Exchange(r, k, c, right)
      PROVE  UpdatesByRole'
  <2>1. update[ServerProc].pc = "none"
    BY <1>6 DEF Exchange, Serving, Idle
  <2>2. /\ k \in 1 .. MaxCodes
        /\ IF Sells(k, c, right) THEN ResolveAndSign(r, c, k) ELSE UNCHANGED <<request, update>>
    BY <1>6, ExchangeFacts
  <2>3. CASE Sells(k, c, right)
    BY <1>5, <2>1, <2>2, <2>3, Bounds
  <2>4. CASE ~Sells(k, c, right)
    BY <2>1, <2>2, <2>4 DEF UpdatesByRole
  <2>5. QED
    BY <2>3, <2>4
<1>7. ASSUME NEW r \in Slots, NEW c \in Client, MachineGrant(r, c) PROVE UpdatesByRole'
  BY <1>5, <1>7, Bounds DEF MachineGrant, Serving, Idle
<1>8. ASSUME NEW r \in Slots, NEW t \in DOMAIN refresh, Refresh(r, t) PROVE UpdatesByRole'
  <2>1. refresh[t].family \in 0 .. MaxCodes /\ refresh[t].client \in Client
        /\ ResolveAndSign(r, refresh[t].client, refresh[t].family)
    BY <1>8, RefreshFacts, Bounds DEF RefreshToken
  <2>2. QED
    BY <1>5, <1>8, <2>1 DEF Refresh, Serving, Idle
<1>9. ASSUME NEW r \in Slots, Answer(r) PROVE UpdatesByRole'
  BY <1>9 DEF Answer, UpdatesByRole
<1>10. ASSUME NEW k \in DOMAIN codes, CodeExpires(k) PROVE UpdatesByRole'
  <2>1. Len(codes') = Len(codes)
    <3>1. codes[k] \in Code
      BY LenProperties, ElementOfSeq DEF TypeOK
    <3>2. [codes[k] EXCEPT !.expired = TRUE] \in Code
      BY <3>1 DEF Code
    <3>3. QED
      BY <1>10, <3>2, CodeEdited DEF CodeExpires
  <2>2. QED
    BY <1>10, <2>1 DEF CodeExpires, UpdatesByRole
<1>11. ASSUME NEW t \in DOMAIN refresh, RefreshExpires(t) PROVE UpdatesByRole'
  BY <1>11 DEF RefreshExpires, UpdatesByRole
<1>12. ASSUME NEW p \in Clis, AuthCommand(p) PROVE UpdatesByRole'
  <2>1. p \in Procs /\ p # ServerProc /\ UNCHANGED <<pending, codes>>
    BY <1>12, Bounds DEF Procs, AuthCommand
  <2>2. \/ \E c \in Client : StartUpdate(p, "add", c, Null) \/ StartUpdate(p, "remove", c, Null)
        \/ StartUpdate(p, "login", Null, Null)
    BY <1>12, <2>1 DEF AuthCommand, AddClient, RemoveClient, SetLogin, IssueClient
  <2>3. QED
    BY <2>1, <2>2, RoleOfStart
<1>13. ASSUME NEW p \in Procs, ReadState(p) PROVE UpdatesByRole'
  <2>1. UNCHANGED <<pending, codes>> /\ \A q \in Procs \ {p} : update'[q] = update[q]
    BY <1>13 DEF ReadState, TypeOK
  <2>2. \/ update'[p] = NoUpdate
        \/ update'[p] = [update[p] EXCEPT !.pc = "map", !.seen = file] /\ update[p].pc # "none"
    BY <1>13 DEF ReadState, TypeOK
  <2>3. \/ update'[p].pc = "none"
        \/ /\ update'[p].op = update[p].op /\ update'[p].client = update[p].client
           /\ update[p].pc # "none"
    <3>1. NoUpdate.pc = "none" /\ update[p] \in Update
      BY DEF NoUpdate, TypeOK
    <3>2. CASE update'[p] = NoUpdate
      BY <3>1, <3>2
    <3>3. CASE update'[p] = [update[p] EXCEPT !.pc = "map", !.seen = file] /\ update[p].pc # "none"
      BY <3>1, <3>3 DEF Update
    <3>4. QED
      BY <2>2, <3>2, <3>3
  <2>4. QED
    BY <2>1, <2>3, Bounds DEF UpdatesByRole
<1>14. ASSUME NEW p \in Procs, ReadMap(p) PROVE UpdatesByRole'
  <2>1. /\ UNCHANGED <<pending, codes>> /\ \A q \in Procs \ {p} : update'[q] = update[q]
        /\ update'[p] = [update[p] EXCEPT !.pc = "rename", !.map = file] /\ update[p].pc # "none"
    BY <1>14 DEF ReadMap, TypeOK
  <2>2. update'[p].op = update[p].op /\ update'[p].client = update[p].client
    BY <2>1 DEF TypeOK, Update
  <2>3. QED
    BY <2>1, <2>2, Bounds DEF UpdatesByRole
<1>15. ASSUME NEW p \in Procs, NEW written \in BOOLEAN, update[p].pc = "rename", Finish(p, written),
              written /\ update[p].op = "mint" => minted + 1 \in Secret
       PROVE  UpdatesByRole'
  <2>1. /\ update' = [update EXCEPT ![p] = NoUpdate]
        /\ update[p].op = "commit" => p = ServerProc
        /\ update[p].op # "commit" => UNCHANGED <<pending, codes>>
    BY <1>15, FinishFacts
  <2>2. /\ update'[p].pc = "none" /\ \A q \in Procs \ {p} : update'[q] = update[q]
    BY <2>1 DEF TypeOK, NoUpdate
  <2>3. QED
    BY <2>1, <2>2, Bounds DEF UpdatesByRole
<1>16. ASSUME NEW p \in Procs, Rename(p) PROVE UpdatesByRole'
  <2>1. update[p].op = "mint" => minted + 1 \in Secret
    BY <1>16, Bounds DEF Rename, Secret, TypeOK
  <2>2. QED
    BY <1>15, <1>16, <2>1 DEF Rename
<1>17. ASSUME NEW p \in Procs, WriteFails(p) PROVE UpdatesByRole'
  BY <1>15, <1>17 DEF WriteFails
<1>18. CASE UNCHANGED vars
  BY <1>18 DEF vars, UpdatesByRole
<1>19. QED
  BY <1>1, <1>2, <1>3, <1>4, <1>6, <1>7, <1>8, <1>9, <1>10, <1>11, <1>12, <1>13, <1>14,
     <1>16, <1>17, <1>18 DEF Next

-----------------------------------------------------------------------------
(* Requests in flight.                                                      *)

(* The end of a mint signs the request that waited, or drops it.            *)
LEMMA SecretResolvedFacts ==
  ASSUME TypeOK, UpdatesByRole, RequestsAreWhole, NEW secret \in Secret,
         update[ServerProc].pc # "none", SecretResolved(update[ServerProc], secret)
  PROVE  /\ \A s \in Slots : request'[s].family \in {request[s].family, 0}
         /\ \A s \in Slots : /\ request'[s].pc # "idle" => request'[s].client \in Client
                             /\ request'[s].pc = "idle" => request'[s].family = 0
                             /\ request'[s].pc = "signing" => request'[s].secret # NoSecret
<1> DEFINE u == update[ServerProc]
<1>1. CASE u.slot = Null
  BY <1>1 DEF SecretResolved, RequestsAreWhole
<1>2. CASE u.slot # Null
  <2>1. u.slot \in Slots /\ request[u.slot] \in TokenRequest /\ request[u.slot].pc = "minting"
    BY <1>2, Bounds DEF TypeOK, Update, RequestsAreWhole
  <2>2. request[u.slot].client \in Client
    BY <2>1 DEF RequestsAreWhole
  <2>3. \A s \in Slots \ {u.slot} : request'[s] = request[s]
    BY <1>2 DEF SecretResolved, TypeOK
  <2>4. CASE secret = NoSecret
    <3>1. request'[u.slot] = NoRequest
      BY <1>2, <2>1, <2>4 DEF SecretResolved, TypeOK
    <3>2. NoRequest.pc = "idle" /\ NoRequest.family = 0
      BY DEF NoRequest
    <3>3. QED
      BY <2>3, <3>1, <3>2 DEF RequestsAreWhole
  <2>5. CASE secret # NoSecret
    <3>1. request'[u.slot] = [request[u.slot] EXCEPT !.pc = "signing", !.secret = secret]
      BY <1>2, <2>1, <2>5 DEF SecretResolved, TypeOK
    <3>2. /\ request'[u.slot].pc = "signing" /\ request'[u.slot].secret = secret
          /\ request'[u.slot].client = request[u.slot].client
          /\ request'[u.slot].family = request[u.slot].family
      BY <2>1, <3>1 DEF TokenRequest
    <3>3. QED
      BY <2>2, <2>3, <2>5, <3>2 DEF RequestsAreWhole
  <2>6. QED
    BY <2>4, <2>5
<1>3. QED
  BY <1>1, <1>2

LEMMA RequestStep ==
  ASSUME TypeOK, UpdatesByRole, RequestsAreWhole, [Next]_vars
  PROVE  RequestsAreWhole'
<1>1. CASE Boot
  <2>1. UNCHANGED request
    BY <1>1 DEF Boot
  <2>2. CASE update' = update
    BY <2>1, <2>2 DEF RequestsAreWhole
  <2>3. CASE StartUpdate(ServerProc, "mint", Null, Null)
    <3>1. update'[ServerProc].slot = Null
      BY <2>3, Bounds DEF StartUpdate, TypeOK, NoUpdate
    <3>2. QED
      BY <2>1, <3>1 DEF RequestsAreWhole
  <2>4. QED
    BY <1>1, <2>2, <2>3 DEF Boot
<1>2. CASE Restart
  <2>1. /\ update'[ServerProc] = NoUpdate /\ request' = [r \in Slots |-> NoRequest]
    BY <1>2, Bounds DEF Restart, TypeOK
  <2>2. QED
    BY <2>1 DEF RequestsAreWhole, NoUpdate, NoRequest
<1>3. ASSUME NEW c \in Client, Register(c) \/ PendingExpires(c) PROVE RequestsAreWhole'
  BY <1>3 DEF Register, PendingExpires, IssueClient, RequestsAreWhole
<1>4. ASSUME NEW c \in Client, NEW right \in BOOLEAN, Login(c, right) PROVE RequestsAreWhole'
  <2>1. UNCHANGED request
    BY <1>4 DEF Login
  <2>2. CASE update' = update
    BY <2>1, <2>2 DEF RequestsAreWhole
  <2>3. CASE StartUpdate(ServerProc, "commit", c, Null)
    <3>1. update'[ServerProc].slot = Null
      BY <2>3, Bounds DEF StartUpdate, TypeOK, NoUpdate
    <3>2. QED
      BY <2>1, <3>1 DEF RequestsAreWhole
  <2>4. QED
    BY <1>4, <2>2, <2>3 DEF Login
<1>5. ASSUME update[ServerProc].pc = "none", NEW r \in Slots, NEW c \in Client,
             NEW f \in 0 .. MaxCodes, ResolveAndSign(r, c, f)
      PROVE  RequestsAreWhole'
  <2>1. CASE PeekJwtSecret # NoSecret
    <3>1. request' = [request EXCEPT ![r] =
              [pc |-> "signing", client |-> c, family |-> f, secret |-> PeekJwtSecret]]
          /\ update' = update
      BY <1>5, <2>1 DEF ResolveAndSign
    <3>2. /\ request'[r].pc = "signing" /\ request'[r].client = c /\ request'[r].secret # NoSecret
          /\ \A s \in Slots \ {r} : request'[s] = request[s]
      BY <2>1, <3>1 DEF TypeOK
    <3>3. QED
      BY <1>5, <3>1, <3>2 DEF RequestsAreWhole
  <2>2. CASE PeekJwtSecret = NoSecret
    <3>1. /\ request' = [request EXCEPT ![r] =
                [NoRequest EXCEPT !.pc = "minting", !.client = c, !.family = f]]
          /\ StartUpdate(ServerProc, "mint", Null, r)
      BY <1>5, <2>2 DEF ResolveAndSign
    <3>2. /\ request'[r].pc = "minting" /\ request'[r].client = c
          /\ \A s \in Slots \ {r} : request'[s] = request[s]
      BY <3>1 DEF TypeOK, NoRequest
    <3>3. update'[ServerProc].slot = r
      BY <3>1, Bounds DEF StartUpdate, TypeOK, NoUpdate
    <3>4. QED
      BY <3>2, <3>3 DEF RequestsAreWhole
  <2>3. QED
    BY <2>1, <2>2
<1>6. ASSUME NEW r \in Slots, NEW k \in DOMAIN codes, NEW c \in Client,
             NEW right \in SUBSET {"secret", "verifier", "redirect"}, Exchange(r, k, c, right)
      PROVE  RequestsAreWhole'
  <2>1. update[ServerProc].pc = "none"
    BY <1>6 DEF Exchange, Serving, Idle
  <2>2. /\ k \in 1 .. MaxCodes
        /\ IF Sells(k, c, right) THEN ResolveAndSign(r, c, k) ELSE UNCHANGED <<request, update>>
    BY <1>6, ExchangeFacts
  <2>3. CASE Sells(k, c, right)
    BY <1>5, <2>1, <2>2, <2>3, Bounds
  <2>4. CASE ~Sells(k, c, right)
    BY <2>2, <2>4 DEF RequestsAreWhole
  <2>5. QED
    BY <2>3, <2>4
<1>7. ASSUME NEW r \in Slots, NEW c \in Client, MachineGrant(r, c) PROVE RequestsAreWhole'
  BY <1>5, <1>7, Bounds DEF MachineGrant, Serving, Idle
<1>8. ASSUME NEW r \in Slots, NEW t \in DOMAIN refresh, Refresh(r, t) PROVE RequestsAreWhole'
  <2>1. refresh[t].family \in 0 .. MaxCodes /\ refresh[t].client \in Client
        /\ ResolveAndSign(r, refresh[t].client, refresh[t].family)
    BY <1>8, RefreshFacts, Bounds DEF RefreshToken
  <2>2. QED
    BY <1>5, <1>8, <2>1 DEF Refresh, Serving, Idle
<1>9. ASSUME NEW r \in Slots, Answer(r) PROVE RequestsAreWhole'
  <2>1. update[ServerProc].pc = "none" /\ update' = update
    BY <1>9 DEF Answer, Serving, Idle
  <2>2. request' = [request EXCEPT ![r] = NoRequest]
    BY <1>9 DEF Answer
  <2>3. request'[r] = NoRequest /\ \A s \in Slots \ {r} : request'[s] = request[s]
    BY <2>2 DEF TypeOK
  <2>4. QED
    BY <2>1, <2>3 DEF RequestsAreWhole, NoRequest
<1>10. ASSUME NEW k \in DOMAIN codes, CodeExpires(k) PROVE RequestsAreWhole'
  BY <1>10 DEF CodeExpires, RequestsAreWhole
<1>11. ASSUME NEW t \in DOMAIN refresh, RefreshExpires(t) PROVE RequestsAreWhole'
  BY <1>11 DEF RefreshExpires, RequestsAreWhole
<1>12. ASSUME NEW p \in Clis, AuthCommand(p) PROVE RequestsAreWhole'
  <2>1. p # ServerProc /\ UNCHANGED request
    BY <1>12, Bounds DEF AuthCommand
  <2>2. update'[ServerProc] = update[ServerProc]
    BY <1>12, <2>1, Bounds
    DEF AuthCommand, AddClient, RemoveClient, SetLogin, IssueClient, StartUpdate, TypeOK, Procs
  <2>3. QED
    BY <2>1, <2>2 DEF RequestsAreWhole
<1>13. ASSUME NEW p \in Procs, ReadState(p) PROVE RequestsAreWhole'
  <2>1. CASE update' = [update EXCEPT ![p].pc = "map", ![p].seen = file] /\ UNCHANGED request
    <3>1. update'[ServerProc].slot = update[ServerProc].slot
      BY <2>1, Bounds DEF TypeOK, Update
    <3>2. update'[ServerProc].pc # "none" => update[ServerProc].pc # "none"
      BY <1>13, <2>1, Bounds DEF TypeOK, Update, ReadState
    <3>3. QED
      BY <2>1, <3>1, <3>2 DEF RequestsAreWhole
  <2>2. CASE update' = [update EXCEPT ![p] = NoUpdate] /\ UNCHANGED request
    <3>1. update'[ServerProc] = update[ServerProc] \/ update'[ServerProc].pc = "none"
      BY <2>2, Bounds DEF TypeOK, NoUpdate
    <3>2. QED
      BY <2>2, <3>1 DEF RequestsAreWhole
  <2>3. CASE /\ update' = [update EXCEPT ![p] = NoUpdate] /\ update[p].op = "mint"
             /\ SecretResolved(update[p], file.jwt)
    <3>1. p = ServerProc /\ update[ServerProc].pc # "none"
      BY <1>13, <2>3 DEF ReadState, UpdatesByRole
    <3>2. update'[ServerProc].pc = "none"
      BY <2>3, <3>1 DEF TypeOK, NoUpdate
    <3>3. file.jwt \in Secret
      BY DEF TypeOK, CredentialsFile
    <3>4. QED
      BY <2>3, <3>1, <3>2, <3>3, SecretResolvedFacts DEF RequestsAreWhole
  <2>4. QED
    BY <1>13, <2>1, <2>2, <2>3 DEF ReadState
<1>14. ASSUME NEW p \in Procs, ReadMap(p) PROVE RequestsAreWhole'
  <2>1. UNCHANGED request /\ update' = [update EXCEPT ![p].pc = "rename", ![p].map = file]
    BY <1>14 DEF ReadMap
  <2>2. update'[ServerProc].slot = update[ServerProc].slot
    BY <2>1, Bounds DEF TypeOK, Update
  <2>3. update'[ServerProc].pc # "none" => update[ServerProc].pc # "none"
    BY <1>14, <2>1, Bounds DEF TypeOK, Update, ReadMap
  <2>4. QED
    BY <2>1, <2>2, <2>3 DEF RequestsAreWhole
<1>15. ASSUME NEW p \in Procs, NEW written \in BOOLEAN, update[p].pc = "rename", Finish(p, written),
              written /\ update[p].op = "mint" => minted + 1 \in Secret
       PROVE  RequestsAreWhole'
  <2>1. update' = [update EXCEPT ![p] = NoUpdate]
    BY <1>15, FinishFacts
  <2>2. update'[ServerProc] = update[ServerProc] \/ update'[ServerProc].pc = "none"
    BY <2>1, Bounds DEF TypeOK, NoUpdate
  <2>3. CASE update[p].op # "mint"
    <3>1. UNCHANGED request
      BY <1>15, <2>3, FinishFacts
    <3>2. QED
      BY <2>2, <3>1 DEF RequestsAreWhole
  <2>4. CASE update[p].op = "mint"
    <3>1. p = ServerProc /\ SecretResolved(update[p], IF written THEN minted + 1 ELSE NoSecret)
      BY <1>15, <2>4, FinishFacts
    <3>2. (IF written THEN minted + 1 ELSE NoSecret) \in Secret
      BY <1>15, <2>4, Bounds
    <3>3. update'[ServerProc].pc = "none" /\ update[ServerProc].pc # "none"
      BY <1>15, <2>1, <3>1 DEF TypeOK, NoUpdate
    <3>4. QED
      BY <3>1, <3>2, <3>3, SecretResolvedFacts DEF RequestsAreWhole
  <2>5. QED
    BY <2>3, <2>4
<1>16. ASSUME NEW p \in Procs, Rename(p) PROVE RequestsAreWhole'
  <2>1. update[p].op = "mint" => minted + 1 \in Secret
    BY <1>16, Bounds DEF Rename, Secret, TypeOK
  <2>2. QED
    BY <1>15, <1>16, <2>1 DEF Rename
<1>17. ASSUME NEW p \in Procs, WriteFails(p) PROVE RequestsAreWhole'
  BY <1>15, <1>17 DEF WriteFails
<1>18. CASE UNCHANGED vars
  BY <1>18 DEF vars, RequestsAreWhole
<1>19. QED
  BY <1>1, <1>2, <1>3, <1>4, <1>6, <1>7, <1>8, <1>9, <1>10, <1>11, <1>12, <1>13, <1>14,
     <1>16, <1>17, <1>18 DEF Next

-----------------------------------------------------------------------------
(* Registrations.                                                           *)

(* What a process has read of the file, and what it will write, only grows  *)
(* by clients a login stood for.                                            *)
LEMMA AuthorizedStep ==
  ASSUME TypeOK, UpdatesByRole, WritesAreAuthorized, AbandonedNeverPersisted, [Next]_vars
  PROVE  AbandonedNeverPersisted' /\ WritesAreAuthorized'
<1> DEFINE Mine(p) == update[p].seen.clients \cup update[p].map.clients
           Adds(p) == update[p].pc # "none" /\ update[p].op \in {"commit", "add"}
<1>1. /\ NoUpdate.seen.clients = {} /\ NoUpdate.map.clients = {} /\ NoUpdate.pc = "none"
  BY DEF NoUpdate, EmptyFile
<1>2. ASSUME NEW p \in Procs, NEW op \in {"commit", "mint", "add", "remove", "login"},
             NEW c \in Client \cup {Null}, NEW slot \in Slots \cup {Null},
             StartUpdate(p, op, c, slot), op \in {"commit", "add"} => c \in authorized',
             authorized \subseteq authorized', UNCHANGED file
      PROVE  AbandonedNeverPersisted' /\ WritesAreAuthorized'
  <2>1. /\ update'[p] = [NoUpdate EXCEPT !.pc = IF op = "login" THEN "map" ELSE "state",
                                        !.op = op, !.client = c, !.slot = slot]
        /\ \A q \in Procs \ {p} : update'[q] = update[q]
    BY <1>2 DEF StartUpdate, TypeOK
  <2>2. /\ update'[p].seen.clients = {} /\ update'[p].map.clients = {}
        /\ update'[p].op = op /\ update'[p].client = c
    BY <2>1 DEF NoUpdate, EmptyFile
  <2>3. QED
    BY <1>2, <2>1, <2>2 DEF AbandonedNeverPersisted, WritesAreAuthorized
<1>3. ASSUME UNCHANGED <<update, file>>, authorized \subseteq authorized'
      PROVE  AbandonedNeverPersisted' /\ WritesAreAuthorized'
  BY <1>3 DEF AbandonedNeverPersisted, WritesAreAuthorized
<1>4. CASE Boot
  BY <1>2, <1>3, <1>4, Bounds DEF Boot
<1>5. CASE Restart
  <2>1. update'[ServerProc] = NoUpdate /\ \A q \in Procs \ {ServerProc} : update'[q] = update[q]
    BY <1>5, Bounds DEF Restart, TypeOK
  <2>2. UNCHANGED <<file, authorized>>
    BY <1>5 DEF Restart
  <2>3. QED
    BY <1>1, <2>1, <2>2 DEF AbandonedNeverPersisted, WritesAreAuthorized
<1>6. ASSUME NEW c \in Client, Register(c) \/ PendingExpires(c)
      PROVE  AbandonedNeverPersisted' /\ WritesAreAuthorized'
  BY <1>3, <1>6 DEF Register, PendingExpires, IssueClient
<1>7. ASSUME NEW c \in Client, NEW right \in BOOLEAN, Login(c, right)
      PROVE  AbandonedNeverPersisted' /\ WritesAreAuthorized'
  <2>1. /\ authorized \subseteq authorized' /\ UNCHANGED file
        /\ Commits(c, right) => c \in authorized'
    BY <1>7 DEF Login, Commits
  <2>2. \/ UNCHANGED update
        \/ StartUpdate(ServerProc, "commit", c, Null) /\ Commits(c, right)
    BY <1>7 DEF Login
  <2>3. QED
    BY <1>2, <1>3, <2>1, <2>2, Bounds
<1>8. ASSUME NEW r \in Slots, NEW c \in Client, NEW f \in 0 .. MaxCodes, ResolveAndSign(r, c, f),
             UNCHANGED <<file, authorized>>
      PROVE  AbandonedNeverPersisted' /\ WritesAreAuthorized'
  <2>1. \/ UNCHANGED update
        \/ StartUpdate(ServerProc, "mint", Null, r)
    BY <1>8, ResolveAndSignType
  <2>2. QED
    BY <1>2, <1>3, <1>8, <2>1, Bounds
<1>9. ASSUME NEW r \in Slots, NEW k \in DOMAIN codes, NEW c \in Client,
             NEW right \in SUBSET {"secret", "verifier", "redirect"}, Exchange(r, k, c, right)
      PROVE  AbandonedNeverPersisted' /\ WritesAreAuthorized'
  <2>1. /\ k \in 1 .. MaxCodes
        /\ IF Sells(k, c, right) THEN ResolveAndSign(r, c, k) ELSE UNCHANGED <<request, update>>
    BY <1>9, ExchangeFacts
  <2>2. UNCHANGED <<file, authorized>> /\ k \in 0 .. MaxCodes
    BY <1>9, <2>1, Bounds DEF Exchange
  <2>3. QED
    BY <1>3, <1>8, <2>1, <2>2
<1>10. ASSUME NEW r \in Slots, NEW c \in Client, MachineGrant(r, c)
       PROVE  AbandonedNeverPersisted' /\ WritesAreAuthorized'
  BY <1>8, <1>10, Bounds DEF MachineGrant
<1>11. ASSUME NEW r \in Slots, NEW t \in DOMAIN refresh, Refresh(r, t)
       PROVE  AbandonedNeverPersisted' /\ WritesAreAuthorized'
  <2>1. refresh[t].family \in 0 .. MaxCodes /\ refresh[t].client \in Client
        /\ ResolveAndSign(r, refresh[t].client, refresh[t].family)
    BY <1>11, RefreshFacts, Bounds DEF RefreshToken
  <2>2. QED
    BY <1>8, <1>11, <2>1 DEF Refresh
<1>12. ASSUME NEW r \in Slots, Answer(r) PROVE AbandonedNeverPersisted' /\ WritesAreAuthorized'
  BY <1>3, <1>12 DEF Answer
<1>13. ASSUME NEW k, CodeExpires(k) \/ RefreshExpires(k)
       PROVE  AbandonedNeverPersisted' /\ WritesAreAuthorized'
  BY <1>3, <1>13 DEF CodeExpires, RefreshExpires
<1>14. ASSUME NEW p \in Clis, AuthCommand(p)
       PROVE  AbandonedNeverPersisted' /\ WritesAreAuthorized'
  <2>1. p \in Procs /\ p # ServerProc /\ UNCHANGED file
    BY <1>14, Bounds DEF Procs, AuthCommand
  <2>2. CASE \E c \in Client : AddClient(p, c)
    BY <1>2, <2>1, <2>2 DEF AddClient, IssueClient
  <2>3. CASE (\E c \in Client : RemoveClient(p, c)) \/ SetLogin(p)
    BY <1>2, <2>1, <2>3 DEF RemoveClient, SetLogin
  <2>4. QED
    BY <1>14, <2>2, <2>3 DEF AuthCommand
<1>15. ASSUME NEW p \in Procs, ReadState(p) \/ ReadMap(p)
       PROVE  AbandonedNeverPersisted' /\ WritesAreAuthorized'
  <2>1. update[p].pc # "none" /\ UNCHANGED <<file, authorized>>
    BY <1>15 DEF ReadState, ReadMap
  <2>2. \A q \in Procs \ {p} : update'[q] = update[q]
    BY <1>15 DEF ReadState, ReadMap, TypeOK
  <2>3. \/ update'[p] = NoUpdate
        \/ update'[p] = [update[p] EXCEPT !.pc = "map", !.seen = file]
        \/ update'[p] = [update[p] EXCEPT !.pc = "rename", !.map = file]
    BY <1>15 DEF ReadState, ReadMap, TypeOK
  <2>4. \/ update'[p] = NoUpdate
        \/ /\ update'[p].op = update[p].op /\ update'[p].client = update[p].client
           /\ update'[p].seen \in {update[p].seen, file} /\ update'[p].map \in {update[p].map, file}
    <3>1. update[p] \in Update
      BY DEF TypeOK
    <3>2. CASE update'[p] = [update[p] EXCEPT !.pc = "map", !.seen = file]
      BY <3>1, <3>2 DEF Update
    <3>3. CASE update'[p] = [update[p] EXCEPT !.pc = "rename", !.map = file]
      BY <3>1, <3>3 DEF Update
    <3>4. QED
      BY <2>3, <3>2, <3>3
  <2>5. QED
    BY <1>1, <2>1, <2>2, <2>4 DEF AbandonedNeverPersisted, WritesAreAuthorized
<1>16. ASSUME NEW p \in Procs, Rename(p) PROVE AbandonedNeverPersisted' /\ WritesAreAuthorized'
  <2>1. /\ update' = [update EXCEPT ![p] = NoUpdate] /\ UNCHANGED authorized
        /\ file' = Merged(update[p]) /\ update[p].pc = "rename"
    BY <1>16 DEF Rename, Finish
  <2>2. update'[p] = NoUpdate /\ \A q \in Procs \ {p} : update'[q] = update[q]
    BY <2>1 DEF TypeOK
  <2>3. Merged(update[p]).clients \subseteq Mine(p) \cup (IF Adds(p) THEN {update[p].client} ELSE {})
    <3>1. /\ update[p].map \in CredentialsFile
          /\ update[p].op \in {"commit", "mint", "add", "remove", "login"}
      BY <2>1 DEF TypeOK, Update, UpdatesByRole
    <3>2. CASE update[p].op = "login"
      BY <3>1, <3>2 DEF Merged, CredentialsFile
    <3>3. CASE update[p].op # "login"
      <4>1. Merged(update[p]).clients = Registry(update[p])
        BY <3>1, <3>3 DEF Merged, CredentialsFile
      <4>2. QED
        BY <2>1, <3>1, <3>3, <4>1 DEF Registry
    <3>4. QED
      BY <3>2, <3>3
  <2>4. QED
    BY <1>1, <2>1, <2>2, <2>3 DEF AbandonedNeverPersisted, WritesAreAuthorized
<1>17. ASSUME NEW p \in Procs, WriteFails(p) PROVE AbandonedNeverPersisted' /\ WritesAreAuthorized'
  <2>1. update' = [update EXCEPT ![p] = NoUpdate] /\ UNCHANGED <<authorized, file>>
    BY <1>17 DEF WriteFails, Finish
  <2>2. update'[p] = NoUpdate /\ \A q \in Procs \ {p} : update'[q] = update[q]
    BY <2>1 DEF TypeOK
  <2>3. QED
    BY <1>1, <2>1, <2>2 DEF AbandonedNeverPersisted, WritesAreAuthorized
<1>18. CASE UNCHANGED vars
  BY <1>3, <1>18 DEF vars
<1>19. QED
  BY <1>4, <1>5, <1>6, <1>7, <1>9, <1>10, <1>11, <1>12, <1>13, <1>14, <1>15, <1>16, <1>17, <1>18
  DEF Next

(* A client that is found stays found until it is dropped, or the server    *)
(* restarts and all codes with it.                                          *)
LEMMA FoundStays ==
  ASSUME TypeOK, UpdatesByRole, [Next]_vars, ~Restart, NEW c, FindClient(c), c \notin dropped'
  PROVE  FindClient(c)'
<1> USE DEF FindClient
<1>1. ASSUME UNCHANGED file, pending \subseteq pending' PROVE FindClient(c)'
  BY <1>1
<1>2. ASSUME NEW p \in Procs, Rename(p) PROVE FindClient(c)'
  <2>1. /\ dropped' = dropped \cup (file.clients \ file'.clients)
        /\ file' = Merged(update[p]) /\ update[p].pc = "rename"
        /\ Finish(p, TRUE)
    BY <1>2 DEF Rename
  <2>2. c \in file.clients => c \in file'.clients
    BY <2>1
  <2>3. CASE update[p].op # "commit"
    <3>1. pending' = pending
      BY <2>1, <2>3 DEF Finish
    <3>2. QED
      BY <2>2, <3>1
  <2>4. CASE update[p].op = "commit"
    <3>1. pending' = pending \ {update[p].client}
      BY <2>1, <2>4 DEF Finish, PendingAfterCommit
    <3>2. update[p].map \in CredentialsFile
      BY DEF TypeOK, Update
    <3>3. update[p].client \in file'.clients
      BY <2>1, <2>4, <3>2 DEF Merged, Registry, CredentialsFile
    <3>4. QED
      BY <2>2, <3>1, <3>3
  <2>5. QED
    BY <2>3, <2>4
<1>3. ASSUME NEW p \in Procs, WriteFails(p) PROVE FindClient(c)'
  <2>1. Finish(p, FALSE) /\ UNCHANGED file
    BY <1>3 DEF WriteFails
  <2>2. pending' = pending
    BY <2>1 DEF Finish, PendingAfterCommit
  <2>3. QED
    BY <2>1, <2>2
<1>4. CASE Boot
  BY <1>1, <1>4 DEF Boot
<1>5. ASSUME NEW d \in Client, Register(d) PROVE FindClient(c)'
  BY <1>1, <1>5 DEF Register, IssueClient
<1>6. ASSUME NEW d \in Client, PendingExpires(d) PROVE FindClient(c)'
  BY <1>6 DEF PendingExpires
<1>7. ASSUME NEW d \in Client, NEW right \in BOOLEAN, Login(d, right) PROVE FindClient(c)'
  BY <1>1, <1>7 DEF Login
<1>8. ASSUME NEW r \in Slots,
             \/ \E k \in DOMAIN codes, d \in Client, right \in SUBSET {"secret", "verifier", "redirect"} :
                  Exchange(r, k, d, right)
             \/ \E d \in Client : MachineGrant(r, d)
             \/ \E t \in DOMAIN refresh : Refresh(r, t)
             \/ Answer(r)
      PROVE  FindClient(c)'
  <2>1. UNCHANGED <<pending, file>>
    <3>1. ASSUME NEW k, NEW d, NEW right, Exchange(r, k, d, right) PROVE UNCHANGED <<pending, file>>
      BY <3>1 DEF Exchange
    <3>2. ASSUME NEW d, MachineGrant(r, d) PROVE UNCHANGED <<pending, file>>
      BY <3>2 DEF MachineGrant
    <3>3. ASSUME NEW t, Refresh(r, t) PROVE UNCHANGED <<pending, file>>
      BY <3>3 DEF Refresh
    <3>4. Answer(r) => UNCHANGED <<pending, file>>
      BY DEF Answer
    <3>5. QED
      BY ONLY <1>8, <3>1, <3>2, <3>3, <3>4
  <2>2. QED
    BY <1>1, <2>1
<1>9. ASSUME NEW k, CodeExpires(k) \/ RefreshExpires(k) PROVE FindClient(c)'
  BY <1>1, <1>9 DEF CodeExpires, RefreshExpires
<1>10. ASSUME NEW p \in Clis, AuthCommand(p) PROVE FindClient(c)'
  BY <1>1, <1>10 DEF AuthCommand
<1>11. ASSUME NEW p \in Procs, ReadState(p) \/ ReadMap(p) PROVE FindClient(c)'
  BY <1>1, <1>11 DEF ReadState, ReadMap
<1>12. CASE UNCHANGED vars
  BY <1>1, <1>12 DEF vars
<1>13. QED
  BY <1>2, <1>3, <1>4, <1>5, <1>6, <1>7, <1>8, <1>9, <1>10, <1>11, <1>12 DEF Next

(* What a step does to the codes: it spends or expires them, presents one   *)
(* that is still unspent, hands out a new one to a client that is found.    *)
CodeGoesOn(k) ==
  /\ k \in DOMAIN codes'
  /\ codes'[k].client = codes[k].client
  /\ codes[k].sold \subseteq codes'[k].sold
  /\ codes'[k].sold \subseteq codes[k].sold
       \cup (IF codes[k].consumed THEN {} ELSE {codes[k].tries + 1})
  /\ ~codes'[k].consumed => /\ ~codes[k].consumed /\ codes'[k].tries = codes[k].tries
                            /\ codes'[k].sold = codes[k].sold
  /\ ~codes'[k].expired => ~codes[k].expired

CodeIsNew(k) ==
  /\ ~codes'[k].consumed /\ codes'[k].tries = 0 /\ codes'[k].sold = {}
  /\ \E c \in Client : codes'[k].client = c /\ (FindClient(c)' \/ c \in dropped')

LEMMA CodeStep ==
  ASSUME TypeOK, UpdatesByRole, [Next]_vars, ~Restart
  PROVE  /\ \A k \in DOMAIN codes : CodeGoesOn(k)
         /\ \A k \in DOMAIN codes' \ DOMAIN codes : CodeIsNew(k)
<1> DEFINE Claim == /\ \A k \in DOMAIN codes : CodeGoesOn(k)
                    /\ \A k \in DOMAIN codes' \ DOMAIN codes : CodeIsNew(k)
<1>1. ASSUME UNCHANGED codes PROVE Claim
  BY <1>1 DEF CodeGoesOn
<1>2. ASSUME NEW c \in Client, GenerateCode(c), Len(codes) < MaxCodes,
             FindClient(c)' \/ c \in dropped'
      PROVE  Claim
  <2>1. /\ DOMAIN codes = 1 .. Len(codes) /\ DOMAIN codes' = 1 .. Len(codes) + 1
        /\ \A k \in DOMAIN codes : codes'[k] = codes[k]
        /\ codes'[Len(codes) + 1] = [client |-> c, consumed |-> FALSE, expired |-> FALSE,
                                     tries |-> 0, sold |-> {}]
    BY <1>2, GenerateCodeType
  <2>2. Len(codes) \in Nat
    BY LenProperties DEF TypeOK
  <2>3. \A k \in DOMAIN codes : CodeGoesOn(k)
    BY <2>1, <2>2 DEF CodeGoesOn
  <2>4. ASSUME NEW k \in DOMAIN codes' \ DOMAIN codes PROVE CodeIsNew(k)
    <3>1. k = Len(codes) + 1
      BY <2>1, <2>2
    <3>2. QED
      BY <1>2, <2>1, <3>1 DEF CodeIsNew
  <2>5. QED
    BY <2>3, <2>4
<1>3. ASSUME NEW c \in Client, NEW right \in BOOLEAN, Login(c, right) PROVE Claim
  <2>1. CASE Commits(c, right)
    BY <1>1, <1>3, <2>1 DEF Login
  <2>2. CASE ~Commits(c, right)
    BY <1>2, <1>3, <2>2 DEF Login, FindClient
  <2>3. QED
    BY <2>1, <2>2
<1>4. ASSUME NEW r \in Slots, NEW k \in DOMAIN codes, NEW c \in Client,
             NEW right \in SUBSET {"secret", "verifier", "redirect"}, Exchange(r, k, c, right)
      PROVE  Claim
  <2>1. /\ DOMAIN codes' = DOMAIN codes
        /\ codes'[k].client = codes[k].client /\ codes'[k].expired = codes[k].expired
        /\ codes'[k].consumed
        /\ codes'[k].sold = IF Sells(k, c, right) THEN codes[k].sold \cup {codes[k].tries + 1}
                            ELSE codes[k].sold
        /\ \A j \in DOMAIN codes \ {k} : codes'[j] = codes[j]
    BY <1>4, ExchangeFacts
  <2>2. Sells(k, c, right) => ~codes[k].consumed
    BY DEF Sells
  <2>3. CodeGoesOn(k)
    BY <2>1, <2>2 DEF CodeGoesOn
  <2>4. \A j \in DOMAIN codes \ {k} : CodeGoesOn(j)
    BY <2>1 DEF CodeGoesOn
  <2>5. QED
    BY <2>1, <2>3, <2>4
<1>5. ASSUME NEW k \in DOMAIN codes, CodeExpires(k) PROVE Claim
  <2>1. codes[k] \in Code
    BY LenProperties, ElementOfSeq DEF TypeOK
  <2>2. [codes[k] EXCEPT !.expired = TRUE] \in Code
    BY <2>1 DEF Code
  <2>3. /\ DOMAIN codes' = DOMAIN codes /\ codes'[k] = [codes[k] EXCEPT !.expired = TRUE]
        /\ \A j \in DOMAIN codes \ {k} : codes'[j] = codes[j]
    BY <1>5, <2>2, CodeEdited DEF CodeExpires
  <2>4. CodeGoesOn(k)
    BY <2>1, <2>3 DEF CodeGoesOn, Code
  <2>5. \A j \in DOMAIN codes \ {k} : CodeGoesOn(j)
    BY <2>3 DEF CodeGoesOn
  <2>6. QED
    BY <2>3, <2>4, <2>5
<1>6. ASSUME NEW p \in Procs, NEW written \in BOOLEAN, update[p].pc = "rename", Finish(p, written),
             written /\ update[p].op = "mint" => minted + 1 \in Secret,
             IF written THEN Rename(p) ELSE WriteFails(p)
      PROVE  Claim
  <2>1. CASE update[p].op # "commit"
    BY <1>1, <1>6, <2>1, FinishFacts
  <2>2. CASE update[p].op = "commit"
    <3>1. /\ update[p].client \in pending /\ update[p].client \in Client
          /\ GenerateCode(update[p].client) /\ Len(codes) < MaxCodes
      BY <1>6, <2>2, FinishFacts
    <3>2. PICK c \in Client : c = update[p].client
      BY <3>1
    <3>3. FindClient(c)
      BY <3>1, <3>2 DEF FindClient
    <3>4. FindClient(c)' \/ c \in dropped'
      BY <3>3, FoundStays
    <3>5. QED
      BY <1>2, <3>1, <3>2, <3>4
  <2>3. QED
    BY <2>1, <2>2
<1>7. ASSUME NEW p \in Procs, Rename(p) PROVE Claim
  <2>1. update[p].op = "mint" => minted + 1 \in Secret
    BY <1>7, Bounds DEF Rename, Secret, TypeOK
  <2>2. update[p].pc = "rename" /\ Finish(p, TRUE)
    BY <1>7 DEF Rename
  <2>3. QED
    BY <1>6, <1>7, <2>1, <2>2
<1>8. ASSUME NEW p \in Procs, WriteFails(p) PROVE Claim
  <2>1. update[p].pc = "rename" /\ Finish(p, FALSE)
    BY <1>8 DEF WriteFails
  <2>2. QED
    BY <1>6, <1>8, <2>1
<1>9. CASE Boot
  BY <1>1, <1>9 DEF Boot
<1>10. ASSUME NEW c \in Client, Register(c) \/ PendingExpires(c) PROVE Claim
  BY <1>1, <1>10 DEF Register, PendingExpires
<1>11. ASSUME NEW r \in Slots,
              \/ \E c \in Client : MachineGrant(r, c)
              \/ \E t \in DOMAIN refresh : Refresh(r, t)
              \/ Answer(r)
       PROVE  Claim
  BY <1>1, <1>11 DEF MachineGrant, Refresh, Answer
<1>12. ASSUME NEW t \in DOMAIN refresh, RefreshExpires(t) PROVE Claim
  BY <1>1, <1>12 DEF RefreshExpires
<1>13. ASSUME NEW p, ReadState(p) \/ ReadMap(p) \/ AuthCommand(p) PROVE Claim
  BY <1>1, <1>13 DEF ReadState, ReadMap, AuthCommand
<1>14. CASE UNCHANGED vars
  BY <1>1, <1>14 DEF vars
<1>15. QED
  BY <1>3, <1>4, <1>5, <1>7, <1>8, <1>9, <1>10, <1>11, <1>12, <1>13, <1>14 DEF Next

LEMMA DroppedGrows == [Next]_vars => dropped \subseteq dropped'
<1>1. ASSUME NEW p, AuthCommand(p) \/ ReadState(p) \/ ReadMap(p) \/ Rename(p) \/ WriteFails(p)
      PROVE  dropped \subseteq dropped'
  BY <1>1 DEF AuthCommand, ReadState, ReadMap, Rename, WriteFails
<1>2. ASSUME NEW r, \/ \E k, c, right : Exchange(r, k, c, right)
                   \/ \E c : MachineGrant(r, c) \/ Refresh(r, c)
                   \/ Answer(r)
      PROVE  dropped \subseteq dropped'
  <2>1. ASSUME NEW k, NEW c, NEW right, Exchange(r, k, c, right) PROVE dropped' = dropped
    BY <2>1 DEF Exchange
  <2>2. ASSUME NEW c, MachineGrant(r, c) PROVE dropped' = dropped
    BY <2>2 DEF MachineGrant
  <2>3. ASSUME NEW c, Refresh(r, c) PROVE dropped' = dropped
    BY <2>3 DEF Refresh
  <2>4. Answer(r) => dropped' = dropped
    BY DEF Answer
  <2>5. dropped' = dropped
    BY ONLY <1>2, <2>1, <2>2, <2>3, <2>4
  <2>6. QED
    BY ONLY <2>5
<1>3. ASSUME NEW c, \/ Register(c) \/ PendingExpires(c) \/ CodeExpires(c) \/ RefreshExpires(c)
                   \/ \E right : Login(c, right)
      PROVE  dropped \subseteq dropped'
  BY <1>3 DEF Register, PendingExpires, CodeExpires, RefreshExpires, Login
<1>4. CASE Boot \/ Restart \/ UNCHANGED vars
  BY <1>4 DEF Boot, Restart, vars
<1>5. QED
  BY <1>1, <1>2, <1>3, <1>4 DEF Next

(* A code that can still be exchanged keeps its client.                     *)
LEMMA LiveCodeStep ==
  ASSUME TypeOK, UpdatesByRole, LiveCodeHasItsClient, [Next]_vars
  PROVE  LiveCodeHasItsClient'
<1>1. CASE Restart
  BY <1>1 DEF Restart, LiveCodeHasItsClient
<1>2. CASE ~Restart
  <2>1. SUFFICES ASSUME NEW k \in DOMAIN codes', ~codes'[k].consumed, ~codes'[k].expired,
                        NEW c, c = codes'[k].client, c \notin dropped'
                 PROVE  FindClient(c)'
    BY DEF LiveCodeHasItsClient, FindClient
  <2>2. CASE k \in DOMAIN codes
    <3>1. CodeGoesOn(k)
      BY <1>2, <2>2, CodeStep
    <3>2. codes[k].client = c /\ ~codes[k].consumed /\ ~codes[k].expired
      BY <2>1, <3>1 DEF CodeGoesOn
    <3>3. dropped \subseteq dropped'
      BY <1>2, DroppedGrows
    <3>4. FindClient(c)
      BY <2>1, <2>2, <3>2, <3>3 DEF LiveCodeHasItsClient
    <3>5. QED
      BY <1>2, <2>1, <3>4, FoundStays
  <2>3. CASE k \notin DOMAIN codes
    <3>1. CodeIsNew(k)
      BY <1>2, <2>1, <2>3, CodeStep
    <3>2. PICK d \in Client : codes'[k].client = d /\ (FindClient(d)' \/ d \in dropped')
      BY <3>1 DEF CodeIsNew
    <3>3. QED
      BY <2>1, <3>2 DEF FindClient
  <2>4. QED
    BY <2>2, <2>3
<1>3. QED
  BY <1>1, <1>2

-----------------------------------------------------------------------------
(* Codes and tokens.                                                        *)

LEMMA SpentStep ==
  ASSUME TypeOK, UpdatesByRole, CodeBuysOnce, PresentedMeansSpent, [Next]_vars
  PROVE  CodeBuysOnce' /\ PresentedMeansSpent'
<1>1. CASE Restart
  BY <1>1 DEF Restart, CodeBuysOnce, PresentedMeansSpent
<1>2. CASE ~Restart
  <2>1. /\ \A k \in DOMAIN codes : CodeGoesOn(k)
        /\ \A k \in DOMAIN codes' \ DOMAIN codes : CodeIsNew(k)
    BY <1>2, CodeStep
  <2>2. ASSUME NEW k \in DOMAIN codes'
        PROVE  /\ codes'[k].sold \subseteq {1}
               /\ ~codes'[k].consumed => codes'[k].tries = 0 /\ codes'[k].sold = {}
    <3>1. CASE k \in DOMAIN codes
      BY <2>1, <3>1 DEF CodeGoesOn, CodeBuysOnce, PresentedMeansSpent
    <3>2. CASE k \notin DOMAIN codes
      BY <2>1, <2>2, <3>2 DEF CodeIsNew
    <3>3. QED
      BY <3>1, <3>2
  <2>3. QED
    BY <2>2 DEF CodeBuysOnce, PresentedMeansSpent
<1>3. QED
  BY <1>1, <1>2

(* What a step does to the right to a refresh token.                        *)
TokensRest ==
  /\ DOMAIN refresh' = DOMAIN refresh
  /\ \A t \in DOMAIN refresh : /\ refresh'[t].family = refresh[t].family
                               /\ refresh[t].used => refresh'[t].used
RequestsRest == \A s \in Slots : request'[s].family \in {request[s].family, 0}

(* A code is sold to request r.                                             *)
Sale(r, k) ==
  /\ TokensRest /\ \A s \in Slots \ {r} : request'[s].family = request[s].family
  /\ k \in DOMAIN codes /\ ~codes[k].consumed /\ codes'[k].sold # {}
  /\ request'[r].family = k /\ request[r].family = 0

(* Request r takes over from token t.                                       *)
Rotation(r, t) ==
  /\ TokensRest /\ \A s \in Slots \ {r} : request'[s].family = request[s].family
  /\ t \in DOMAIN refresh /\ ~refresh[t].used /\ refresh'[t].used
  /\ request'[r].family = refresh[t].family /\ request[r].family = 0

(* A new token takes over from request r.                                   *)
HandOver(r, n) ==
  /\ n \notin DOMAIN refresh /\ DOMAIN refresh' = DOMAIN refresh \cup {n}
  /\ \A t \in DOMAIN refresh : refresh'[t] = refresh[t]
  /\ refresh'[n].family = request[r].family /\ request[r].family # 0
  /\ request'[r].family = 0 /\ \A s \in Slots \ {r} : request'[s].family = request[s].family

LEMMA ResolvedFamily ==
  ASSUME TypeOK, NEW r \in Slots, NEW c \in Client, NEW f \in 0 .. MaxCodes, ResolveAndSign(r, c, f)
  PROVE  request'[r].family = f /\ \A s \in Slots \ {r} : request'[s].family = request[s].family
BY ResolveAndSignType

LEMMA TokenStep ==
  ASSUME TypeOK, UpdatesByRole, RequestsAreWhole, [Next]_vars, ~Restart
  PROVE  \/ TokensRest /\ RequestsRest
         \/ \E r \in Slots : \/ \E k \in DOMAIN codes : Sale(r, k)
                             \/ \E t \in DOMAIN refresh : Rotation(r, t)
                             \/ \E n \in Nat : HandOver(r, n)
<1> DEFINE Claim == \/ TokensRest /\ RequestsRest
                    \/ \E r \in Slots : \/ \E k \in DOMAIN codes : Sale(r, k)
                                        \/ \E t \in DOMAIN refresh : Rotation(r, t)
                                        \/ \E n \in Nat : HandOver(r, n)
<1>1. ASSUME UNCHANGED <<refresh, request>> PROVE Claim
  BY <1>1 DEF TokensRest, RequestsRest
<1>2. ASSUME NEW r \in Slots, NEW k \in DOMAIN codes, NEW c \in Client,
             NEW right \in SUBSET {"secret", "verifier", "redirect"}, Exchange(r, k, c, right)
      PROVE  Claim
  <2>1. /\ k \in 1 .. MaxCodes /\ codes[k] \in Code
        /\ codes'[k].sold = IF Sells(k, c, right) THEN codes[k].sold \cup {codes[k].tries + 1}
                            ELSE codes[k].sold
        /\ IF Sells(k, c, right) THEN ResolveAndSign(r, c, k) ELSE UNCHANGED <<request, update>>
    BY <1>2, ExchangeFacts
  <2>2. UNCHANGED refresh /\ request[r].family = 0
    BY <1>2 DEF Exchange, RequestsAreWhole
  <2>3. CASE ~Sells(k, c, right)
    BY <1>1, <2>1, <2>2, <2>3
  <2>4. CASE Sells(k, c, right)
    <3>1. k \in 0 .. MaxCodes
      BY <2>1, Bounds
    <3>2. request'[r].family = k /\ \A s \in Slots \ {r} : request'[s].family = request[s].family
      BY <2>1, <2>4, <3>1, ResolvedFamily
    <3>3. ~codes[k].consumed /\ codes'[k].sold # {}
      BY <2>1, <2>4 DEF Sells
    <3>4. Sale(r, k)
      BY <2>2, <3>2, <3>3 DEF Sale, TokensRest
    <3>5. QED
      BY <3>4
  <2>5. QED
    BY <2>3, <2>4
<1>3. ASSUME NEW r \in Slots, NEW c \in Client, MachineGrant(r, c) PROVE Claim
  <2>1. request'[r].family = 0 /\ \A s \in Slots \ {r} : request'[s].family = request[s].family
    BY <1>3, ResolvedFamily, Bounds DEF MachineGrant
  <2>2. UNCHANGED refresh
    BY <1>3 DEF MachineGrant
  <2>3. QED
    BY <2>1, <2>2 DEF TokensRest, RequestsRest
<1>4. ASSUME NEW r \in Slots, NEW t \in DOMAIN refresh, Refresh(r, t) PROVE Claim
  <2>1. /\ DOMAIN refresh' = DOMAIN refresh
        /\ refresh[t] \in RefreshToken /\ ~refresh[t].used /\ refresh'[t].used
        /\ refresh'[t].family = refresh[t].family
        /\ \A j \in DOMAIN refresh \ {t} : refresh'[j] = refresh[j]
        /\ ResolveAndSign(r, refresh[t].client, refresh[t].family)
    BY <1>4, RefreshFacts
  <2>2. refresh[t].family \in 0 .. MaxCodes /\ refresh[t].client \in Client
    BY <2>1, Bounds DEF RefreshToken
  <2>3. /\ request'[r].family = refresh[t].family
        /\ \A s \in Slots \ {r} : request'[s].family = request[s].family
    BY <2>1, <2>2, ResolvedFamily
  <2>4. request[r].family = 0
    BY <1>4 DEF Refresh, RequestsAreWhole
  <2>5. Rotation(r, t)
    BY <2>1, <2>3, <2>4 DEF Rotation, TokensRest
  <2>6. QED
    BY <2>5
<1>5. ASSUME NEW r \in Slots, Answer(r) PROVE Claim
  <2>1. /\ \A j \in DOMAIN refresh : j \in DOMAIN refresh' /\ refresh'[j] = refresh[j]
        /\ request[r].family = 0 => refresh' = refresh
        /\ request[r].family # 0 =>
             /\ DOMAIN refresh' = DOMAIN refresh \cup {Len(refresh) + 1}
             /\ Len(refresh) + 1 \notin DOMAIN refresh
             /\ refresh'[Len(refresh) + 1].family = request[r].family
        /\ request' = [request EXCEPT ![r] = NoRequest]
    BY <1>5, AnswerFacts
  <2>2. request'[r].family = 0 /\ \A s \in Slots \ {r} : request'[s] = request[s]
    BY <2>1 DEF TypeOK, NoRequest
  <2>3. CASE request[r].family = 0
    BY <2>1, <2>2, <2>3 DEF TokensRest, RequestsRest
  <2>4. CASE request[r].family # 0
    <3>1. Len(refresh) + 1 \in Nat
      BY LenProperties DEF TypeOK
    <3>2. HandOver(r, Len(refresh) + 1)
      BY <2>1, <2>2, <2>4 DEF HandOver
    <3>3. QED
      BY <3>1, <3>2
  <2>5. QED
    BY <2>3, <2>4
<1>6. ASSUME NEW t \in DOMAIN refresh, RefreshExpires(t) PROVE Claim
  <2>1. refresh[t] \in RefreshToken
    BY LenProperties, ElementOfSeq DEF TypeOK
  <2>2. /\ [refresh[t] EXCEPT !.expired = TRUE] \in RefreshToken
        /\ [refresh[t] EXCEPT !.expired = TRUE].family = refresh[t].family
        /\ [refresh[t] EXCEPT !.expired = TRUE].used = refresh[t].used
    BY <2>1 DEF RefreshToken
  <2>3. /\ DOMAIN refresh' = DOMAIN refresh /\ refresh'[t] = [refresh[t] EXCEPT !.expired = TRUE]
        /\ \A j \in DOMAIN refresh \ {t} : refresh'[j] = refresh[j]
    BY <1>6, <2>2, RefreshEdited DEF RefreshExpires
  <2>4. UNCHANGED request
    BY <1>6 DEF RefreshExpires
  <2>5. QED
    BY <2>2, <2>3, <2>4 DEF TokensRest, RequestsRest
<1>7. ASSUME NEW secret \in Secret, NEW p \in Procs, p = ServerProc, update[p].pc # "none",
             SecretResolved(update[p], secret), UNCHANGED refresh
      PROVE  Claim
  <2>1. \A s \in Slots : request'[s].family \in {request[s].family, 0}
    BY <1>7, SecretResolvedFacts
  <2>2. QED
    BY <1>7, <2>1 DEF TokensRest, RequestsRest
<1>8. ASSUME NEW p \in Procs, ReadState(p) PROVE Claim
  <2>1. UNCHANGED refresh /\ update[p].pc # "none" /\ file.jwt \in Secret
    BY <1>8 DEF ReadState, TypeOK, CredentialsFile
  <2>2. CASE UNCHANGED request
    BY <1>1, <2>1, <2>2
  <2>3. CASE update[p].op = "mint" /\ SecretResolved(update[p], file.jwt)
    <3>1. p = ServerProc
      BY <2>1, <2>3 DEF UpdatesByRole
    <3>2. QED
      BY <1>7, <2>1, <2>3, <3>1
  <2>4. QED
    BY <1>8, <2>2, <2>3 DEF ReadState
<1>9. ASSUME NEW p \in Procs, NEW written \in BOOLEAN, update[p].pc = "rename", Finish(p, written),
             written /\ update[p].op = "mint" => minted + 1 \in Secret, UNCHANGED refresh
      PROVE  Claim
  <2>1. CASE update[p].op # "mint"
    BY <1>1, <1>9, <2>1, FinishFacts
  <2>2. CASE update[p].op = "mint"
    <3>1. p = ServerProc /\ SecretResolved(update[p], IF written THEN minted + 1 ELSE NoSecret)
      BY <1>9, <2>2, FinishFacts
    <3>2. (IF written THEN minted + 1 ELSE NoSecret) \in Secret
      BY <1>9, <2>2, Bounds
    <3>3. QED
      BY <1>7, <1>9, <3>1, <3>2
  <2>3. QED
    BY <2>1, <2>2
<1>10. ASSUME NEW p \in Procs, Rename(p) PROVE Claim
  <2>1. update[p].op = "mint" => minted + 1 \in Secret
    BY <1>10, Bounds DEF Rename, Secret, TypeOK
  <2>2. QED
    BY <1>9, <1>10, <2>1 DEF Rename
<1>11. ASSUME NEW p \in Procs, WriteFails(p) PROVE Claim
  BY <1>9, <1>11 DEF WriteFails
<1>12. CASE Boot
  BY <1>1, <1>12 DEF Boot
<1>13. ASSUME NEW c \in Client, \/ Register(c) \/ PendingExpires(c)
                                \/ \E right \in BOOLEAN : Login(c, right)
       PROVE  Claim
  BY <1>1, <1>13 DEF Register, PendingExpires, Login
<1>14. ASSUME NEW k \in DOMAIN codes, CodeExpires(k) PROVE Claim
  BY <1>1, <1>14 DEF CodeExpires
<1>15. ASSUME NEW p, ReadMap(p) \/ AuthCommand(p) PROVE Claim
  BY <1>1, <1>15 DEF ReadMap, AuthCommand
<1>16. CASE UNCHANGED vars
  BY <1>1, <1>16 DEF vars
<1>17. QED
  BY <1>2, <1>3, <1>4, <1>5, <1>6, <1>8, <1>10, <1>11, <1>12, <1>13, <1>14, <1>15, <1>16 DEF Next

LEMMA FamilyStep ==
  ASSUME TypeOK, UpdatesByRole, RequestsAreWhole, FamiliesAreSold, [Next]_vars
  PROVE  FamiliesAreSold'
<1>1. CASE Restart
  BY <1>1 DEF Restart, FamiliesAreSold, NoRequest
<1>2. CASE ~Restart
  <2>1. ASSUME NEW k, FromSoldCode(k) PROVE FromSoldCode(k)'
    <3>1. CodeGoesOn(k)
      BY <1>2, <2>1, CodeStep DEF FromSoldCode
    <3>2. QED
      BY <2>1, <3>1 DEF CodeGoesOn, FromSoldCode
  <2>2. CASE TokensRest /\ RequestsRest
    BY <2>1, <2>2 DEF FamiliesAreSold, TokensRest, RequestsRest
  <2>3. ASSUME NEW r \in Slots, NEW k \in DOMAIN codes, Sale(r, k) PROVE FamiliesAreSold'
    <3>1. FromSoldCode(k)'
      BY <1>2, <2>3, CodeStep DEF FromSoldCode, Sale, CodeGoesOn
    <3>2. QED
      BY <2>1, <2>3, <3>1 DEF FamiliesAreSold, TokensRest, Sale
  <2>4. ASSUME NEW r \in Slots, NEW t \in DOMAIN refresh, Rotation(r, t) PROVE FamiliesAreSold'
    BY <2>1, <2>4 DEF FamiliesAreSold, TokensRest, Rotation
  <2>5. ASSUME NEW r \in Slots, NEW n \in Nat, HandOver(r, n) PROVE FamiliesAreSold'
    BY <2>1, <2>5 DEF FamiliesAreSold, HandOver
  <2>6. QED
    BY <1>2, <2>2, <2>3, <2>4, <2>5, TokenStep
<1>3. QED
  BY <1>1, <1>2

LEMMA CodeDomains ==
  ASSUME TypeOK, UpdatesByRole, RequestsAreWhole, [Next]_vars
  PROVE  DOMAIN codes = 1 .. Len(codes) /\ \A k \in DOMAIN codes' : k # 0
<1>1. DOMAIN codes = 1 .. Len(codes)
  BY LenProperties DEF TypeOK
<1>2. codes' \in Seq(Code)
  BY TypeStep DEF TypeOK
<1>3. DOMAIN codes' = 1 .. Len(codes')
  BY <1>2, LenProperties
<1>4. QED
  BY <1>1, <1>3

(* A code that sold nothing has no holder.                                  *)
LEMMA UnsoldHasNoHolder ==
  ASSUME FamiliesAreSold, NEW k, codes[k].sold = {} \/ k \notin DOMAIN codes, k # 0
  PROVE  Live(k) = {} /\ InFlight(k) = {}
BY DEF FamiliesAreSold, FromSoldCode, Live, InFlight

LEMMA HolderStep ==
  ASSUME TypeOK, UpdatesByRole, RequestsAreWhole, PresentedMeansSpent, FamiliesAreSold,
         FamiliesAreSold', OneHolder, [Next]_vars
  PROVE  OneHolder'
<1>1. CASE Restart
  BY <1>1 DEF Restart, OneHolder
<1>2. CASE ~Restart
  <2>1. SUFFICES ASSUME NEW k \in DOMAIN codes'
                 PROVE  /\ \A t, u \in Live(k)' : t = u
                        /\ \A r, s \in InFlight(k)' : r = s
                        /\ Live(k)' = {} \/ InFlight(k)' = {}
    BY DEF OneHolder
  <2>2. DOMAIN codes = 1 .. Len(codes) /\ k # 0
    BY <1>2, CodeDomains
  <2>3. CASE k \notin DOMAIN codes
    <3>1. codes'[k].sold = {}
      BY <1>2, <2>3, CodeStep DEF CodeIsNew
    <3>2. Live(k)' = {} /\ InFlight(k)' = {}
      BY <2>2, <3>1 DEF FamiliesAreSold, FromSoldCode, Live, InFlight
    <3>3. QED
      BY <3>2
  <2>4. CASE k \in DOMAIN codes
    <3>1. /\ \A t, u \in Live(k) : t = u
          /\ \A r, s \in InFlight(k) : r = s
          /\ Live(k) = {} \/ InFlight(k) = {}
      BY <2>4 DEF OneHolder
    <3>2. ASSUME Live(k)' \subseteq Live(k), InFlight(k)' \subseteq InFlight(k)
          PROVE  /\ \A t, u \in Live(k)' : t = u
                 /\ \A r, s \in InFlight(k)' : r = s
                 /\ Live(k)' = {} \/ InFlight(k)' = {}
      BY <3>1, <3>2
    <3>3. ASSUME TokensRest PROVE Live(k)' \subseteq Live(k)
      BY <3>3 DEF TokensRest, Live
    <3>4. CASE TokensRest /\ RequestsRest
      <4>1. InFlight(k)' \subseteq InFlight(k)
        BY <2>2, <3>4 DEF RequestsRest, InFlight
      <4>2. QED
        BY <3>2, <3>3, <3>4, <4>1
    <3>5. ASSUME NEW r \in Slots, NEW j \in DOMAIN codes, Sale(r, j)
          PROVE  /\ \A t, u \in Live(k)' : t = u
                 /\ \A q, s \in InFlight(k)' : q = s
                 /\ Live(k)' = {} \/ InFlight(k)' = {}
      <4>1. Live(k)' \subseteq Live(k)
        BY <3>3, <3>5 DEF Sale
      <4>2. CASE j # k
        <5>1. InFlight(k)' \subseteq InFlight(k)
          BY <3>5, <4>2 DEF Sale, InFlight
        <5>2. QED
          BY <3>2, <4>1, <5>1
      <4>3. CASE j = k
        <5>1. codes[k].sold = {}
          BY <2>4, <3>5, <4>3 DEF Sale, PresentedMeansSpent
        <5>2. Live(k) = {} /\ InFlight(k) = {}
          BY <2>2, <5>1, UnsoldHasNoHolder
        <5>3. InFlight(k)' \subseteq {r}
          BY <3>5, <5>2 DEF Sale, InFlight
        <5>4. QED
          BY <4>1, <5>2, <5>3
      <4>4. QED
        BY <4>2, <4>3
    <3>6. ASSUME NEW r \in Slots, NEW x \in DOMAIN refresh, Rotation(r, x)
          PROVE  /\ \A t, u \in Live(k)' : t = u
                 /\ \A q, s \in InFlight(k)' : q = s
                 /\ Live(k)' = {} \/ InFlight(k)' = {}
      <4>1. Live(k)' \subseteq Live(k)
        BY <3>3, <3>6 DEF Rotation
      <4>2. CASE refresh[x].family # k
        <5>1. InFlight(k)' \subseteq InFlight(k)
          BY <3>6, <4>2 DEF Rotation, InFlight
        <5>2. QED
          BY <3>2, <4>1, <5>1
      <4>3. CASE refresh[x].family = k
        <5>1. x \in Live(k) /\ x \notin Live(k)'
          BY <3>6, <4>3 DEF Rotation, Live
        <5>2. Live(k)' = {} /\ InFlight(k) = {}
          BY <3>1, <4>1, <5>1
        <5>3. InFlight(k)' \subseteq {r}
          BY <3>6, <5>2 DEF Rotation, InFlight
        <5>4. QED
          BY <5>2, <5>3
      <4>4. QED
        BY <4>2, <4>3
    <3>7. ASSUME NEW r \in Slots, NEW n \in Nat, HandOver(r, n)
          PROVE  /\ \A t, u \in Live(k)' : t = u
                 /\ \A q, s \in InFlight(k)' : q = s
                 /\ Live(k)' = {} \/ InFlight(k)' = {}
      <4>1. InFlight(k)' = InFlight(k) \ {r}
        BY <2>2, <3>7 DEF HandOver, InFlight
      <4>2. CASE request[r].family # k
        <5>1. Live(k)' \subseteq Live(k)
          BY <3>7, <4>2 DEF HandOver, Live
        <5>2. QED
          BY <3>2, <4>1, <5>1
      <4>3. CASE request[r].family = k
        <5>1. r \in InFlight(k)
          BY <4>3 DEF InFlight
        <5>2. Live(k) = {} /\ InFlight(k)' = {}
          BY <3>1, <4>1, <5>1
        <5>3. Live(k)' \subseteq {n}
          BY <3>7, <5>2 DEF HandOver, Live
        <5>4. QED
          BY <5>2, <5>3
      <4>4. QED
        BY <4>2, <4>3
    <3>8. QED
      BY <1>2, <3>4, <3>5, <3>6, <3>7, TokenStep
  <2>5. QED
    BY <2>3, <2>4
<1>3. QED
  BY <1>1, <1>2

-----------------------------------------------------------------------------
(* The theorems.                                                            *)

LEMMA InitInv == Init => OAuthInv
<1>1. SUFFICES ASSUME Init PROVE OAuthInv
  OBVIOUS
<1>2. /\ codes = <<>> /\ refresh = <<>> /\ file = EmptyFile
      /\ request = [r \in Slots |-> NoRequest] /\ update = [p \in Procs |-> NoUpdate]
  BY <1>1 DEF Init
<1>3. UpdatesByRole /\ RequestsAreWhole /\ WritesAreAuthorized
  BY <1>2, Bounds DEF UpdatesByRole, RequestsAreWhole, WritesAreAuthorized, NoUpdate, NoRequest, EmptyFile
<1>4. RegistrationsFollowLogins
  BY <1>2 DEF RegistrationsFollowLogins, AbandonedNeverPersisted, LiveCodeHasItsClient, EmptyFile
<1>5. CodeBuysOnce /\ PresentedMeansSpent /\ OneHolder /\ FamiliesAreSold
  BY <1>2 DEF CodeBuysOnce, PresentedMeansSpent, OneHolder, FamiliesAreSold, NoRequest
<1>6. QED
  BY <1>1, <1>3, <1>4, <1>5, InitType DEF OAuthInv

LEMMA StepInv == OAuthInv /\ [Next]_vars => OAuthInv'
<1>1. SUFFICES ASSUME OAuthInv, [Next]_vars PROVE OAuthInv'
  OBVIOUS
<1>2. /\ TypeOK /\ UpdatesByRole /\ RequestsAreWhole
      /\ AbandonedNeverPersisted /\ LiveCodeHasItsClient /\ WritesAreAuthorized
      /\ CodeBuysOnce /\ PresentedMeansSpent /\ FamiliesAreSold /\ OneHolder
  BY <1>1 DEF OAuthInv, RegistrationsFollowLogins
<1>3. TypeOK' /\ UpdatesByRole' /\ RequestsAreWhole'
  BY <1>1, <1>2, TypeStep, RoleStep, RequestStep
<1>4. RegistrationsFollowLogins' /\ WritesAreAuthorized'
  BY <1>1, <1>2, AuthorizedStep, LiveCodeStep DEF RegistrationsFollowLogins
<1>5. CodeBuysOnce' /\ PresentedMeansSpent' /\ FamiliesAreSold'
  BY <1>1, <1>2, SpentStep, FamilyStep
<1>6. OneHolder'
  BY <1>1, <1>2, <1>5, HolderStep
<1>7. QED
  BY <1>3, <1>4, <1>5, <1>6 DEF OAuthInv

LEMMA Invariance == Spec => []OAuthInv
  BY InitInv, StepInv, PTL DEF Spec

(* The server, its stores and the file keep their types.                    *)
THEOREM OAuthTypes == Spec => []TypeOK
<1>1. OAuthInv => TypeOK
  BY DEF OAuthInv
<1>2. QED
  BY <1>1, Invariance, PTL

(* A code buys tokens with its first presentation or never, for any number  *)
(* of requests that overlap.  About consumeCode() and the token handler.    *)
THEOREM CodesBuyOnce == Spec => []CodeBuysOnce
<1>1. OAuthInv => CodeBuysOnce
  BY DEF OAuthInv
<1>2. QED
  BY <1>1, Invariance, PTL

(* A set whose members are all equal has at most one.                       *)
LEMMA AtMostOne ==
  ASSUME NEW S, \A x, y \in S : x = y
  PROVE  Cardinality(S) \in {0, 1} /\ (S = {} => Cardinality(S) = 0)
<1>1. CASE S = {}
  BY <1>1, FS_EmptySet
<1>2. CASE S # {}
  <2>1. PICK x : S = {x}
    BY <1>2
  <2>2. Cardinality(S) = 1
    BY <2>1, FS_Singleton
  <2>3. QED
    BY <1>2, <2>2
<1>3. QED
  BY <1>1, <1>2

(* One login has at most one refresh token that works, counting the request *)
(* that is about to be handed one.  About redeemRefreshToken() and          *)
(* issueRefreshToken().                                                     *)
THEOREM RefreshIsLinear == Spec => []OneLiveRefresh
<1>1. ASSUME OAuthInv, NEW k \in DOMAIN codes
      PROVE  Cardinality(Live(k)) + Cardinality(InFlight(k)) <= 1
  <2>1. /\ \A t, u \in Live(k) : t = u
        /\ \A r, s \in InFlight(k) : r = s
        /\ Live(k) = {} \/ InFlight(k) = {}
    BY <1>1 DEF OAuthInv, OneHolder
  <2>2. /\ Cardinality(Live(k)) \in {0, 1}
        /\ Live(k) = {} => Cardinality(Live(k)) = 0
    BY <2>1, AtMostOne
  <2>3. /\ Cardinality(InFlight(k)) \in {0, 1}
        /\ InFlight(k) = {} => Cardinality(InFlight(k)) = 0
    BY <2>1, AtMostOne
  <2>4. QED
    BY <2>1, <2>2, <2>3
<1>2. OAuthInv => OneLiveRefresh
  BY <1>1 DEF OneLiveRefresh
<1>3. QED
  BY <1>2, Invariance, PTL

(* No registration reaches the disk without a login, and a code that can    *)
(* still be exchanged belongs to a client the server finds, whatever writes *)
(* fail or overtake one another.  About commitClient() and setCredentials().*)
THEOREM RegistrationsAreHeld == Spec => []RegistrationsFollowLogins
<1>1. OAuthInv => RegistrationsFollowLogins
  BY DEF OAuthInv
<1>2. QED
  BY <1>1, Invariance, PTL

=============================================================================
