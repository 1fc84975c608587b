----------------------------- MODULE Connection -----------------------------
(***************************************************************************)
(* One browser's connection to KeeperHub:                                  *)
(*   src/app/api/connections/keeperhub/{start,callback}/route.ts           *)
(*   src/app/api/doctor/route.ts                                           *)
(*   src/server/connections/{oauth-attempt-store,mcp-oauth,doctor}.ts      *)
(* An attempt is a stored OAuth record, named by a fresh identifier that   *)
(* the browser's cookie carries.  A request reads the whole record, works  *)
(* on its copy across several awaited calls and writes the whole record    *)
(* back; tabs, reloads and double clicks run requests side by side, and a  *)
(* request may fail or die at any await.                                   *)
(*                                                                         *)
(* An attempt's OAuth `state` and PKCE verifier are drawn with it, so they *)
(* are identified with the attempt.  Left out: client registration, the    *)
(* SDK's token refresh, and the seal of the cookie.                        *)
(*                                                                         *)
(* External: KeeperHub, which redeems each authorization code once and     *)
(* only for the verifier it was issued to, and the user who approves.      *)
(* `revived` is auxiliary.                                                 *)
(***************************************************************************)
EXTENDS Integers

CONSTANTS
    Attempts, Requests, Codes, None,
    MaxAge,         \* MAX_AGE_MS, in ticks
    MaxTime         \* bound: the clock stops here

ASSUME ConnectionAssumption ==
    /\ MaxAge \in Nat /\ MaxTime \in Nat
    /\ None \notin Attempts

VARIABLES
    attempts,           \* the oauth_attempts table, or the directory of files
    usesDatabaseStore,  \* which of the two this deployment uses
    cookie,             \* the attempt the browser's cookie names, or None
    requests,           \* the local variables of each request
    consent,            \* external: what KeeperHub issued and redeemed
    walletReady,        \* external: the organization has a wallet integration
    now,
    revived             \* aux: attempts stored again after they had expired

vars == <<attempts, usesDatabaseStore, cookie, requests, consent, walletReady,
          now, revived>>

\* The fields of ConnectionAuthState that decide anything.
Auth == [tokens : {"none", "held"}, wallet : {"none", "known"}]

NoAuth == [tokens |-> "absent", wallet |-> "absent"]

Fresh == [tokens |-> "none", wallet |-> "none"]

StoredAttempt == [createdAt : Nat, auth : Auth]

\* No such row: never drawn, or deleted; and a file cut off while it is written.
Unused == [absent |-> "unused"]
Gone == [absent |-> "gone"]
Torn == [absent |-> "torn"]

Route == {"start", "callback", "doctor"}

Answer == {"none", "existing", "redirect", "connected", "no-wallet",
           "disconnected", "missing-session", "expired-attempt",
           "state-mismatch", "token-exchange", "unavailable"}

Request == [pc : {"idle", "reading", "deleting", "beginning", "exchanging",
                  "discovering", "saving", "writing", "answered"},
            route : Route, id : Attempts \cup {None},
            state : Attempts \cup {None}, code : Codes \cup {None},
            auth : Auth \cup {NoAuth}, answer : Answer]

Idle == [pc |-> "idle", route |-> "start", id |-> None, state |-> None,
         code |-> None, auth |-> NoAuth, answer |-> "none"]

Init ==
    /\ attempts = [a \in Attempts |-> Unused]
    /\ usesDatabaseStore \in BOOLEAN
    /\ cookie = None
    /\ requests = [r \in Requests |-> Idle]
    /\ consent = [a \in Attempts |->
                    [offered |-> FALSE, issued |-> {}, spent |-> {}]]
    /\ walletReady = FALSE
    /\ now = 0
    /\ revived = {}

Stored(a) == attempts[a] \in StoredAttempt

Expired(a) == Stored(a) /\ now - attempts[a].createdAt > MaxAge

Connected(a) == Stored(a) /\ attempts[a].auth.tokens = "held"

At(r, pc) == requests[r].pc = pc

Answered(request, answer) ==
    [request EXCEPT !.pc = "answered", !.answer = answer]

-----------------------------------------------------------------------------
(* A request arrives with the cookie the browser has, and reads.           *)

Arrive(r, request) ==
    /\ At(r, "idle")
    /\ requests' = [requests EXCEPT ![r] = request]
    /\ UNCHANGED <<attempts, usesDatabaseStore, cookie, consent, walletReady,
                   now, revived>>

Start(r) ==
    Arrive(r, [Idle EXCEPT !.id = cookie,
                 !.pc = IF cookie = None THEN "beginning" ELSE "reading"])

\* KeeperHub sends the browser back with the state and code of an attempt.
Callback(r, a, c) ==
    LET request == [Idle EXCEPT !.pc = "reading", !.route = "callback",
                                !.id = cookie, !.state = a, !.code = c]
    IN  /\ c \in consent[a].issued
        /\ Arrive(r, IF cookie = None
                     THEN Answered(request, "missing-session") ELSE request)

Doctor(r) ==
    LET request == [Idle EXCEPT !.pc = "reading", !.route = "doctor", !.id = cookie]
    IN  Arrive(r, IF cookie = None
                  THEN Answered(request, "missing-session") ELSE request)

\* A mistake: the doctor refreshes, and saves, an attempt without tokens too.
DoctorReadsMutUnguarded(request) ==
    CASE request.auth = NoAuth -> Answered(request, "expired-attempt")
      [] request.auth.wallet = "known" -> Answered(request, "connected")
      [] OTHER -> [request EXCEPT !.pc = "discovering"]

\* What the doctor does with what it read.
DoctorReads(request) ==
    CASE request.auth = NoAuth -> Answered(request, "expired-attempt")
      [] request.auth.tokens = "none" -> Answered(request, "disconnected")
      [] request.auth.wallet = "known" -> Answered(request, "connected")
      [] OTHER -> [request EXCEPT !.pc = "discovering"]

CallbackReads(request) ==
    CASE request.auth = NoAuth -> Answered(request, "expired-attempt")
      [] request.state # request.id -> Answered(request, "state-mismatch")
      [] OTHER -> [request EXCEPT !.pc = "exchanging"]

StartReads(request) ==
    IF request.auth.tokens = "held" THEN Answered(request, "existing")
                                    ELSE [request EXCEPT !.pc = "beginning"]

\* What a request does once readOAuthAttempt has answered.
AfterRead(r, auth) ==
    LET request == [requests[r] EXCEPT !.auth = auth]
    IN  requests' = [requests EXCEPT ![r] =
          CASE request.route = "start" -> StartReads(request)
            [] request.route = "callback" -> CallbackReads(request)
            [] request.route = "doctor" -> DoctorReads(request)]

\* readOAuthAttempt: an expired record is deleted by a statement of its own.
ReadOAuthAttempt(r) ==
    LET a == requests[r].id
    IN  /\ At(r, "reading")
        /\ CASE Expired(a) -> requests' = [requests EXCEPT ![r].pc = "deleting"]
             [] Stored(a) /\ ~Expired(a) -> AfterRead(r, attempts[a].auth)
             [] ~Stored(a) -> AfterRead(r, NoAuth)
        /\ UNCHANGED <<attempts, usesDatabaseStore, cookie, consent,
                       walletReady, now, revived>>

\* DELETE, or unlink, by identifier only; an unlink of nothing is ignored.
DeleteExpired(r) ==
    LET a == requests[r].id
    IN  /\ At(r, "deleting")
        /\ attempts' = [attempts EXCEPT ![a] = Gone]
        /\ AfterRead(r, NoAuth)
        /\ UNCHANGED <<usesDatabaseStore, cookie, consent, walletReady, now, revived>>

\* Any error of the store while it is read counts as no attempt.
ReadFails(r) ==
    /\ At(r, "reading") \/ At(r, "deleting")
    /\ AfterRead(r, NoAuth)
    /\ UNCHANGED <<attempts, usesDatabaseStore, cookie, consent, walletReady,
                   now, revived>>

-----------------------------------------------------------------------------
(* Calls to KeeperHub, and writing the record back.                        *)

\* beginMcpAuthorization, then createOAuthAttempt under a fresh identifier.
CreateOAuthAttempt(r, a) ==
    /\ At(r, "beginning") /\ attempts[a] = Unused
    /\ attempts' = [attempts EXCEPT ![a] = [createdAt |-> now, auth |-> Fresh]]
    /\ requests' = [requests EXCEPT ![r] =
                      Answered([@ EXCEPT !.id = a, !.auth = Fresh], "redirect")]
    /\ UNCHANGED <<usesDatabaseStore, cookie, consent, walletReady, now, revived>>

\* A mistake: going on to save although the exchange was refused.
ExchangeMutIgnored(r) ==
    LET request == requests[r]
    IN  /\ At(r, "exchanging")
        /\ requests' = [requests EXCEPT ![r] =
             [request EXCEPT !.pc = "discovering",
                !.auth.tokens = IF request.code \in consent[request.state].spent
                                THEN "none" ELSE "held"]]
        /\ consent' = [consent EXCEPT ![request.state].spent = @ \cup {request.code}]
        /\ UNCHANGED <<attempts, usesDatabaseStore, cookie, walletReady, now, revived>>

\* finishAuth: a code redeemed before is refused, the SDK drops the copy's
\* credentials and throws; the copy is not saved.
FinishAuth(r) ==
    LET request == requests[r]
    IN  /\ At(r, "exchanging")
        /\ IF request.code \in consent[request.state].spent
           THEN /\ requests' = [requests EXCEPT ![r] =
                     Answered([request EXCEPT !.auth.tokens = "none"], "token-exchange")]
                /\ UNCHANGED consent
           ELSE /\ requests' = [requests EXCEPT ![r] =
                     [request EXCEPT !.pc = "discovering", !.auth.tokens = "held",
                                     !.state = None, !.code = None]]
                /\ consent' = [consent EXCEPT ![request.state].spent = @ \cup {request.code}]
        /\ UNCHANGED <<attempts, usesDatabaseStore, cookie, walletReady, now, revived>>

\* discoverWalletIntegration: no wallet found leaves the copy as it was.
DiscoverWallet(r) ==
    LET request == requests[r]
        wallet == IF walletReady THEN "known" ELSE request.auth.wallet
    IN  /\ At(r, "discovering")
        /\ requests' = [requests EXCEPT ![r] =
             [request EXCEPT !.pc = "saving", !.auth.wallet = wallet]]
        /\ UNCHANGED <<attempts, usesDatabaseStore, cookie, consent, walletReady,
                       now, revived>>

\* How a route answers once its copy is stored.
Saved(request) ==
    Answered(request, IF request.route = "doctor" /\ request.auth.wallet = "none"
                      THEN "no-wallet" ELSE "connected")

\* A mistake: looking the cookie up again, after the awaits.
SaveMutCookie(r) ==
    LET a == IF cookie = None THEN requests[r].id ELSE cookie
    IN  /\ At(r, "saving")
        /\ attempts' = [attempts EXCEPT ![a] =
                          [createdAt |-> now, auth |-> requests[r].auth]]
        /\ requests' = [requests EXCEPT ![r] = Saved(@)]
        /\ revived' = revived \cup {a}
        /\ UNCHANGED <<usesDatabaseStore, cookie, consent, walletReady, now>>

\* saveOAuthAttempt: an upsert of the whole record, dated now; as a file, it is
\* cut to nothing first.
SaveOAuthAttempt(r) ==
    LET a == requests[r].id
    IN  /\ (At(r, "saving") /\ usesDatabaseStore) \/ At(r, "writing")
        /\ attempts' = [attempts EXCEPT ![a] =
                          [createdAt |-> now, auth |-> requests[r].auth]]
        /\ requests' = [requests EXCEPT ![r] = Saved(@)]
        /\ revived' = IF attempts[a] = Gone \/ Expired(a)
                      THEN revived \cup {a} ELSE revived
        /\ UNCHANGED <<usesDatabaseStore, cookie, consent, walletReady, now>>

\* writeFile opens with truncation.
TruncateFile(r) ==
    LET a == requests[r].id
    IN  /\ At(r, "saving") /\ ~usesDatabaseStore
        /\ attempts' = [attempts EXCEPT ![a] = Torn]
        /\ requests' = [requests EXCEPT ![r].pc = "writing"]
        /\ revived' = IF attempts[a] = Gone \/ Expired(a)
                      THEN revived \cup {a} ELSE revived
        /\ UNCHANGED <<usesDatabaseStore, cookie, consent, walletReady, now>>

-----------------------------------------------------------------------------
(* Answers and failures.                                                   *)

\* The answer of a start or of a successful callback sets the cookie.
Deliver(r) ==
    LET request == requests[r]
        named == \/ request.answer = "redirect"
                 \/ request.route = "callback" /\ request.answer = "connected"
    IN  /\ At(r, "answered")
        /\ cookie' = IF named THEN request.id ELSE cookie
        /\ consent' = IF request.answer = "redirect"
                      THEN [consent EXCEPT ![request.id].offered = TRUE]
                      ELSE consent
        /\ requests' = [requests EXCEPT ![r] = Idle]
        /\ UNCHANGED <<attempts, usesDatabaseStore, walletReady, now, revived>>

\* What each route's catch answers when a call to KeeperHub or a write throws;
\* the doctor also gives up on a read that takes too long.
CallFails(r) ==
    LET request == requests[r]
    IN  /\ request.pc \in {"beginning", "exchanging", "discovering", "saving", "writing"}
        /\ requests' = [requests EXCEPT ![r] = Answered(request,
             CASE request.route = "start" -> "unavailable"
               [] request.route = "callback" -> "token-exchange"
               [] request.route = "doctor" -> "expired-attempt")]
        /\ UNCHANGED <<attempts, usesDatabaseStore, cookie, consent,
                       walletReady, now, revived>>

\* The process dies, the browser goes away, or the answer is lost.
RequestDies(r) ==
    /\ ~At(r, "idle")
    /\ requests' = [requests EXCEPT ![r] = Idle]
    /\ UNCHANGED <<attempts, usesDatabaseStore, cookie, consent, walletReady,
                   now, revived>>

-----------------------------------------------------------------------------
(* External.                                                               *)

\* The user approves, perhaps more than once, at KeeperHub.
Approve(a, c) ==
    /\ consent[a].offered
    /\ consent' = [consent EXCEPT ![a].issued = @ \cup {c}]
    /\ UNCHANGED <<attempts, usesDatabaseStore, cookie, requests, walletReady,
                   now, revived>>

AddWallet ==
    /\ ~walletReady /\ walletReady' = TRUE
    /\ UNCHANGED <<attempts, usesDatabaseStore, cookie, requests, consent, now, revived>>

\* The cookie runs out or is cleared.
DropCookie ==
    /\ cookie # None /\ cookie' = None
    /\ UNCHANGED <<attempts, usesDatabaseStore, requests, consent, walletReady,
                   now, revived>>

Tick ==
    /\ now < MaxTime /\ now' = now + 1
    /\ UNCHANGED <<attempts, usesDatabaseStore, cookie, requests, consent,
                   walletReady, revived>>

Step(r) ==
    \/ Start(r) \/ Doctor(r)
    \/ \E a \in Attempts, c \in Codes : Callback(r, a, c)
    \/ ReadOAuthAttempt(r) \/ DeleteExpired(r) \/ ReadFails(r)
    \/ \E a \in Attempts : CreateOAuthAttempt(r, a)
    \/ FinishAuth(r) \/ DiscoverWallet(r)
    \/ SaveOAuthAttempt(r) \/ TruncateFile(r)
    \/ Deliver(r) \/ CallFails(r) \/ RequestDies(r)

Next ==
    \/ \E r \in Requests : Step(r)
    \/ \E a \in Attempts, c \in Codes : Approve(a, c)
    \/ AddWallet \/ DropCookie \/ Tick

Spec == Init /\ [][Next]_vars

-----------------------------------------------------------------------------
(* Properties.                                                             *)

TypeOK ==
    /\ attempts \in [Attempts -> StoredAttempt \cup {Unused, Gone, Torn}]
    /\ usesDatabaseStore \in BOOLEAN
    /\ cookie \in Attempts \cup {None}
    /\ requests \in [Requests -> Request]
    /\ consent \in [Attempts -> [offered : BOOLEAN, issued : SUBSET Codes,
                                 spent : SUBSET Codes]]
    /\ walletReady \in BOOLEAN
    /\ now \in Nat
    /\ revived \subseteq Attempts

\* src/app/api/doctor/route.ts:55 and the callback write back what they read
\* some awaits ago, and an expired record is deleted after it was read: for all
\* that, a stored connection that has not expired is never lost or overwritten
\* by an unconnected copy.  The two ways out are a record that had expired and
\* was stored again by a slow request (its delete may still be under way), and
\* a file that is being rewritten.
ConnectionSurvives ==
    [][ \A a \in Attempts :
          Connected(a) /\ ~Expired(a) /\ ~Connected(a)'
            => a \in revived \/ attempts'[a] = Torn ]_vars

\* Routes that only ask for a wallet address may take it for a connection: a
\* stored wallet was found with tokens that are stored with it, although a
\* refused exchange drops the tokens, and not the wallet, of its copy.
WalletNeedsTokens ==
    \A a \in Attempts :
        Stored(a) /\ attempts[a].auth.wallet = "known"
            => attempts[a].auth.tokens = "held" /\ walletReady

\* Tokens are stored under the attempt whose own authorization the user
\* approved, whatever attempts the browser has started since.
TokensMatchConsent ==
    \A a \in Attempts :
        Connected(a) => consent[a].spent # {} /\ consent[a].spent \subseteq consent[a].issued

\* src/server/connections/doctor.ts:102, "The saved connection could not be
\* read. Connect KeeperHub once more.": the doctor says so only when it has read
\* no connection.  The code does not ensure it (see the README).
ExpiredMeansUnread ==
    \A r \in Requests :
        (At(r, "answered") /\ requests[r].route = "doctor"
           /\ requests[r].answer = "expired-attempt") => requests[r].auth = NoAuth

\* src/components/connection-doctor/connection-doctor.tsx:53, "FillPilot could
\* not complete the secure token exchange": it says so of a request that holds
\* no tokens.  The code does not ensure it (see the README).
FailedExchangeHoldsNothing ==
    \A r \in Requests :
        (At(r, "answered") /\ requests[r].answer = "token-exchange")
            => requests[r].auth.tokens # "held"
=============================================================================
