-------------------------- MODULE ConnectionProofs --------------------------
(***************************************************************************)
(* Proofs about a browser's connection, for any number of attempts, racing *)
(* requests and codes, and any age limit.  The strengthening says what the *)
(* copy a request carries holds, and what has become of a record that a    *)
(* request found expired and is about to delete.                           *)
(***************************************************************************)
EXTENDS Connection, TLAPS

\* A code is redeemed only if it was issued.
SpentWereIssued == \A a \in Attempts : consent[a].spent \subseteq consent[a].issued

\* A wallet is kept with tokens, and tokens come of a code that was redeemed.
AuthSound(a, auth) ==
    /\ auth \in Auth
    /\ auth.wallet = "known" => auth.tokens = "held" /\ walletReady
    /\ auth.tokens = "held" => consent[a].spent # {}

\* What was found expired is so still, is gone, or was stored again after that.
FoundExpired(a) == Expired(a) \/ attempts[a] = Gone \/ a \in revived

RequestSound(q) ==
    /\ q.pc \in {"reading", "deleting", "exchanging", "discovering", "saving",
                 "writing"} => q.id \in Attempts
    /\ q.route = "callback" /\ q.pc \in {"reading", "deleting", "exchanging"} =>
         q.state \in Attempts /\ q.code \in consent[q.state].issued
    /\ q.pc = "exchanging" =>
         q.route = "callback" /\ q.state = q.id /\ AuthSound(q.id, q.auth)
    /\ q.pc \in {"discovering", "saving", "writing"} =>
         q.auth.tokens = "held" /\ AuthSound(q.id, q.auth)
    /\ q.pc = "deleting" => FoundExpired(q.id)

RequestsSound == \A r \in Requests : RequestSound(requests[r])

Inv == /\ TypeOK /\ SpentWereIssued /\ WalletNeedsTokens /\ TokensMatchConsent
       /\ RequestsSound

\* A record that is there is none of the three that stand for no record.
LEMMA StoredFacts ==
    ASSUME NEW x \in StoredAttempt
    PROVE  x # Unused /\ x # Gone /\ x # Torn /\ x.auth \in Auth /\ x.createdAt \in Nat
<1>1. DOMAIN x = {"createdAt", "auth"}
    BY DEF StoredAttempt
<1>2. DOMAIN Unused = {"absent"} /\ DOMAIN Gone = {"absent"} /\ DOMAIN Torn = {"absent"}
    BY DEF Unused, Gone, Torn
<1>3. x # Unused /\ x # Gone /\ x # Torn
    BY <1>1, <1>2
<1> QED
    BY <1>3 DEF StoredAttempt

\* What a request carries stays so while KeeperHub's side only grows, time goes
\* on, and records change only by being stored, deleted or cut off.
LEMMA RequestsKept ==
    ASSUME Inv, TypeOK',
           \A a \in Attempts : consent[a].issued \subseteq consent'[a].issued
                               /\ consent[a].spent \subseteq consent'[a].spent,
           walletReady => walletReady',
           \A a \in Attempts : FoundExpired(a) => FoundExpired(a)',
           NEW r \in Requests, requests'[r] = requests[r]
    PROVE  RequestSound(requests[r])'
<1> DEFINE q == requests[r]
<1>1. q \in Request /\ RequestSound(q)
    BY DEF Inv, TypeOK, RequestsSound
<1>2. ASSUME NEW a \in Attempts, NEW auth, AuthSound(a, auth)
      PROVE  /\ auth \in Auth
             /\ auth.wallet = "known" => auth.tokens = "held" /\ walletReady'
             /\ auth.tokens = "held" => consent'[a].spent # {}
    BY <1>2 DEF AuthSound
<1>3. q.pc \in {"exchanging", "discovering", "saving", "writing"} =>
         /\ q.auth \in Auth
         /\ q.auth.wallet = "known" => q.auth.tokens = "held" /\ walletReady'
         /\ q.auth.tokens = "held" => consent'[q.id].spent # {}
    BY <1>1, <1>2 DEF RequestSound
<1>4. q.route = "callback" /\ q.pc \in {"reading", "deleting", "exchanging"} =>
         q.state \in Attempts /\ q.code \in consent'[q.state].issued
    BY <1>1 DEF RequestSound
<1>5. q.pc = "deleting" => (FoundExpired(q.id))'
    BY <1>1 DEF RequestSound, FoundExpired, Expired, Stored
<1> QED
    BY <1>1, <1>3, <1>4, <1>5 DEF RequestSound, AuthSound

\* A step of one request that leaves the store and KeeperHub as they are.
LEMMA OneMoves ==
    ASSUME Inv, NEW r \in Requests, NEW q \in Request, RequestSound(q),
           requests' = [requests EXCEPT ![r] = q],
           UNCHANGED <<attempts, usesDatabaseStore, consent, walletReady, now, revived>>,
           cookie' \in Attempts \cup {None}
    PROVE  Inv'
<1>1. TypeOK'
    BY DEF Inv, TypeOK
<1>2. SpentWereIssued' /\ WalletNeedsTokens' /\ TokensMatchConsent'
    BY DEF Inv, SpentWereIssued, WalletNeedsTokens, TokensMatchConsent, Connected, Stored
<1>3. \A p \in Requests : requests'[p] = IF p = r THEN q ELSE requests[p]
    BY DEF Inv, TypeOK
<1>4. ASSUME NEW p \in Requests PROVE RequestSound(requests[p])'
  <2>1. RequestSound(requests[p]) /\ RequestSound(q)
      BY DEF Inv, RequestsSound
  <2> QED
      BY <2>1, <1>3 DEF RequestSound, AuthSound, FoundExpired, Expired, Stored
<1> QED
    BY <1>1, <1>2, <1>4 DEF Inv, RequestsSound

-----------------------------------------------------------------------------
(* One lemma for reading, one for each step that writes, one for the rest. *)

\* A request goes on with what it has read, which is sound.
LEMMA AfterReadKeeps ==
    ASSUME Inv, NEW r \in Requests, At(r, "reading") \/ At(r, "deleting"),
           NEW auth \in Auth \cup {NoAuth},
           auth # NoAuth => AuthSound(requests[r].id, auth),
           AfterRead(r, auth),
           UNCHANGED <<attempts, usesDatabaseStore, cookie, consent, walletReady,
                       now, revived>>
    PROVE  Inv'
<1> DEFINE q == [requests[r] EXCEPT !.auth = auth]
<1>1. requests[r] \in Request /\ RequestSound(requests[r])
    BY DEF Inv, TypeOK, RequestsSound
<1>2. /\ q \in Request /\ q.auth = auth /\ q.route = requests[r].route
      /\ q.id = requests[r].id /\ q.state = requests[r].state /\ q.code = requests[r].code
      /\ q.id \in Attempts
      /\ q.route = "callback" => q.state \in Attempts /\ q.code \in consent[q.state].issued
    BY <1>1 DEF Request, RequestSound, At
<1>3. NoAuth.tokens = "absent"
    BY DEF NoAuth
<1>4. ASSUME NEW answer \in Answer
      PROVE  Answered(q, answer) \in Request /\ RequestSound(Answered(q, answer))
    BY <1>2 DEF Answered, Request, RequestSound
<1>5. CASE q.route = "start"
  <2>1. requests' = [requests EXCEPT ![r] = StartReads(q)]
      BY <1>5 DEF AfterRead
  <2>2. [q EXCEPT !.pc = "beginning"] \in Request
        /\ RequestSound([q EXCEPT !.pc = "beginning"])
      BY <1>2 DEF Request, RequestSound
  <2>3. StartReads(q) \in Request /\ RequestSound(StartReads(q))
      BY <1>4, <2>2 DEF StartReads, Answer
  <2> HIDE DEF q
  <2> QED
      BY <2>1, <2>3, OneMoves DEF Inv, TypeOK
<1>6. CASE q.route = "callback"
  <2>1. requests' = [requests EXCEPT ![r] = CallbackReads(q)]
      BY <1>6 DEF AfterRead
  <2>2. auth # NoAuth /\ q.state = q.id =>
          /\ [q EXCEPT !.pc = "exchanging"] \in Request
          /\ RequestSound([q EXCEPT !.pc = "exchanging"])
      BY <1>2, <1>6 DEF Request, RequestSound
  <2>3. CallbackReads(q) \in Request /\ RequestSound(CallbackReads(q))
      BY <1>2, <1>4, <2>2 DEF CallbackReads, Answer
  <2> HIDE DEF q
  <2> QED
      BY <2>1, <2>3, OneMoves DEF Inv, TypeOK
<1>7. CASE q.route = "doctor"
  <2>1. requests' = [requests EXCEPT ![r] = DoctorReads(q)]
      BY <1>7 DEF AfterRead
  <2>2. auth # NoAuth /\ auth.tokens # "none" =>
          /\ [q EXCEPT !.pc = "discovering"] \in Request
          /\ RequestSound([q EXCEPT !.pc = "discovering"])
      BY <1>2 DEF Request, RequestSound, Auth
  <2>3. DoctorReads(q) \in Request /\ RequestSound(DoctorReads(q))
      BY <1>2, <1>4, <2>2 DEF DoctorReads, Answer
  <2> HIDE DEF q
  <2> QED
      BY <2>1, <2>3, OneMoves DEF Inv, TypeOK
<1> QED
    BY <1>2, <1>5, <1>6, <1>7 DEF Request, Route

\* What is stored is sound.
LEMMA StoredSound ==
    ASSUME Inv, NEW a \in Attempts, Stored(a)
    PROVE  AuthSound(a, attempts[a].auth)
<1>1. attempts[a].auth \in Auth
    BY StoredFacts DEF Stored
<1> QED
    BY <1>1 DEF Inv, WalletNeedsTokens, TokensMatchConsent, Connected, AuthSound

LEMMA ReadKeeps ==
    ASSUME Inv, NEW r \in Requests, ReadOAuthAttempt(r) \/ ReadFails(r)
    PROVE  Inv'
<1> DEFINE a == requests[r].id
<1>1. requests[r] \in Request /\ RequestSound(requests[r])
    BY DEF Inv, TypeOK, RequestsSound
<1>2. CASE ReadFails(r)
    BY <1>2, AfterReadKeeps DEF ReadFails
<1>3. CASE ReadOAuthAttempt(r)
  <2>1. a \in Attempts /\ At(r, "reading")
      BY <1>1, <1>3 DEF ReadOAuthAttempt, At, RequestSound
  <2>2. CASE Expired(a)
    <3>1. requests' = [requests EXCEPT ![r] = [requests[r] EXCEPT !.pc = "deleting"]]
        BY <1>3, <2>2 DEF ReadOAuthAttempt, Expired, Stored
    <3>2. [requests[r] EXCEPT !.pc = "deleting"] \in Request
          /\ RequestSound([requests[r] EXCEPT !.pc = "deleting"])
        BY <1>1, <2>1, <2>2 DEF Request, RequestSound, FoundExpired, At
    <3> QED
        BY <1>3, <3>1, <3>2, OneMoves DEF ReadOAuthAttempt, Inv, TypeOK
  <2>3. CASE Stored(a) /\ ~Expired(a)
    <3>1. AfterRead(r, attempts[a].auth)
        BY <1>3, <2>3 DEF ReadOAuthAttempt
    <3>2. attempts[a].auth \in Auth /\ AuthSound(a, attempts[a].auth)
        BY <2>1, <2>3, StoredSound DEF AuthSound
    <3> QED
        BY <1>3, <2>1, <3>1, <3>2, AfterReadKeeps DEF ReadOAuthAttempt
  <2>4. CASE ~Stored(a)
    <3>1. AfterRead(r, NoAuth)
        BY <1>3, <2>4 DEF ReadOAuthAttempt, Expired
    <3> QED
        BY <1>3, <2>1, <3>1, AfterReadKeeps DEF ReadOAuthAttempt
  <2> QED
      BY <2>2, <2>3, <2>4
<1> QED
    BY <1>2, <1>3

\* Records change at one identifier, as sound records or as no record, while
\* KeeperHub's side only grows and what was found expired stays known as such.
LEMMA WriteKeeps ==
    ASSUME Inv, NEW r \in Requests, NEW a \in Attempts,
           NEW x \in StoredAttempt \cup {Gone, Torn},
           x \in StoredAttempt => AuthSound(a, x.auth),
           attempts' = [attempts EXCEPT ![a] = x],
           NEW q \in Request, requests' = [requests EXCEPT ![r] = q],
           q.pc \in {"answered", "beginning"} \/ (q.pc = "writing" /\ RequestSound(q)),
           UNCHANGED <<usesDatabaseStore, cookie, consent, walletReady, now>>,
           revived' \in SUBSET Attempts, revived \subseteq revived',
           FoundExpired(a) => x = Gone \/ a \in revived'
    PROVE  Inv'
<1>1. \A b \in Attempts : attempts'[b] = IF b = a THEN x ELSE attempts[b]
    BY DEF Inv, TypeOK
<1>2. \A p \in Requests : requests'[p] = IF p = r THEN q ELSE requests[p]
    BY DEF Inv, TypeOK
<1>3. TypeOK'
    BY DEF Inv, TypeOK
<1>4. SpentWereIssued'
    BY DEF Inv, SpentWereIssued
<1>5. WalletNeedsTokens' /\ TokensMatchConsent'
  <2> SUFFICES ASSUME NEW b \in Attempts
               PROVE  /\ (Stored(b)' /\ attempts'[b].auth.wallet = "known" =>
                            attempts'[b].auth.tokens = "held" /\ walletReady')
                      /\ (Connected(b)' => consent'[b].spent # {}
                                           /\ consent'[b].spent \subseteq consent'[b].issued)
      BY DEF WalletNeedsTokens, TokensMatchConsent
  <2>1. CASE b = a
    <3>1. Stored(b)' => attempts'[b] = x /\ x \in StoredAttempt
        BY <1>1, <2>1 DEF Stored
    <3> QED
        BY <2>1, <3>1 DEF Connected, Inv, SpentWereIssued, AuthSound
  <2>2. CASE b # a
      BY <1>1, <2>2 DEF Inv, WalletNeedsTokens, TokensMatchConsent, Connected, Stored
  <2> QED
      BY <2>1, <2>2
<1>6. ASSUME NEW b \in Attempts, FoundExpired(b) PROVE FoundExpired(b)'
    BY <1>1, <1>6 DEF FoundExpired, Expired, Stored
<1>7. ASSUME NEW p \in Requests PROVE RequestSound(requests[p])'
  <2>1. CASE p = r
      BY <1>2, <2>1 DEF RequestSound, AuthSound, FoundExpired, Expired, Stored
  <2>2. CASE p # r
      BY <1>2, <1>3, <1>6, <2>2, RequestsKept
  <2> QED
      BY <2>1, <2>2
<1> QED
    BY <1>3, <1>4, <1>5, <1>7 DEF Inv, RequestsSound

LEMMA DeleteKeeps ==
    ASSUME Inv, NEW r \in Requests, DeleteExpired(r)
    PROVE  Inv'
<1> DEFINE a == requests[r].id
<1>1. requests[r] \in Request /\ RequestSound(requests[r]) /\ At(r, "deleting")
    BY DEF Inv, TypeOK, RequestsSound, DeleteExpired
<1>2. a \in Attempts
    BY <1>1 DEF RequestSound, At
<1>3. PICK q \in Request : q.pc \in {"answered", "beginning"}
                           /\ requests' = [requests EXCEPT ![r] = q]
  <2> DEFINE read == [requests[r] EXCEPT !.auth = NoAuth]
  <2>1. read \in Request /\ read.auth = NoAuth /\ NoAuth.tokens = "absent"
        /\ read.route = requests[r].route /\ requests[r].route \in Route
      BY <1>1 DEF Request, NoAuth
  <2>2. \A answer \in Answer : Answered(read, answer) \in Request
                               /\ Answered(read, answer).pc = "answered"
      BY <2>1 DEF Answered, Request
  <2>3. [read EXCEPT !.pc = "beginning"] \in Request
        /\ [read EXCEPT !.pc = "beginning"].pc = "beginning"
      BY <2>1 DEF Request
  <2>4. AfterRead(r, NoAuth)
      BY DEF DeleteExpired
  <2>5. CASE read.route = "start"
      BY <2>1, <2>3, <2>4, <2>5 DEF AfterRead, StartReads
  <2>6. CASE read.route = "callback"
      BY <2>1, <2>2, <2>4, <2>6 DEF AfterRead, CallbackReads, Answer
  <2>7. CASE read.route = "doctor"
      BY <2>1, <2>2, <2>4, <2>7 DEF AfterRead, DoctorReads, Answer
  <2> QED
      BY <2>1, <2>5, <2>6, <2>7 DEF Route
<1>4. Gone \notin StoredAttempt
    BY StoredFacts
<1> QED
    BY <1>2, <1>3, <1>4, WriteKeeps DEF DeleteExpired, Inv, TypeOK

LEMMA CreateKeeps ==
    ASSUME Inv, NEW r \in Requests, NEW a \in Attempts, CreateOAuthAttempt(r, a)
    PROVE  Inv'
<1> DEFINE x == [createdAt |-> now, auth |-> Fresh]
           q == Answered([requests[r] EXCEPT !.id = a, !.auth = Fresh], "redirect")
<1>1. Fresh \in Auth /\ Fresh.tokens = "none" /\ Fresh.wallet = "none"
    BY DEF Fresh, Auth
<1>2. x \in StoredAttempt /\ AuthSound(a, x.auth)
    BY <1>1 DEF StoredAttempt, AuthSound, Inv, TypeOK
<1>3. q \in Request /\ q.pc = "answered"
    BY <1>1 DEF Inv, TypeOK, Request, Answered, Answer
<1>4. ~FoundExpired(a) \/ a \in revived
    BY StoredFacts DEF CreateOAuthAttempt, FoundExpired, Expired, Stored, Unused, Gone
<1>5. requests' = [requests EXCEPT ![r] = q] /\ attempts' = [attempts EXCEPT ![a] = x]
    BY DEF CreateOAuthAttempt
<1> HIDE DEF x, q
<1> QED
    BY <1>2, <1>3, <1>4, <1>5, WriteKeeps DEF CreateOAuthAttempt, Inv, TypeOK

LEMMA SaveKeeps ==
    ASSUME Inv, NEW r \in Requests, SaveOAuthAttempt(r) \/ TruncateFile(r)
    PROVE  Inv'
<1> DEFINE a == requests[r].id
           x == [createdAt |-> now, auth |-> requests[r].auth]
<1>1. requests[r] \in Request /\ RequestSound(requests[r])
      /\ requests[r].pc \in {"saving", "writing"}
    BY DEF Inv, TypeOK, RequestsSound, SaveOAuthAttempt, TruncateFile, At
<1>2. a \in Attempts /\ AuthSound(a, requests[r].auth)
    BY <1>1 DEF RequestSound
<1>3. /\ revived' \in SUBSET Attempts /\ revived \subseteq revived'
      /\ FoundExpired(a) => a \in revived'
    BY <1>2 DEF Inv, TypeOK, SaveOAuthAttempt, TruncateFile, FoundExpired
<1>4. CASE SaveOAuthAttempt(r)
  <2> DEFINE q == Saved(requests[r])
  <2>1. x \in StoredAttempt /\ AuthSound(a, x.auth)
      BY <1>2 DEF StoredAttempt, AuthSound, Inv, TypeOK
  <2>2. q \in Request /\ q.pc = "answered"
      BY <1>1 DEF Saved, Answered, Request, Answer
  <2>3. requests' = [requests EXCEPT ![r] = q] /\ attempts' = [attempts EXCEPT ![a] = x]
      BY <1>4 DEF SaveOAuthAttempt
  <2> HIDE DEF x, q
  <2> QED
      BY <1>2, <1>3, <1>4, <2>1, <2>2, <2>3, WriteKeeps DEF SaveOAuthAttempt
<1>5. CASE TruncateFile(r)
  <2> DEFINE q == [requests[r] EXCEPT !.pc = "writing"]
  <2>1. Torn \notin StoredAttempt
      BY StoredFacts
  <2>2. q \in Request /\ q.pc = "writing" /\ q.id = a /\ q.auth = requests[r].auth
      BY <1>1 DEF Request
  <2>3. RequestSound(q)
      BY <1>1, <1>2, <2>2 DEF RequestSound
  <2>4. requests' = [requests EXCEPT ![r] = q] /\ attempts' = [attempts EXCEPT ![a] = Torn]
      BY <1>5 DEF TruncateFile
  <2> HIDE DEF q
  <2> QED
      BY <1>2, <1>3, <1>5, <2>1, <2>2, <2>3, <2>4, WriteKeeps DEF TruncateFile
<1> QED
    BY <1>4, <1>5

-----------------------------------------------------------------------------

\* Nothing of the store moves, and KeeperHub's side only grows; one request may move.
LEMMA GrowthKeeps ==
    ASSUME Inv,
           UNCHANGED <<attempts, usesDatabaseStore, revived>>,
           cookie' \in Attempts \cup {None}, walletReady' \in BOOLEAN,
           now' \in Nat, now <= now', walletReady => walletReady',
           consent' \in [Attempts -> [offered : BOOLEAN, issued : SUBSET Codes,
                                      spent : SUBSET Codes]],
           \A a \in Attempts : consent[a].issued \subseteq consent'[a].issued
                               /\ consent[a].spent \subseteq consent'[a].spent,
           SpentWereIssued',
           requests' \in [Requests -> Request],
           \A r \in Requests : requests'[r] = requests[r] \/ RequestSound(requests[r])'
    PROVE  Inv'
<1>1. TypeOK'
    BY DEF Inv, TypeOK
<1>2. WalletNeedsTokens' /\ TokensMatchConsent'
  <2> SUFFICES ASSUME NEW b \in Attempts
               PROVE  /\ (Stored(b)' /\ attempts'[b].auth.wallet = "known" =>
                            attempts'[b].auth.tokens = "held" /\ walletReady')
                      /\ (Connected(b)' => consent'[b].spent # {}
                                           /\ consent'[b].spent \subseteq consent'[b].issued)
      BY DEF WalletNeedsTokens, TokensMatchConsent
  <2> QED
      BY DEF Inv, WalletNeedsTokens, TokensMatchConsent, SpentWereIssued, Connected, Stored
<1>3. ASSUME NEW a \in Attempts, FoundExpired(a) PROVE FoundExpired(a)'
  <2>1. CASE Expired(a)
    <3>1. attempts[a].createdAt \in Nat /\ now \in Nat /\ MaxAge \in Nat
        BY <2>1, StoredFacts, ConnectionAssumption DEF Expired, Stored, Inv, TypeOK
    <3> QED
        BY <2>1, <3>1 DEF FoundExpired, Expired, Stored
  <2> QED
      BY <1>3, <2>1 DEF FoundExpired
<1>4. ASSUME NEW r \in Requests PROVE RequestSound(requests[r])'
    BY <1>1, <1>3, RequestsKept
<1> QED
    BY <1>1, <1>2, <1>4 DEF Inv, RequestsSound

LEMMA ArriveKeeps ==
    ASSUME Inv, NEW r \in Requests,
           Start(r) \/ Doctor(r) \/ \E a \in Attempts, c \in Codes : Callback(r, a, c)
    PROVE  Inv'
<1>1. cookie \in Attempts \cup {None}
    BY DEF Inv, TypeOK
<1>2. Idle \in Request
    BY DEF Idle, Request, Route, Answer
<1>3. PICK q \in Request : RequestSound(q) /\ Arrive(r, q)
  <2>1. CASE Start(r)
    <3> DEFINE q == [Idle EXCEPT !.id = cookie,
                        !.pc = IF cookie = None THEN "beginning" ELSE "reading"]
    <3>1. q \in Request /\ RequestSound(q)
        BY <1>1 DEF Idle, Request, Route, Answer, RequestSound
    <3> QED
        BY <2>1, <3>1 DEF Start
  <2>2. CASE Doctor(r)
    <3> DEFINE q == [Idle EXCEPT !.pc = "reading", !.route = "doctor", !.id = cookie]
               asked == IF cookie = None THEN Answered(q, "missing-session") ELSE q
    <3>1. asked \in Request /\ RequestSound(asked)
        BY <1>1 DEF Idle, Request, Route, Answer, RequestSound, Answered
    <3> QED
        BY <2>2, <3>1 DEF Doctor
  <2>3. ASSUME NEW a \in Attempts, NEW c \in Codes, Callback(r, a, c)
        PROVE  \E q \in Request : RequestSound(q) /\ Arrive(r, q)
    <3> DEFINE q == [Idle EXCEPT !.pc = "reading", !.route = "callback",
                                 !.id = cookie, !.state = a, !.code = c]
               asked == IF cookie = None THEN Answered(q, "missing-session") ELSE q
    <3>1. c \in consent[a].issued
        BY <2>3 DEF Callback
    <3>2. asked \in Request /\ RequestSound(asked)
        BY <1>1, <3>1 DEF Idle, Request, Route, Answer, RequestSound, Answered
    <3> QED
        BY <2>3, <3>2 DEF Callback
  <2> QED
      BY <2>1, <2>2, <2>3
<1> QED
    BY <1>1, <1>3, OneMoves DEF Arrive

\* A refused exchange ends the request; a good one spends the code on the attempt
\* it was issued to, which is the one the request works on.
LEMMA ExchangeKeeps ==
    ASSUME Inv, NEW r \in Requests, FinishAuth(r)
    PROVE  Inv'
<1> DEFINE request == requests[r]
           a == requests[r].state
           code == requests[r].code
<1>1. /\ request \in Request /\ RequestSound(request)
      /\ request.pc = "exchanging" /\ consent[a] \in [offered : BOOLEAN,
                                       issued : SUBSET Codes, spent : SUBSET Codes]
      /\ a \in Attempts /\ a = request.id /\ code \in consent[a].issued
      /\ AuthSound(a, request.auth)
    BY DEF Inv, TypeOK, RequestsSound, FinishAuth, At, RequestSound
<1>2. CASE code \in consent[a].spent
  <2> DEFINE q == Answered([request EXCEPT !.auth.tokens = "none"], "token-exchange")
  <2>1. request.auth \in Auth
      BY <1>1 DEF AuthSound
  <2>2. q \in Request /\ q.pc = "answered"
      BY <1>1, <2>1 DEF Answered, Request, Answer, Auth
  <2>3. RequestSound(q)
      BY <2>2 DEF RequestSound
  <2>4. requests' = [requests EXCEPT ![r] = q] /\ consent' = consent
      BY <1>2 DEF FinishAuth
  <2> HIDE DEF q
  <2> QED
      BY <2>2, <2>3, <2>4, OneMoves DEF FinishAuth, Inv, TypeOK
<1>3. CASE code \notin consent[a].spent
  <2> DEFINE q == [request EXCEPT !.pc = "discovering", !.auth.tokens = "held",
                                  !.state = None, !.code = None]
  <2>1. requests' = [requests EXCEPT ![r] = q]
        /\ consent' = [consent EXCEPT ![a].spent = @ \cup {code}]
      BY <1>3 DEF FinishAuth
  <2>2. /\ consent' \in [Attempts -> [offered : BOOLEAN, issued : SUBSET Codes,
                                      spent : SUBSET Codes]]
        /\ \A b \in Attempts : /\ consent'[b].issued = consent[b].issued
                               /\ consent[b].spent \subseteq consent'[b].spent
                               /\ consent'[b].spent \subseteq consent[b].spent \cup consent'[b].issued
        /\ consent'[a].spent # {}
      BY <1>1, <2>1 DEF Inv, TypeOK
  <2>3. SpentWereIssued'
      BY <2>2 DEF Inv, SpentWereIssued
  <2>4. q \in Request /\ q.pc = "discovering" /\ q.id = a /\ q.auth \in Auth
        /\ q.auth.tokens = "held" /\ (q.auth.wallet = "known" => walletReady)
      BY <1>1 DEF Request, Auth, AuthSound
  <2>5. \A p \in Requests : requests'[p] = IF p = r THEN q ELSE requests[p]
      BY <2>1 DEF Inv, TypeOK
  <2>6. requests' \in [Requests -> Request]
      BY <2>1, <2>4 DEF Inv, TypeOK
  <2>7. walletReady' = walletReady
      BY DEF FinishAuth
  <2> HIDE DEF q
  <2>8. RequestSound(requests[r])'
      BY <1>1, <2>2, <2>4, <2>5, <2>7 DEF RequestSound, AuthSound
  <2>9. \A p \in Requests : requests'[p] = requests[p] \/ RequestSound(requests[p])'
      BY <2>5, <2>8
  <2> QED
      BY <2>2, <2>3, <2>6, <2>9, GrowthKeeps DEF FinishAuth, Inv, TypeOK
<1> QED
    BY <1>2, <1>3

LEMMA OthersKeep ==
    ASSUME Inv, NEW r \in Requests,
           DiscoverWallet(r) \/ CallFails(r) \/ RequestDies(r)
    PROVE  Inv'
<1>1. requests[r] \in Request /\ RequestSound(requests[r]) /\ cookie \in Attempts \cup {None}
    BY DEF Inv, TypeOK, RequestsSound
<1>2. CASE DiscoverWallet(r)
  <2> DEFINE q == [requests[r] EXCEPT !.pc = "saving",
                     !.auth.wallet = IF walletReady THEN "known" ELSE @]
  <2>1. requests[r].auth \in Auth /\ requests[r].auth.tokens = "held"
        /\ AuthSound(requests[r].id, requests[r].auth) /\ requests[r].id \in Attempts
      BY <1>1, <1>2 DEF DiscoverWallet, At, RequestSound, AuthSound
  <2>2. q \in Request /\ RequestSound(q)
      BY <1>1, <2>1 DEF Request, RequestSound, AuthSound, Auth, Inv, TypeOK
  <2>3. requests' = [requests EXCEPT ![r] = q]
      BY <1>1, <1>2 DEF DiscoverWallet, Request, Auth
  <2> HIDE DEF q
  <2> QED
      BY <1>1, <1>2, <2>2, <2>3, OneMoves DEF DiscoverWallet
<1>3. CASE CallFails(r)
  <2>1. PICK answer \in Answer :
          requests' = [requests EXCEPT ![r] = Answered(requests[r], answer)]
      BY <1>1, <1>3 DEF CallFails, Request, Route, Answer
  <2>2. Answered(requests[r], answer) \in Request /\ RequestSound(Answered(requests[r], answer))
      BY <1>1 DEF Answered, Request, RequestSound
  <2> QED
      BY <1>1, <1>3, <2>1, <2>2, OneMoves DEF CallFails
<1>4. CASE RequestDies(r)
  <2>1. Idle \in Request /\ RequestSound(Idle)
      BY DEF Idle, Request, Route, Answer, RequestSound
  <2> QED
      BY <1>1, <1>4, <2>1, OneMoves DEF RequestDies
<1> QED
    BY <1>2, <1>3, <1>4

LEMMA DeliverKeeps ==
    ASSUME Inv, NEW r \in Requests, Deliver(r)
    PROVE  Inv'
<1>1. requests[r] \in Request /\ RequestSound(requests[r])
    BY DEF Inv, TypeOK, RequestsSound
<1>2. Idle \in Request /\ Idle.pc = "idle"
    BY DEF Idle, Request, Route, Answer
<1>3. \A p \in Requests : requests'[p] = IF p = r THEN Idle ELSE requests[p]
    BY DEF Deliver, Inv, TypeOK
<1>4. requests' \in [Requests -> Request]
    BY <1>2 DEF Deliver, Inv, TypeOK
<1>5. RequestSound(requests[r])'
    BY <1>2, <1>3 DEF RequestSound
<1>6. \A p \in Requests : requests'[p] = requests[p] \/ RequestSound(requests[p])'
    BY <1>3, <1>5
<1>7. cookie' \in Attempts \cup {None}
    BY <1>1 DEF Deliver, Inv, TypeOK, Request
<1>8. /\ consent' \in [Attempts -> [offered : BOOLEAN, issued : SUBSET Codes,
                                    spent : SUBSET Codes]]
      /\ \A a \in Attempts : consent'[a].issued = consent[a].issued
                             /\ consent'[a].spent = consent[a].spent
  <2>1. CASE consent' = consent
      BY <2>1 DEF Inv, TypeOK
  <2>2. CASE consent' = [consent EXCEPT ![requests[r].id].offered = TRUE]
      BY <2>2 DEF Inv, TypeOK
  <2> QED
      BY <2>1, <2>2 DEF Deliver
<1>9. SpentWereIssued'
    BY <1>8 DEF Inv, SpentWereIssued
<1> QED
    BY <1>4, <1>6, <1>7, <1>8, <1>9, GrowthKeeps DEF Deliver, Inv, TypeOK

LEMMA ExternalKeeps ==
    ASSUME Inv,
           (\E a \in Attempts, c \in Codes : Approve(a, c))
             \/ AddWallet \/ DropCookie \/ Tick \/ UNCHANGED vars
    PROVE  Inv'
<1> USE DEF Inv, TypeOK
<1>1. requests' = requests /\ UNCHANGED <<attempts, usesDatabaseStore, revived>>
    BY DEF Approve, AddWallet, DropCookie, Tick, vars
<1>2. cookie' \in Attempts \cup {None}
    BY DEF Approve, AddWallet, DropCookie, Tick, vars
<1>3. now' \in Nat /\ now <= now'
    BY DEF Approve, AddWallet, DropCookie, Tick, vars
<1>4. walletReady' \in BOOLEAN /\ (walletReady => walletReady')
    BY DEF Approve, AddWallet, DropCookie, Tick, vars
<1>5. /\ consent' \in [Attempts -> [offered : BOOLEAN, issued : SUBSET Codes,
                                    spent : SUBSET Codes]]
      /\ \A a \in Attempts : consent[a].issued \subseteq consent'[a].issued
                             /\ consent'[a].spent = consent[a].spent
  <2>1. ASSUME NEW a \in Attempts, NEW c \in Codes, Approve(a, c)
        PROVE  /\ consent' \in [Attempts -> [offered : BOOLEAN, issued : SUBSET Codes,
                                             spent : SUBSET Codes]]
               /\ \A b \in Attempts : consent[b].issued \subseteq consent'[b].issued
                                      /\ consent'[b].spent = consent[b].spent
      BY <2>1 DEF Approve
  <2>2. CASE consent' = consent
      BY <2>2
  <2> QED
      BY <2>1, <2>2 DEF AddWallet, DropCookie, Tick, vars
<1>6. SpentWereIssued'
    BY <1>5 DEF SpentWereIssued
<1> QED
    BY <1>1, <1>2, <1>3, <1>4, <1>5, <1>6, GrowthKeeps

-----------------------------------------------------------------------------

LEMMA InitInv == Init => Inv
<1> SUFFICES ASSUME Init PROVE Inv
    OBVIOUS
<1>1. Idle \in Request /\ Idle.pc = "idle"
    BY DEF Idle, Request, Route, Answer
<1>2. TypeOK
    BY <1>1 DEF Init, TypeOK
<1>3. SpentWereIssued
    BY DEF Init, SpentWereIssued
<1>4. \A a \in Attempts : ~Stored(a)
    BY StoredFacts DEF Init, Stored
<1>5. RequestsSound
    BY <1>1 DEF Init, RequestsSound, RequestSound
<1> QED
    BY <1>2, <1>3, <1>4, <1>5 DEF Inv, WalletNeedsTokens, TokensMatchConsent, Connected

LEMMA NextInv == ASSUME Inv, [Next]_vars PROVE Inv'
<1>1. ASSUME NEW r \in Requests, Step(r) PROVE Inv'
    BY <1>1, ArriveKeeps, ReadKeeps, DeleteKeeps, CreateKeeps, ExchangeKeeps, SaveKeeps,
       OthersKeep, DeliverKeeps DEF Step
<1> QED
    BY <1>1, ExternalKeeps DEF Next

LEMMA Invariance == Spec => []Inv
<1>1. Inv /\ [Next]_vars => Inv'
    BY NextInv
<1> QED
    BY InitInv, <1>1, PTL DEF Spec

\* Attempts, requests and KeeperHub's side keep their types.
THEOREM ConnectionTypeCorrect == Spec => []TypeOK
<1>1. Inv => TypeOK
    BY DEF Inv
<1> QED
    BY Invariance, <1>1, PTL

\* A stored wallet always has tokens stored with it, for any requests that race.
THEOREM WalletsHaveTokens == Spec => []WalletNeedsTokens
<1>1. Inv => WalletNeedsTokens
    BY DEF Inv
<1> QED
    BY Invariance, <1>1, PTL

\* An attempt holds tokens only of an authorization of its own.
THEOREM TokensWereApproved == Spec => []TokensMatchConsent
<1>1. Inv => TokensMatchConsent
    BY DEF Inv
<1> QED
    BY Invariance, <1>1, PTL

\* Whatever requests race, a connection that has not expired is lost only if it was
\* stored again after it had expired, or while its file is rewritten.
THEOREM ConnectionsSurvive == Spec => ConnectionSurvives
<1>1. ASSUME Inv, [Next]_vars, NEW a \in Attempts,
             Connected(a), ~Expired(a), ~Connected(a)', a \notin revived,
             attempts'[a] # Torn
      PROVE  FALSE
  <2>1. Stored(a) /\ attempts[a] # Unused /\ attempts[a] # Gone
      BY <1>1, StoredFacts DEF Connected, Stored
  <2>2. attempts'[a] # attempts[a]
      BY <1>1 DEF Connected, Stored
  <2>3. PICK r \in Requests : DeleteExpired(r) \/ SaveOAuthAttempt(r) \/ TruncateFile(r)
                              \/ \E b \in Attempts : CreateOAuthAttempt(r, b)
      BY <1>1, <2>2 DEF Next, Step, vars, Start, Doctor, Callback, Arrive, ReadOAuthAttempt,
         ReadFails, FinishAuth, DiscoverWallet, Deliver, CallFails, RequestDies, Approve,
         AddWallet, DropCookie, Tick
  <2>4. requests[r] \in Request /\ RequestSound(requests[r]) /\ attempts[a] # Gone
      BY <1>1, <2>1 DEF Inv, TypeOK, RequestsSound
  <2>5. CASE DeleteExpired(r)
    <3>1. requests[r].id = a /\ requests[r].pc = "deleting"
        BY <1>1, <2>2, <2>5 DEF DeleteExpired, At, Inv, TypeOK
    <3> QED
        BY <1>1, <2>4, <3>1 DEF RequestSound, FoundExpired
  <2>6. CASE SaveOAuthAttempt(r)
    <3>1. requests[r].id = a /\ requests[r].pc \in {"saving", "writing"}
          /\ attempts'[a] = [createdAt |-> now, auth |-> requests[r].auth]
        BY <1>1, <2>2, <2>6 DEF SaveOAuthAttempt, At, Inv, TypeOK
    <3>2. requests[r].auth \in Auth /\ requests[r].auth.tokens = "held" /\ now \in Nat
        BY <1>1, <2>4, <3>1 DEF RequestSound, AuthSound, Inv, TypeOK
    <3> QED
        BY <1>1, <3>1, <3>2 DEF Connected, Stored, StoredAttempt
  <2>7. CASE TruncateFile(r)
      BY <1>1, <2>2, <2>7 DEF TruncateFile, Inv, TypeOK
  <2>8. ASSUME NEW b \in Attempts, CreateOAuthAttempt(r, b) PROVE FALSE
      BY <1>1, <2>1, <2>2, <2>8 DEF CreateOAuthAttempt, Inv, TypeOK
  <2> QED
      BY <2>3, <2>5, <2>6, <2>7, <2>8
<1>2. Inv /\ [Next]_vars =>
        [ \A a \in Attempts :
            Connected(a) /\ ~Expired(a) /\ ~Connected(a)'
              => a \in revived \/ attempts'[a] = Torn ]_vars
    BY <1>1
<1> QED
    BY Invariance, <1>2, PTL DEF Spec, ConnectionSurvives
=============================================================================
