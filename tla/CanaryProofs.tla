---------------------------- MODULE CanaryProofs ----------------------------
(***************************************************************************)
(* Proofs about the public canary, for any number of pages, requests and   *)
(* executions.  The strengthening says of each request what its answer     *)
(* will tell, and that a page waits for one request at most.               *)
(***************************************************************************)
EXTENDS Canary, TLAPS

\* Every submission carries the one key, so KeeperHub's executions do too.
KeysFixed == \A e \in Executions : Born(e) => executions[e].key = "v1"

\* What a request says of an execution is so, and is no older than what its page
\* shows; a page that waits is loading; nobody's answer is not kept.
CallReal(c) ==
    /\ c.page = None => c.stage # "answered" /\ c.kind = "submission"
    /\ c.executionId # None => Born(c.executionId)
    /\ c.stage = "posted" => c.kind = "submission"
    /\ c.kind = "status" => c.executionId # None
    /\ c.kind = "submission" /\ c.stage = "answered" => c.executionId # None
    /\ c.kind = "status" /\ c.stage = "answered" =>
         c.receipt # "none" /\ Rank[c.receipt] <= Rank[executions[c.executionId].status]
    /\ c.page # None =>
         /\ pages[c.page].loading # "none"
         /\ c.kind = "status" => pages[c.page].executionId # None
         /\ c.kind = "status" /\ c.stage = "answered" =>
              Rank[pages[c.page].receipt] <= Rank[c.receipt]

CallsReal == \A c \in calls : CallReal(c)

OneWaiting == \A c, d \in calls : c.page # None /\ c.page = d.page => c = d

Inv == TypeOK /\ KeysFixed /\ OneExecution /\ ReceiptIsReal /\ CallsReal /\ OneWaiting

\* How far an execution has come is a number, and running is farther than pending.
LEMMA RankFacts ==
    /\ \A s \in Status \cup {"none"} : Rank[s] \in 0..3
    /\ Rank["none"] = 0
    /\ Rank["pending"] <= Rank["running"]
    /\ \A s \in {"completed", "failed"} : Rank["running"] <= Rank[s]
BY DEF Rank, Status

\* While only executions move, and they move forward, nothing said of them fails.
LEMMA ExecutionsAdvance ==
    ASSUME Inv, TypeOK', KeysFixed', OneExecution',
           UNCHANGED <<pages, calls>>,
           \A e \in Executions : Born(e) =>
               Born(e)' /\ Rank[executions[e].status] <= Rank[executions'[e].status]
    PROVE  Inv'
<1>1. ASSUME NEW e \in Executions, Born(e), NEW s \in Status \cup {"none"},
             Rank[s] <= Rank[executions[e].status]
      PROVE  Rank[s] <= Rank[executions'[e].status]
  <2>1. executions[e] \in Execution /\ executions'[e] \in Execution
      BY <1>1 DEF Inv, TypeOK, Born
  <2>2. Rank[s] \in 0..3 /\ Rank[executions[e].status] \in 0..3
                         /\ Rank[executions'[e].status] \in 0..3
      BY <2>1, RankFacts DEF Execution
  <2>3. Rank[executions[e].status] <= Rank[executions'[e].status]
      BY <1>1
  <2> QED
      BY <1>1, <2>2, <2>3
<1>2. ReceiptIsReal'
    BY <1>1 DEF Inv, TypeOK, ReceiptIsReal, Page
<1>3. CallsReal'
    BY <1>1 DEF Inv, TypeOK, CallsReal, CallReal, Call
<1>4. OneWaiting'
    BY DEF Inv, OneWaiting
<1> QED
    BY <1>2, <1>3, <1>4 DEF Inv

\* A request goes a step further, unless it is done and nobody waits for it.
LEMMA MovedKeeps ==
    ASSUME Inv, NEW c \in calls, NEW d \in Call, Moved(c, d),
           d.page = c.page,
           CallReal(d) \/ (d.page = None /\ d.stage = "answered"),
           UNCHANGED <<pages, executions, writesEnabled, connected>>
    PROVE  Inv'
<1>1. TypeOK'
    BY DEF Inv, TypeOK, Moved
<1>2. KeysFixed' /\ OneExecution' /\ ReceiptIsReal'
    BY DEF Inv, KeysFixed, OneExecution, ReceiptIsReal, Born
<1>3. \A b \in calls' : b \in calls \/ (b = d /\ CallReal(d))
    BY DEF Moved
<1>4. CallsReal'
    BY <1>3 DEF Inv, CallsReal, CallReal, Born
<1>5. \A b \in calls' : (b \in calls /\ b # c) \/ b = d
    BY DEF Moved
<1>6. OneWaiting'
  <2> SUFFICES ASSUME NEW a \in calls', NEW b \in calls', a.page # None, a.page = b.page
               PROVE  a = b
      BY DEF OneWaiting
  <2> QED
      BY <1>5 DEF Inv, OneWaiting
<1> QED
    BY <1>1, <1>2, <1>4, <1>6 DEF Inv

\* What an orphaned request is.
LEMMA OrphanFacts ==
    ASSUME Inv, NEW S, S \subseteq calls, NEW b \in Orphans(S)
    PROVE  /\ b \in Call /\ b.page = None
           /\ b.kind = "submission" /\ b.stage # "answered"
           /\ b.executionId # None => Born(b.executionId)
<1>1. PICK c \in S : c.kind = "submission" /\ c.stage # "answered" /\ b = [c EXCEPT !.page = None]
    BY DEF Orphans
<1>2. c \in Call /\ CallReal(c)
    BY <1>1 DEF Inv, TypeOK, CallsReal
<1> QED
    BY <1>1, <1>2 DEF Call, CallReal

\* A page ends its wait, or is reloaded or restarted: its requests are orphaned or
\* gone, and what it then shows is known to be so.
LEMMA PageKeeps ==
    ASSUME Inv, NEW kept, kept \subseteq calls, NEW S, S \subseteq calls,
           calls' = kept \cup Orphans(S),
           pages' \in [Pages -> Page],
           writesEnabled' \in BOOLEAN,
           UNCHANGED <<executions, connected>>,
           ReceiptIsReal',
           \A c \in kept : c.page # None => pages'[c.page] = pages[c.page]
    PROVE  Inv'
<1>1. \A b \in Orphans(S) :
         /\ b \in Call /\ b.page = None
         /\ b.kind = "submission" /\ b.stage # "answered"
         /\ b.executionId # None => Born(b.executionId)
    BY OrphanFacts
<1>2. TypeOK'
    BY <1>1 DEF Inv, TypeOK
<1>3. KeysFixed' /\ OneExecution'
    BY DEF Inv, KeysFixed, OneExecution, Born
<1>4. CallsReal'
  <2>1. ASSUME NEW c \in kept PROVE CallReal(c)'
      <3>1. CallReal(c)
          BY DEF Inv, CallsReal
      <3>2. c.page # None => pages'[c.page] = pages[c.page]
          OBVIOUS
      <3> QED
          BY <3>1, <3>2 DEF CallReal, Born
  <2>2. ASSUME NEW b \in Orphans(S) PROVE CallReal(b)'
      BY <1>1 DEF CallReal, Born
  <2> QED
      BY <2>1, <2>2 DEF CallsReal
<1>5. OneWaiting'
    BY <1>1 DEF Inv, OneWaiting
<1> QED
    BY <1>2, <1>3, <1>4, <1>5 DEF Inv

-----------------------------------------------------------------------------
(* One lemma for the page, one for the routes, one for what is external.   *)

\* The page that shows an answer had asked, and nothing else of it is under way.
LEMMA ShowKeeps ==
    ASSUME Inv, NEW c \in calls, NEW page \in Page, Show(c, page),
           NEW alive \in SUBSET {c}, calls' = (calls \ {c}) \cup Orphans(alive),
           UNCHANGED <<executions, writesEnabled, connected>>,
           c.page # None =>
             /\ page.executionId # None => Born(page.executionId)
             /\ page.receipt # "none" =>
                  /\ page.executionId # None
                  /\ Rank[page.receipt] <= Rank[executions[page.executionId].status]
    PROVE  Inv'
<1>1. c \in Call /\ pages \in [Pages -> Page]
    BY DEF Inv, TypeOK
<1>2. pages' \in [Pages -> Page]
    BY <1>1 DEF Show, Page
<1>3. \A p \in Pages : p # c.page => pages'[p] = pages[p]
    BY <1>1 DEF Show
<1>4. \A p \in Pages : p = c.page =>
         pages'[p].executionId = page.executionId /\ pages'[p].receipt = page.receipt
    BY DEF Show, Page
<1>5. ReceiptIsReal'
    BY <1>3, <1>4, CanaryAssumption DEF Inv, ReceiptIsReal, Born
<1>6. \A b \in calls \ {c} : b.page # None => b.page \in Pages /\ b.page # c.page
    BY DEF Inv, TypeOK, Call, OneWaiting
<1> QED
    BY <1>2, <1>3, <1>5, <1>6, PageKeeps DEF Inv, TypeOK

LEMMA PageStep ==
    ASSUME Inv, NEW p \in Pages,
           Reload(p) \/ (\E kind \in Kind : Click(p, kind))
    PROVE  Inv'
<1>1. CASE Reload(p)
  <2> DEFINE mine == {c \in calls : c.page = p}
  <2>1. Blank \in Page
      BY DEF Blank, Page
  <2>2. pages' \in [Pages -> Page]
      BY <1>1, <2>1 DEF Reload, Inv, TypeOK
  <2>3. ReceiptIsReal'
      BY <1>1 DEF Reload, Inv, TypeOK, ReceiptIsReal, Blank, Born
  <2>4. \A c \in calls \ mine : c.page # None => pages'[c.page] = pages[c.page]
      BY <1>1 DEF Reload, Inv, TypeOK, Call
  <2>5. calls' = (calls \ mine) \cup Orphans(mine)
      BY <1>1 DEF Reload
  <2>6. UNCHANGED <<executions, connected>> /\ writesEnabled' \in BOOLEAN
      BY <1>1 DEF Reload, Inv, TypeOK
  <2> QED
      BY <2>2, <2>3, <2>4, <2>5, <2>6, PageKeeps
<1>2. ASSUME NEW kind \in Kind, Click(p, kind) PROVE Inv'
  <2> USE <1>2
  <2>1. pages[p].loading = "none" /\ pages[p] \in Page
      BY DEF Click, Offered, Inv, TypeOK
  <2>2. kind = "status" => pages[p].executionId # None
      BY DEF Click, Offered
  <2>3. PICK d : d = [page |-> p, kind |-> kind, stage |-> "sent",
                      executionId |-> IF kind = "status" THEN pages[p].executionId ELSE None,
                      receipt |-> "none"]
      OBVIOUS
  <2>4. /\ d \in Call /\ d.page = p /\ d.kind = kind /\ d.stage = "sent"
        /\ d.executionId = IF kind = "status" THEN pages[p].executionId ELSE None
        /\ calls' = calls \cup {d} /\ UNCHANGED <<executions, writesEnabled, connected>>
      BY <2>1, <2>3 DEF Click, Call, Page
  <2>5. /\ pages' \in [Pages -> Page]
        /\ pages'[p].loading # "none"
        /\ pages'[p].executionId = pages[p].executionId
        /\ pages'[p].receipt = pages[p].receipt
        /\ \A q \in Pages : q # p => pages'[q] = pages[q]
      BY <2>1 DEF Click, Inv, TypeOK, Page, Kind
  <2>6. TypeOK'
      BY <2>4, <2>5 DEF Inv, TypeOK
  <2>7. ReceiptIsReal'
      BY <2>4, <2>5 DEF Inv, ReceiptIsReal, Born
  <2>8. \A c \in calls : c.page # None => c.page \in Pages /\ c.page # p
      BY <2>1 DEF Inv, TypeOK, Call, CallsReal, CallReal
  <2>9. CallsReal'
    <3>1. ASSUME NEW c \in calls PROVE CallReal(c)'
        BY <2>4, <2>5, <2>8 DEF Inv, CallsReal, CallReal, Born
    <3>2. CallReal(d)'
        BY <2>1, <2>2, <2>4, <2>5, CanaryAssumption DEF CallReal, Inv, ReceiptIsReal, Born
    <3> QED
        BY <2>4, <3>1, <3>2 DEF CallsReal
  <2>10. OneWaiting'
      BY <2>4, <2>8, CanaryAssumption DEF Inv, OneWaiting
  <2> QED
      BY <2>4, <2>6, <2>7, <2>9, <2>10 DEF Inv, KeysFixed, OneExecution, Born
<1> QED
    BY <1>1, <1>2

LEMMA ServeStep == ASSUME Inv, NEW c \in calls, Serve(c) PROVE Inv'
<1>1. c \in Call /\ CallReal(c)
    BY DEF Inv, TypeOK, CallsReal
<1>2. CASE Admit(c)
  <2> DEFINE d == [c EXCEPT !.stage = "admitted"]
  <2>1. d \in Call /\ CallReal(d) /\ d.page = c.page
      BY <1>1 DEF Call, CallReal
  <2> QED
      BY <1>2, <2>1, MovedKeeps DEF Admit
<1>3. CASE Verify(c)
  <2> DEFINE d == [c EXCEPT !.stage = IF c.kind = "review" THEN "answered" ELSE "verified"]
  <2>1. d \in Call /\ d.page = c.page /\ c.kind # "status"
      BY <1>1, <1>3 DEF Call, Verify
  <2>2. CallReal(d)
      BY <1>1, <2>1 DEF Call, CallReal
  <2> QED
      BY <1>3, <2>1, <2>2, MovedKeeps DEF Verify
<1>4. CASE Simulate(c)
  <2> DEFINE d == [c EXCEPT !.stage = "answered"]
  <2>1. d \in Call /\ CallReal(d) /\ d.page = c.page
      BY <1>1, <1>4 DEF Call, CallReal, Simulate
  <2> QED
      BY <1>4, <2>1, MovedKeeps DEF Simulate
<1>5. CASE Post(c)
  <2> DEFINE d == [c EXCEPT !.stage = "posted"]
  <2>1. d \in Call /\ CallReal(d) /\ d.page = c.page
      BY <1>1, <1>5 DEF Call, CallReal, Post
  <2> QED
      BY <1>5, <2>1, MovedKeeps DEF Post
<1>6. CASE ReadStatus(c)
  <2>1. c.kind = "status" /\ c.executionId \in Executions /\ Born(c.executionId)
      BY <1>1, <1>6 DEF ReadStatus, CallReal, Call
  <2>2. executions[c.executionId] \in Execution
      BY <2>1 DEF Inv, TypeOK, Born
  <2>3. PICK d : d = [c EXCEPT !.stage = "answered",
                               !.receipt = executions[c.executionId].status]
      OBVIOUS
  <2>4. /\ d \in Call /\ d.page = c.page /\ Moved(c, d)
        /\ d.kind = "status" /\ d.stage = "answered" /\ d.executionId = c.executionId
        /\ d.receipt = executions[c.executionId].status /\ d.receipt \in Status
      BY <1>1, <1>6, <2>1, <2>2, <2>3 DEF Call, Execution, ReadStatus
  <2>5. Rank[d.receipt] \in 0..3 /\ d.receipt # "none"
      BY <2>4, RankFacts DEF Status
  <2>6. ASSUME d.page # None
        PROVE  Rank[pages[d.page].receipt] <= Rank[d.receipt]
    <3>1. d.page \in Pages /\ pages[d.page] \in Page
        BY <2>4, <2>6 DEF Call, Inv, TypeOK
    <3>2. CASE pages[d.page].receipt = "none"
        BY <3>2, <2>5, RankFacts
    <3>3. CASE pages[d.page].receipt # "none"
      <4>1. /\ pages[d.page].executionId # None
            /\ pages[d.page].executionId \in Executions
            /\ Rank[pages[d.page].receipt] <= Rank[executions[pages[d.page].executionId].status]
          BY <3>1, <3>3 DEF Inv, ReceiptIsReal, Page
      <4>2. pages[d.page].executionId = c.executionId
          BY <2>1, <3>1, <4>1 DEF Inv, OneExecution, ReceiptIsReal
      <4> QED
          BY <2>4, <4>1, <4>2
    <3> QED
        BY <3>2, <3>3
  <2>7. d.page # None => pages[d.page].loading # "none" /\ pages[d.page].executionId # None
      BY <1>1, <2>1, <2>4 DEF CallReal
  <2>8. CASE d.page # None
    <3>1. Born(d.executionId) /\ d.executionId # None
        BY <2>1, <2>4, CanaryAssumption
    <3>2. Rank[d.receipt] <= Rank[executions[d.executionId].status]
        BY <2>4, <2>5
    <3>3. CallReal(d)
        BY <2>4, <2>5, <2>6, <2>7, <2>8, <3>1, <3>2 DEF CallReal
    <3> QED
        BY <1>6, <2>4, <3>3, MovedKeeps DEF ReadStatus
  <2>9. CASE d.page = None
      BY <1>6, <2>4, <2>9, MovedKeeps DEF ReadStatus
  <2> QED
      BY <2>8, <2>9
<1>7. CASE Deliver(c)
  <2> DEFINE page == CASE c.kind = "review" -> [pages[c.page] EXCEPT !.review = TRUE]
                       [] c.kind = "simulation" -> pages[c.page]
                       [] c.kind = "submission" ->
                            [pages[c.page] EXCEPT !.executionId = c.executionId]
                       [] c.kind = "status" ->
                            [pages[c.page] EXCEPT !.receipt = c.receipt]
  <2>1. c.page \in Pages /\ c.stage = "answered" /\ pages[c.page] \in Page
      BY <1>1, <1>7 DEF Deliver, CallReal, Call, Inv, TypeOK
  <2>2. page \in Page
      BY <1>1, <2>1 DEF Call, Page, Kind
  <2>3. /\ page.executionId # None => Born(page.executionId)
        /\ page.receipt # "none" =>
             /\ page.executionId # None
             /\ Rank[page.receipt] <= Rank[executions[page.executionId].status]
    <3>1. CASE c.kind \in {"review", "simulation"}
        BY <2>1, <3>1 DEF Inv, ReceiptIsReal, Page
    <3>2. CASE c.kind = "submission"
      <4>1. page.executionId = c.executionId /\ page.receipt = pages[c.page].receipt
          BY <2>1, <3>2 DEF Page
      <4>2. c.executionId \in Executions /\ Born(c.executionId)
          BY <1>1, <2>1, <3>2 DEF CallReal, Call
      <4>3. pages[c.page].executionId # None => pages[c.page].executionId = c.executionId
          BY <2>1, <4>2 DEF Inv, OneExecution, ReceiptIsReal, Page
      <4> QED
          BY <2>1, <4>1, <4>2, <4>3, CanaryAssumption DEF Inv, ReceiptIsReal
    <3>3. CASE c.kind = "status"
      <4>1. page.executionId = pages[c.page].executionId /\ page.receipt = c.receipt
          BY <2>1, <3>3 DEF Page
      <4>2. /\ c.executionId # None /\ pages[c.page].executionId # None
            /\ Rank[c.receipt] <= Rank[executions[c.executionId].status]
          BY <1>1, <2>1, <3>3, CanaryAssumption DEF CallReal
      <4>3. pages[c.page].executionId = c.executionId
          BY <1>1, <2>1, <4>2 DEF Inv, OneExecution, ReceiptIsReal, Page, CallReal, Call
      <4> QED
          BY <1>1, <4>1, <4>2, <4>3 DEF CallReal
    <3> QED
        BY <1>1, <3>1, <3>2, <3>3 DEF Call, Kind
  <2>4. Show(c, page) /\ UNCHANGED <<executions, writesEnabled, connected>>
      BY <1>7 DEF Deliver
  <2>5. calls' = (calls \ {c}) \cup Orphans({}) /\ {} \in SUBSET {c}
      BY <1>7 DEF Deliver, Orphans
  <2> HIDE DEF page
  <2> QED
      BY <2>2, <2>3, <2>4, <2>5, ShowKeeps
<1>8. CASE Fail(c)
  <2>1. CASE c.page \in Pages
    <3>1. pages[c.page] \in Page
        BY <2>1 DEF Inv, TypeOK
    <3> QED
        BY <1>8, <2>1, <3>1, ShowKeeps DEF Fail, Inv, ReceiptIsReal
  <2>2. CASE c.page = None
    <3>1. PICK alive \in SUBSET {c} : calls' = (calls \ {c}) \cup Orphans(alive)
        BY <1>8 DEF Fail
    <3>2. pages' = pages
        BY <1>8, <2>2, CanaryAssumption DEF Fail, Show, Inv, TypeOK
    <3>3. ReceiptIsReal'
        BY <1>8, <3>2 DEF Fail, Inv, ReceiptIsReal, Born
    <3> QED
        BY <1>8, <3>1, <3>2, <3>3, PageKeeps DEF Fail, Inv, TypeOK
  <2> QED
      BY <1>1, <2>1, <2>2 DEF Call
<1>9. ASSUME NEW e \in Executions, Accept(c, e) PROVE Inv'
  <2> DEFINE known == {f \in Executions : Born(f) /\ executions[f].key = IdempotencyKey(c)}
  <2>0. PICK d : d = [c EXCEPT !.stage = "answered", !.executionId = e]
      OBVIOUS
  <2>1. /\ d \in Call /\ d.page = c.page /\ c.stage = "posted" /\ Moved(c, d)
        /\ d.kind = c.kind /\ d.stage = "answered" /\ d.executionId = e
      BY <1>1, <1>9, <2>0 DEF Accept, Call
  <2>2. Born(e)' /\ TypeOK' /\ KeysFixed' /\ OneExecution'
        /\ \A f \in Executions : Born(f) => executions'[f] = executions[f]
    <3>1. CASE known # {}
      <4>1. Born(e) /\ executions' = executions
          BY <1>9, <3>1 DEF Accept
      <4> QED
          BY <1>9, <2>1, <4>1 DEF Accept, Moved, Inv, TypeOK, KeysFixed, OneExecution, Born
    <3>2. CASE known = {}
      <4>1. \A f \in Executions : ~Born(f)
          BY <3>2 DEF Inv, KeysFixed, IdempotencyKey
      <4>2. executions' = [executions EXCEPT ![e] = [key |-> "v1", status |-> "pending"]]
          BY <1>9, <3>2 DEF Accept, IdempotencyKey
      <4>3. [key |-> "v1", status |-> "pending"] \in Execution
          BY DEF Execution, Status
      <4>4. TypeOK'
          BY <1>9, <2>1, <4>2, <4>3 DEF Accept, Moved, Inv, TypeOK
      <4>5. executions'[e] # Unborn /\ executions'[e].key = "v1"
            /\ \A f \in Executions : f # e => executions'[f] = Unborn
          BY <4>1, <4>2 DEF Inv, TypeOK, Born, Unborn
      <4> QED
          BY <4>1, <4>4, <4>5 DEF KeysFixed, OneExecution, Born
    <3> QED
        BY <3>1, <3>2
  <2>3. ReceiptIsReal'
      BY <1>9, <2>2 DEF Accept, Inv, TypeOK, ReceiptIsReal, Born, Page
  <2>4. \A b \in calls' : (b \in calls /\ b # c) \/ (b = d /\ d.page # None)
      BY <2>1 DEF Moved
  <2>5. CallsReal'
    <3>1. ASSUME NEW b \in calls PROVE CallReal(b)'
      <4>1. CallReal(b) /\ b \in Call
          BY DEF Inv, CallsReal, TypeOK
      <4>2. pages' = pages
          BY <1>9 DEF Accept
      <4> QED
          BY <2>2, <4>1, <4>2 DEF CallReal, Call, Born
    <3>2. ASSUME d.page # None PROVE CallReal(d)'
      <4>1. CallReal(c) /\ pages' = pages
          BY <1>1, <1>9 DEF Accept
      <4>2. c.kind = "submission"
          BY <2>1, <4>1 DEF CallReal
      <4> QED
            BY <2>1, <2>2, <3>2, <4>1, <4>2, CanaryAssumption DEF CallReal
    <3> QED
        BY <2>4, <3>1, <3>2 DEF CallsReal
  <2>6. OneWaiting'
      BY <2>1, <2>4 DEF Inv, OneWaiting
  <2> QED
      BY <2>2, <2>3, <2>5, <2>6 DEF Inv
<1> QED
    BY <1>2, <1>3, <1>4, <1>5, <1>6, <1>7, <1>8, <1>9 DEF Serve

\* An execution goes forward.
LEMMA ProgressStep == ASSUME Inv, NEW e \in Executions, Progress(e) PROVE Inv'
<1>1. Born(e) /\ executions[e] \in Execution
    BY DEF Progress, Inv, TypeOK, Born
<1>2. PICK s \in Status : /\ executions' = [executions EXCEPT ![e].status = s]
                         /\ Rank[executions[e].status] <= Rank[s]
    BY <1>1, RankFacts DEF Progress, Status
<1>3. /\ executions' \in [Executions -> Execution \cup {Unborn}]
      /\ executions'[e] = [executions[e] EXCEPT !.status = s]
      /\ \A f \in Executions : f # e => executions'[f] = executions[f]
    BY <1>1, <1>2 DEF Inv, TypeOK, Execution
<1>4. /\ executions'[e] \in Execution /\ executions'[e].key = executions[e].key
      /\ executions'[e].status = s
    BY <1>1, <1>3 DEF Execution
<1>5. executions'[e] # Unborn
    BY <1>1, <1>3, <1>4 DEF Execution, Unborn
<1>6. TypeOK' /\ UNCHANGED <<pages, calls>>
    BY <1>3 DEF Progress, Inv, TypeOK
<1>7. KeysFixed' /\ OneExecution'
    BY <1>1, <1>3, <1>4 DEF Inv, KeysFixed, OneExecution, Born
<1>8. \A f \in Executions : Born(f) =>
         Born(f)' /\ Rank[executions[f].status] <= Rank[executions'[f].status]
  <2> SUFFICES ASSUME NEW f \in Executions, Born(f)
               PROVE  Born(f)' /\ Rank[executions[f].status] <= Rank[executions'[f].status]
      OBVIOUS
  <2>1. CASE f = e
      BY <1>2, <1>4, <1>5, <2>1 DEF Born
  <2>2. CASE f # e
    <3>1. executions[f] \in Execution
        BY DEF Inv, TypeOK, Born
    <3>2. Rank[executions[f].status] \in 0..3
        BY <3>1, RankFacts DEF Execution
    <3> QED
        BY <1>3, <2>2, <3>2 DEF Born
  <2> QED
      BY <2>1, <2>2
<1> QED
    BY <1>6, <1>7, <1>8, ExecutionsAdvance

\* Every page gives up what it waited for, and only posted submissions go on.
LEMMA RestartStep == ASSUME Inv, Restart PROVE Inv'
<1>1. pages' \in [Pages -> Page]
    BY DEF Restart, Inv, TypeOK, Page
<1>2. \A p \in Pages :
         pages'[p].executionId = pages[p].executionId /\ pages'[p].receipt = pages[p].receipt
    BY DEF Restart, Inv, TypeOK, Page
<1>3. ReceiptIsReal' /\ UNCHANGED <<executions, connected>> /\ writesEnabled' \in BOOLEAN
    BY <1>2 DEF Restart, Inv, ReceiptIsReal, Born
<1>4. PICK S : S = {c \in calls : c.stage = "posted"}
    OBVIOUS
<1>5. PICK kept : kept = {}
    OBVIOUS
<1>6. S \subseteq calls /\ kept \subseteq calls
    BY <1>4, <1>5
<1>7. calls' = kept \cup Orphans(S)
    BY <1>4, <1>5 DEF Restart
<1>8. \A c \in kept : c.page # None => pages'[c.page] = pages[c.page]
    BY <1>5
<1> QED
    BY <1>1, <1>3, <1>6, <1>7, <1>8, PageKeeps

LEMMA InitInv == Init => Inv
<1> SUFFICES ASSUME Init PROVE Inv
    OBVIOUS
<1>1. Blank \in Page
    BY DEF Blank, Page
<1>2. \A p \in Pages : pages[p] = Blank
    BY DEF Init
<1>3. \A e \in Executions : ~Born(e)
    BY DEF Init, Born
<1>4. TypeOK
  <2>1. pages \in [Pages -> Page]
      BY <1>1 DEF Init
  <2>2. executions \in [Executions -> Execution \cup {Unborn}]
      BY DEF Init
  <2> QED
      BY <2>1, <2>2 DEF Init, TypeOK
<1>5. Blank.executionId = None /\ Blank.receipt = "none"
    BY DEF Blank
<1>6. ReceiptIsReal
    BY <1>2, <1>5 DEF ReceiptIsReal
<1> QED
    BY <1>3, <1>4, <1>6 DEF Init, Inv, KeysFixed, OneExecution, CallsReal, OneWaiting

LEMMA NextInv == ASSUME Inv, [Next]_vars PROVE Inv'
<1>1. ASSUME NEW p \in Pages, Reload(p) \/ \E kind \in Kind : Click(p, kind) PROVE Inv'
    BY <1>1, PageStep
<1>2. ASSUME NEW c \in calls, Serve(c) PROVE Inv'
    BY <1>2, ServeStep
<1>3. ASSUME NEW e \in Executions, Progress(e) PROVE Inv'
    BY <1>3, ProgressStep
<1>4. CASE Restart
    BY <1>4, RestartStep
<1>5. CASE ConnectionChanges
  <2>1. TypeOK'
      BY <1>5 DEF ConnectionChanges, Inv, TypeOK
  <2> QED
      BY <1>5, <2>1 DEF ConnectionChanges, Inv, KeysFixed, OneExecution, ReceiptIsReal,
                        CallsReal, CallReal, OneWaiting, Born
<1>6. CASE UNCHANGED vars
    BY <1>6 DEF vars, Inv, TypeOK, KeysFixed, OneExecution, ReceiptIsReal,
                CallsReal, CallReal, OneWaiting, Born
<1> QED
    BY <1>1, <1>2, <1>3, <1>4, <1>5, <1>6 DEF Next

LEMMA Invariance == Spec => []Inv
<1>1. Inv /\ [Next]_vars => Inv'
    BY NextInv
<1> QED
    BY InitInv, <1>1, PTL DEF Spec

-----------------------------------------------------------------------------

\* Every variable of the panel, the routes and KeeperHub keeps its type.
THEOREM CanaryTypeCorrect == Spec => []TypeOK
<1>1. Inv => TypeOK
    BY DEF Inv
<1> QED
    BY Invariance, <1>1, PTL

\* However many pages are open, reloaded or answered late, and however often a
\* submission is retried, KeeperHub runs the canary once.
THEOREM CanaryRunsOnce == Spec => []OneExecution
<1>1. Inv => OneExecution
    BY DEF Inv
<1> QED
    BY Invariance, <1>1, PTL

\* No page shows an execution KeeperHub does not run, nor a status it has not reached.
THEOREM CanaryReceiptsReal == Spec => []ReceiptIsReal
<1>1. Inv => ReceiptIsReal
    BY DEF Inv
<1> QED
    BY Invariance, <1>1, PTL

\* A page's receipts never go back while it is open.
THEOREM CanaryReceiptsAdvance == Spec => ReceiptsAdvance
<1> DEFINE Ahead == \A p \in Pages :
                      pages'[p] # Blank => Rank[pages[p].receipt] <= Rank[pages'[p].receipt]
<1>1. Inv /\ [Next]_vars => [Ahead]_vars
  <2> SUFFICES ASSUME Inv, Next, NEW p \in Pages, pages'[p] # Blank
               PROVE  Rank[pages[p].receipt] <= Rank[pages'[p].receipt]
      OBVIOUS
  <2>0. pages[p] \in Page /\ Rank[pages[p].receipt] \in 0..3
      BY RankFacts DEF Inv, TypeOK, Page
  <2>1. ASSUME NEW q \in Pages, Reload(q) \/ \E kind \in Kind : Click(q, kind)
        PROVE  pages'[p].receipt = pages[p].receipt
    <3>1. CASE Reload(q)
        BY <3>1 DEF Reload, Inv, TypeOK
    <3>2. ASSUME NEW kind \in Kind, Click(q, kind)
          PROVE  pages'[p].receipt = pages[p].receipt
        BY <2>0, <3>2 DEF Click, Inv, TypeOK, Page
    <3> QED
        BY <2>1, <3>1, <3>2
  <2>2. ASSUME NEW c \in calls, Serve(c), ~Deliver(c)
        PROVE  pages'[p].receipt = pages[p].receipt
    <3>1. CASE Fail(c)
        BY <2>0, <3>1 DEF Fail, Show, Inv, TypeOK, Page
    <3>2. CASE ~Fail(c)
        BY <2>2, <3>2 DEF Serve, Admit, Verify, Simulate, Post, Accept, ReadStatus
    <3> QED
        BY <3>1, <3>2
  <2>3. ASSUME NEW c \in calls, Deliver(c)
        PROVE  Rank[pages[p].receipt] <= Rank[pages'[p].receipt]
    <3>1. c \in Call /\ CallReal(c) /\ c.stage = "answered"
        BY <2>3 DEF Inv, TypeOK, CallsReal, Deliver
    <3>2. CASE p # c.page \/ c.kind # "status"
      <4>1. pages'[p].receipt = pages[p].receipt
        <5>1. CASE p # c.page
            BY <2>3, <5>1 DEF Deliver, Show
        <5>2. CASE p = c.page /\ c.kind = "review"
            BY <2>0, <2>3, <5>2 DEF Deliver, Show, Page
        <5>3. CASE p = c.page /\ c.kind = "simulation"
            BY <2>0, <2>3, <5>3 DEF Deliver, Show, Page
        <5>4. CASE p = c.page /\ c.kind = "submission"
            BY <2>0, <2>3, <5>4 DEF Deliver, Show, Page
        <5> QED
            BY <3>1, <3>2, <5>1, <5>2, <5>3, <5>4 DEF Call, Kind
      <4> QED
          BY <2>0, <4>1
    <3>3. CASE p = c.page /\ c.kind = "status"
      <4>1. pages'[p].receipt = c.receipt
          BY <2>0, <2>3, <3>3 DEF Deliver, Show, Page
      <4>2. p # None
          BY CanaryAssumption
      <4> QED
          BY <3>1, <3>3, <4>1, <4>2 DEF CallReal
    <3> QED
        BY <3>2, <3>3
  <2>4. ASSUME Restart PROVE pages'[p].receipt = pages[p].receipt
      BY <2>0, <2>4 DEF Restart, Page
  <2>5. ASSUME \/ \E e \in Executions : Progress(e)
               \/ ConnectionChanges
        PROVE  pages'[p].receipt = pages[p].receipt
      BY <2>5 DEF Progress, ConnectionChanges
  <2> QED
      BY <2>0, <2>1, <2>2, <2>3, <2>4, <2>5 DEF Next
<1> QED
    BY Invariance, <1>1, PTL DEF Spec, ReceiptsAdvance

\* A request that goes a step further, and is still waited for, is of the same kind.
LEMMA MovedAwaited ==
    ASSUME TypeOK, LoadingIsAwaited, NEW c \in calls, NEW d, Moved(c, d),
           d.page = c.page, d.kind = c.kind, UNCHANGED pages
    PROVE  LoadingIsAwaited'
<1> SUFFICES ASSUME NEW p \in Pages, pages[p].loading # "none"
             PROVE  \E b \in calls' : b.page = p /\ b.kind = pages[p].loading
    BY DEF LoadingIsAwaited
<1>1. PICK b \in calls : b.page = p /\ b.kind = pages[p].loading
    BY DEF LoadingIsAwaited
<1>2. CASE b = c
  <2>1. d.page # None
      BY <1>1, <1>2, CanaryAssumption
  <2> QED
      BY <1>1, <1>2, <2>1 DEF Moved
<1>3. CASE b # c
    BY <1>1, <1>3 DEF Moved
<1> QED
    BY <1>2, <1>3

\* A page that was not shown anything still waits for what it waited for.
LEMMA ShowAwaited ==
    ASSUME TypeOK, LoadingIsAwaited, NEW c \in calls, NEW page \in Page, Show(c, page),
           calls \ {c} \subseteq calls'
    PROVE  LoadingIsAwaited'
<1> SUFFICES ASSUME NEW p \in Pages, pages'[p].loading # "none"
             PROVE  \E b \in calls' : b.page = p /\ b.kind = pages'[p].loading
    BY DEF LoadingIsAwaited
<1>1. p # c.page /\ pages'[p] = pages[p]
    BY DEF Show, Page
<1>2. PICK b \in calls : b.page = p /\ b.kind = pages[p].loading
    BY <1>1 DEF LoadingIsAwaited
<1> QED
    BY <1>1, <1>2

LEMMA AwaitedKept == ASSUME Inv, LoadingIsAwaited, [Next]_vars PROVE LoadingIsAwaited'
<1> USE DEF Inv
<1>1. ASSUME NEW p \in Pages, Reload(p) PROVE LoadingIsAwaited'
  <2> SUFFICES ASSUME NEW q \in Pages, pages'[q].loading # "none"
               PROVE  \E b \in calls' : b.page = q /\ b.kind = pages'[q].loading
      BY DEF LoadingIsAwaited
  <2>1. q # p /\ pages'[q] = pages[q]
      BY <1>1 DEF Reload, TypeOK, Blank
  <2>2. PICK b \in calls : b.page = q /\ b.kind = pages[q].loading
      BY <2>1 DEF LoadingIsAwaited
  <2>3. b \in calls'
      BY <1>1, <2>1, <2>2 DEF Reload
  <2> QED
      BY <2>1, <2>2, <2>3
<1>2. ASSUME NEW p \in Pages, NEW kind \in Kind, Click(p, kind) PROVE LoadingIsAwaited'
  <2> SUFFICES ASSUME NEW q \in Pages, pages'[q].loading # "none"
               PROVE  \E b \in calls' : b.page = q /\ b.kind = pages'[q].loading
      BY DEF LoadingIsAwaited
  <2>1. CASE q = p
    <3>1. pages'[p].loading = kind
        BY <1>2 DEF Click, TypeOK, Page
    <3>2. PICK d : /\ d = [page |-> p, kind |-> kind, stage |-> "sent",
                         executionId |-> IF kind = "status" THEN pages[p].executionId ELSE None,
                         receipt |-> "none"]
                   /\ d \in calls'
        BY <1>2 DEF Click
    <3> QED
        BY <2>1, <3>1, <3>2
  <2>2. CASE q # p
    <3>1. pages'[q] = pages[q] /\ calls \subseteq calls'
        BY <1>2, <2>2 DEF Click, TypeOK
    <3> QED
        BY <3>1 DEF LoadingIsAwaited
  <2> QED
      BY <2>1, <2>2
<1>3. ASSUME NEW c \in calls, Serve(c) PROVE LoadingIsAwaited'
  <2>0. c \in Call /\ CallReal(c)
      BY DEF TypeOK, CallsReal
  <2>1. ASSUME Admit(c) \/ Verify(c) \/ Simulate(c) \/ Post(c) PROVE LoadingIsAwaited'
    <3>1. PICK stage \in {"admitted", "verified", "posted", "answered"} :
             Moved(c, [c EXCEPT !.stage = stage]) /\ UNCHANGED pages
        BY <2>1 DEF Admit, Verify, Simulate, Post
    <3>2. [c EXCEPT !.stage = stage].page = c.page /\ [c EXCEPT !.stage = stage].kind = c.kind
        BY <2>0 DEF Call
    <3> QED
        BY <3>1, <3>2, MovedAwaited
  <2>2. ASSUME NEW e \in Executions, Accept(c, e) PROVE LoadingIsAwaited'
    <3>1. PICK d : d = [c EXCEPT !.stage = "answered", !.executionId = e]
        OBVIOUS
    <3>2. d.page = c.page /\ d.kind = c.kind /\ Moved(c, d) /\ UNCHANGED pages
        BY <2>0, <2>2, <3>1 DEF Call, Accept
    <3> QED
        BY <3>2, MovedAwaited
  <2>3. ASSUME ReadStatus(c) PROVE LoadingIsAwaited'
    <3>1. PICK d : d = [c EXCEPT !.stage = "answered",
                                 !.receipt = executions[c.executionId].status]
        OBVIOUS
    <3>2. d.page = c.page /\ d.kind = c.kind /\ Moved(c, d) /\ UNCHANGED pages
        BY <2>0, <2>3, <3>1 DEF Call, ReadStatus
    <3> QED
        BY <3>2, MovedAwaited
  <2>4. ASSUME Deliver(c) PROVE LoadingIsAwaited'
    <3>1. c.page \in Pages /\ pages[c.page] \in Page
        BY <2>0, <2>4 DEF Deliver, CallReal, Call, TypeOK
    <3>2. PICK page : page = CASE c.kind = "review" -> [pages[c.page] EXCEPT !.review = TRUE]
                                [] c.kind = "simulation" -> pages[c.page]
                                [] c.kind = "submission" ->
                                     [pages[c.page] EXCEPT !.executionId = c.executionId]
                                [] c.kind = "status" ->
                                     [pages[c.page] EXCEPT !.receipt = c.receipt]
        OBVIOUS
    <3>3. page \in Page
        BY <2>0, <3>1, <3>2 DEF Call, Page, Kind
    <3>4. Show(c, page) /\ calls \ {c} \subseteq calls'
        BY <2>4, <3>2 DEF Deliver
    <3> QED
        BY <3>3, <3>4, ShowAwaited
  <2>5. ASSUME Fail(c) PROVE LoadingIsAwaited'
    <3>1. calls \ {c} \subseteq calls' /\ Show(c, pages[c.page])
        BY <2>5 DEF Fail
    <3>2. CASE c.page # None
      <4>1. pages[c.page] \in Page
          BY <2>0, <3>2 DEF Call, TypeOK
      <4> QED
          BY <3>1, <4>1, ShowAwaited
    <3>3. CASE c.page = None
      <4>1. pages' = pages
          BY <3>1, <3>3, CanaryAssumption DEF Show, TypeOK
      <4>2. \A p \in Pages, b \in calls : b.page = p => b \in calls'
          BY <3>1, <3>3, CanaryAssumption
      <4> QED
          BY <4>1, <4>2 DEF LoadingIsAwaited
    <3> QED
        BY <3>2, <3>3
  <2> QED
      BY <1>3, <2>1, <2>2, <2>3, <2>4, <2>5 DEF Serve
<1>4. ASSUME Restart PROVE LoadingIsAwaited'
    BY <1>4 DEF Restart, TypeOK, Page, LoadingIsAwaited
<1>5. ASSUME \/ \E e \in Executions : Progress(e)
             \/ ConnectionChanges
             \/ UNCHANGED vars
      PROVE  LoadingIsAwaited'
    BY <1>5 DEF Progress, ConnectionChanges, vars, LoadingIsAwaited
<1> QED
    BY <1>1, <1>2, <1>3, <1>4, <1>5 DEF Next

\* A page that is loading has something to wait for, so its buttons come back.
THEOREM CanaryNeverStuck == Spec => []LoadingIsAwaited
<1>1. Init => LoadingIsAwaited
    BY DEF Init, LoadingIsAwaited, Blank
<1>2. Inv /\ LoadingIsAwaited /\ [Next]_vars => LoadingIsAwaited'
    BY AwaitedKept
<1> QED
    BY Invariance, <1>1, <1>2, PTL DEF Spec
=============================================================================
