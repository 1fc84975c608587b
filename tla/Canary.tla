------------------------------- MODULE Canary -------------------------------
(***************************************************************************)
(* The public execution canary, one fixed testnet call that KeeperHub runs *)
(* for an operator:                                                        *)
(*   src/components/execution-canary-review/execution-canary-review.tsx    *)
(*   src/app/api/testnet/execution-canary/{review,simulate,submit}         *)
(*   src/app/api/testnet/execution-canary/status/[executionId]             *)
(*   src/server/integrations/public-execution-canary.ts                    *)
(* The server stores nothing: what has been submitted is known to          *)
(* KeeperHub, and to the pages that were told.  Several pages are open at  *)
(* once, a page may be reloaded while its click is being served, a call    *)
(* may fail or its answer be lost at every await, and the server may be    *)
(* restarted with writes switched on or off, also while a submission is on *)
(* its way to KeeperHub.                                                   *)
(*                                                                         *)
(* External: KeeperHub, which answers a repeated idempotency key with the  *)
(* execution it has; the contract's code; the wallet connection.           *)
(***************************************************************************)
EXTENDS Integers

CONSTANTS Pages, Executions, None

ASSUME CanaryAssumption == None \notin Pages \cup Executions

VARIABLES
    pages,          \* the panel's state in each open page
    calls,          \* the requests under way
    executions,     \* external: what KeeperHub runs
    writesEnabled,  \* ENABLE_TESTNET_WRITES of the running server
    connected       \* external: the browser's connection knows a wallet

vars == <<pages, calls, executions, writesEnabled, connected>>

Kind == {"review", "simulation", "submission", "status"}

Status == {"pending", "running", "completed", "failed"}

\* `receipt` is the status that the page's last refresh has read out.
Page == [review : BOOLEAN, loading : Kind \cup {"none"},
         executionId : Executions \cup {None}, receipt : Status \cup {"none"}]

Blank == [review |-> FALSE, loading |-> "none", executionId |-> None,
          receipt |-> "none"]

\* A request nobody waits for any more belongs to no page, and is kept only while
\* it may still submit.
Call == [page : Pages \cup {None}, kind : Kind,
         stage : {"sent", "admitted", "verified", "posted", "answered"},
         executionId : Executions \cup {None}, receipt : Status \cup {"none"}]

Unborn == [absent |-> "execution"]

Execution == [key : {"v1"} \cup Pages \cup {None}, status : Status]

Init ==
    /\ pages = [p \in Pages |-> Blank]
    /\ calls = {}
    /\ executions = [e \in Executions |-> Unborn]
    /\ writesEnabled \in BOOLEAN
    /\ connected \in BOOLEAN

Born(e) == executions[e] # Unborn

Orphans(abandoned) ==
    {[c EXCEPT !.page = None] :
        c \in {d \in abandoned : d.kind = "submission" /\ d.stage # "answered"}}

Moved(c, d) ==
    calls' = (calls \ {c}) \cup (IF d.page = None /\ d.stage = "answered" THEN {} ELSE {d})

\* An answer, of either sort, clears `loading` of the page that waits for it.
Show(c, page) ==
    pages' = [p \in Pages |-> IF p = c.page THEN [page EXCEPT !.loading = "none"]
                                            ELSE pages[p]]

-----------------------------------------------------------------------------
(* The page.                                                               *)

\* A mistake: a refresh does not wait for the one under way.
OfferedMutOverlap(p, kind) ==
    /\ kind # "status" => pages[p].loading = "none"
    /\ kind \in {"simulation", "submission"} => pages[p].review
    /\ kind = "status" => pages[p].executionId # None

\* Which buttons are enabled.
Offered(p, kind) ==
    /\ pages[p].loading = "none"
    /\ kind \in {"simulation", "submission"} => pages[p].review
    /\ kind = "status" => pages[p].executionId # None

Click(p, kind) ==
    /\ Offered(p, kind)
    /\ pages' = [pages EXCEPT ![p].loading = kind]
    /\ calls' = calls \cup {[page |-> p, kind |-> kind, stage |-> "sent",
          executionId |-> IF kind = "status" THEN pages[p].executionId ELSE None,
          receipt |-> "none"]}
    /\ UNCHANGED <<executions, writesEnabled, connected>>

\* A reload forgets the review and the execution, and whatever was asked goes on.
Reload(p) ==
    /\ pages' = [pages EXCEPT ![p] = Blank]
    /\ calls' = LET mine == {c \in calls : c.page = p}
                IN  (calls \ mine) \cup Orphans(mine)
    /\ UNCHANGED <<executions, writesEnabled, connected>>

\* A mistake: an accepted submission is read out as a running execution.
DeliverMutRunning(c) ==
    /\ c \in calls /\ c.stage = "answered"
    /\ calls' = calls \ {c}
    /\ Show(c, CASE c.kind = "review" -> [pages[c.page] EXCEPT !.review = TRUE]
                 [] c.kind = "simulation" -> pages[c.page]
                 [] c.kind = "submission" ->
                      [pages[c.page] EXCEPT !.executionId = c.executionId,
                                                   !.receipt = "running"]
                 [] c.kind = "status" ->
                      [pages[c.page] EXCEPT !.receipt = c.receipt])
    /\ UNCHANGED <<executions, writesEnabled, connected>>

\* What each handler does with a good answer.
Deliver(c) ==
    /\ c \in calls /\ c.stage = "answered"
    /\ calls' = calls \ {c}
    /\ Show(c, CASE c.kind = "review" -> [pages[c.page] EXCEPT !.review = TRUE]
                 [] c.kind = "simulation" -> pages[c.page]
                 [] c.kind = "submission" ->
                      [pages[c.page] EXCEPT !.executionId = c.executionId]
                 [] c.kind = "status" ->
                      [pages[c.page] EXCEPT !.receipt = c.receipt])
    /\ UNCHANGED <<executions, writesEnabled, connected>>

\* A mistake: an error answer returns before `loading` is cleared.
FailMutLoading(c) ==
    /\ c \in calls
    /\ \E alive \in SUBSET {c} : calls' = (calls \ {c}) \cup Orphans(alive)
    /\ UNCHANGED <<pages, executions, writesEnabled, connected>>

\* An error at any await, a refusal of a route or of KeeperHub, or a lost
\* answer: the server may be at it still.
Fail(c) ==
    /\ c \in calls
    /\ \E alive \in SUBSET {c} : calls' = (calls \ {c}) \cup Orphans(alive)
    /\ Show(c, pages[c.page])
    /\ UNCHANGED <<executions, writesEnabled, connected>>

-----------------------------------------------------------------------------
(* The routes.                                                             *)

\* The gate and the connection; the review route asks for neither.
Admit(c) ==
    /\ c \in calls /\ c.stage = "sent"
    /\ c.kind = "submission" => writesEnabled
    /\ c.kind # "review" => connected
    /\ Moved(c, [c EXCEPT !.stage = "admitted"])
    /\ UNCHANGED <<pages, executions, writesEnabled, connected>>

\* verifyPublicExecutionCanary finds the pinned code; the review is ready then.
Verify(c) ==
    /\ c \in calls /\ c.stage = "admitted" /\ c.kind # "status"
    /\ Moved(c, [c EXCEPT !.stage = IF c.kind = "review" THEN "answered" ELSE "verified"])
    /\ UNCHANGED <<pages, executions, writesEnabled, connected>>

\* KeeperHub's verdict on the call changes nothing there or here.
Simulate(c) ==
    /\ c \in calls /\ c.stage = "verified" /\ c.kind = "simulation"
    /\ Moved(c, [c EXCEPT !.stage = "answered"])
    /\ UNCHANGED <<pages, executions, writesEnabled, connected>>

\* The submission leaves the server.
Post(c) ==
    /\ c \in calls /\ c.stage = "verified" /\ c.kind = "submission"
    /\ Moved(c, [c EXCEPT !.stage = "posted"])
    /\ UNCHANGED <<pages, executions, writesEnabled, connected>>

\* A mistake: a key of the page's own.
IdempotencyKeyMutPage(c) == c.page

\* PUBLIC_EXECUTION_CANARY_IDEMPOTENCY_KEY.
IdempotencyKey(c) == "v1"

\* External: KeeperHub starts an execution, or replays the one it has for the key.
Accept(c, e) ==
    LET known == {f \in Executions : Born(f) /\ executions[f].key = IdempotencyKey(c)}
    IN  /\ c \in calls /\ c.stage = "posted"
        /\ IF known = {}
           THEN /\ ~Born(e)
                /\ executions' = [executions EXCEPT ![e] =
                                    [key |-> IdempotencyKey(c), status |-> "pending"]]
           ELSE /\ e \in known
                /\ UNCHANGED executions
        /\ Moved(c, [c EXCEPT !.stage = "answered", !.executionId = e])
        /\ UNCHANGED <<pages, writesEnabled, connected>>

ReadStatus(c) ==
    /\ c \in calls /\ c.stage = "admitted" /\ c.kind = "status"
    /\ Born(c.executionId)
    /\ Moved(c, [c EXCEPT !.stage = "answered", !.receipt = executions[c.executionId].status])
    /\ UNCHANGED <<pages, executions, writesEnabled, connected>>

\* The server restarts, perhaps with the gate turned: what it was serving
\* fails, and what it had posted is KeeperHub's to answer to nobody.
Restart ==
    /\ writesEnabled' \in BOOLEAN
    /\ calls' = Orphans({c \in calls : c.stage = "posted"})
    /\ pages' = [p \in Pages |-> [pages[p] EXCEPT !.loading = "none"]]
    /\ UNCHANGED <<executions, connected>>

-----------------------------------------------------------------------------
(* External: executions run, connections come and go.                      *)

Progress(e) ==
    /\ Born(e)
    /\ \/ executions[e].status = "pending"
          /\ executions' = [executions EXCEPT ![e].status = "running"]
       \/ /\ executions[e].status = "running"
          /\ \E s \in {"completed", "failed"} :
                executions' = [executions EXCEPT ![e].status = s]
    /\ UNCHANGED <<pages, calls, writesEnabled, connected>>

ConnectionChanges ==
    /\ connected' = ~connected
    /\ UNCHANGED <<pages, calls, executions, writesEnabled>>

Serve(c) ==
    \/ Admit(c) \/ Verify(c) \/ Simulate(c) \/ Post(c)
    \/ \E e \in Executions : Accept(c, e)
    \/ ReadStatus(c) \/ Deliver(c) \/ Fail(c)

Next ==
    \/ \E p \in Pages : Reload(p) \/ \E kind \in Kind : Click(p, kind)
    \/ \E c \in calls : Serve(c)
    \/ \E e \in Executions : Progress(e)
    \/ Restart \/ ConnectionChanges

Spec == Init /\ [][Next]_vars

-----------------------------------------------------------------------------
(* Properties.                                                             *)

TypeOK ==
    /\ pages \in [Pages -> Page]
    /\ calls \subseteq Call
    /\ executions \in [Executions -> Execution \cup {Unborn}]
    /\ writesEnabled \in BOOLEAN
    /\ connected \in BOOLEAN

\* src/app/api/testnet/execution-canary/submit/route.ts:22, "The server gate and
\* stable idempotency key prevent an accidental second write": whatever pages
\* are open or reloaded, and whatever answers are lost and submissions retried,
\* KeeperHub runs the ping once.
OneExecution ==
    \A e, f \in Executions : Born(e) /\ Born(f) => e = f

Rank == [s \in Status \cup {"none"} |->
            CASE s = "none" -> 0 [] s = "pending" -> 1 [] s = "running" -> 2 [] OTHER -> 3]

\* A page's receipts follow the execution: until it is reloaded, a refresh never
\* reads out a status that the execution had left before the last one.
ReceiptsAdvance ==
    [][ \A p \in Pages :
          pages'[p] # Blank => Rank[pages[p].receipt] <= Rank[pages'[p].receipt] ]_vars

\* A page can be told only of an execution that KeeperHub runs, and of a status
\* that it has reached.
ReceiptIsReal ==
    \A p \in Pages :
        /\ pages[p].executionId # None => Born(pages[p].executionId)
        /\ pages[p].receipt # "none" =>
             /\ pages[p].executionId # None
             /\ Rank[pages[p].receipt] <= Rank[executions[pages[p].executionId].status]

\* No page is left disabled: whatever is refused, lost or restarted, one that is
\* loading waits for a request of that kind that is still to be answered or fail.
LoadingIsAwaited ==
    \A p \in Pages : pages[p].loading # "none" =>
        \E c \in calls : c.page = p /\ c.kind = pages[p].loading
=============================================================================
