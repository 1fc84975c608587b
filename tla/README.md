# FillPilot: models and proofs

TLA+ models of FillPilot (`src/`), checked with TLC on small instances, and
theorems about them proved with TLAPS for every value of their constants. Paths
below are relative to the application's own `src/` (so `server/db/work-queue.ts`
is `src/src/server/db/work-queue.ts`).

## 1. The system

| Component | State | Operations | What is hard | Properties that make it correct |
|---|---|---|---|---|
| Job rules, `domain/work.ts` | none (pure) | `canClaim`, `claimWorkItem`, `completeWorkItem`, `failWorkItem` | off-by-one at the last attempt, back-off | a job is claimed only when due and unheld; COMPLETE and DEAD are final |
| Work queue, `server/db/work-queue.ts`; worker, `worker/worker-cycle.ts` | `work_items` rows; each cycle's local variables | `claimDue`, `complete`, `fail`, enqueue; `runWorkerCycle` | concurrent workers, leases that expire under a slow worker, crashes, database calls that fail after their effect | exclusive leases, final jobs, every job ends, rows follow the job rules |
| Checkpoint handler, `worker/checkpoint-handler.ts` and `checkpoint-decision.ts`, `checkpoint-store.ts`, `cow-checkpoint-sources.ts` | `decisions` rows; what a `handle()` call has read | load goal, read status, read quote, record | the order and the clock move between awaits; redelivery; one of several calls fails | decisions warranted at the time they are dated, recorded before the job completes |
| Checkpoint policy, `domain/checkpoint.ts`, `cow-preflight.ts` | none (pure) | `decideCheckpoint`, quote validation | order of early returns, time boundaries | (through the handler) |
| Pre-signature routes, `app/api/goals/[id]/presign-*`, `executions/*`, `server/integrations/keeperhub-*` | `keeperhub_executions` rows; executions at KeeperHub | simulate, execute, poll status | requests race and die between submit and record; repeated requests; polls out of order; two networks | the ledger agrees with KeeperHub, final outcomes stay, only simulated orders are executed |
| Connection, `server/connections/*`, doctor route | `oauth_attempts`, the cookie | start, callback, doctor refresh | read-await-write of a whole record; expiry | a live connection is not lost; a wallet has its tokens; tokens go to the attempt that was approved |
| Goal lifecycle, `domain/goal.ts`, `replacement.ts` | goal and replacement state | `transitionGoal`, `transitionReplacement` | long legal sequences | one replacement at most, never two orders at once, an ended goal is ended |
| Goal drafts, `domain/goal-draft.ts`, `goal-composer.tsx`, `app/api/goals/route.ts` | the form; `goals` rows | edit, validate, save | decimal text at its limits; two clocks and zones; edits while a save is under way | amounts are exact; saved goals can run; the link opens the form's goal |
| Execution canary, `public-execution-canary.ts` and its panel | an execution at KeeperHub; panel state | simulate, submit, status | reloads, lost answers, a server restarted mid-submission | KeeperHub runs it once; receipts are real and only advance |
| Goal page, `goal-timeline`, `goal-preflight`, `authorization-review` and the history route | each panel's React state | load, simulate, refresh | fetches nothing orders or cancels | evidence reaches the panels; what is shown as verified is recorded; nothing waits for nothing |

How they interact: the worker and the queue meet only in PostgreSQL (row locks
and row state); the queue calls the handler, which awaits the database and CoW;
the routes share the database with each other and the worker, and KeeperHub
through idempotency keys. No component holds memory shared between requests. In
the hosted build the economic lifecycle is disabled: nothing yet moves a goal
out of DRAFT, posts an order or enqueues a checkpoint outside the tests, and
`worker/index.ts` does not run the cycle. The queue, the cycle, the handler and
the stores are complete and composed in `checkpoint-runtime.ts`; they are
modelled as that composition would run them.

## 2. Modules

| Module | Models | Uses |
|---|---|---|
| `Work` | `domain/work.ts` as operators | |
| `WorkItem` | abstract specification: the life those rules give ONE job | `Work` |
| `WorkQueue` | the SQL queue and any number of `runWorkerCycle` loops, with an arbitrary handler | `Work`, refines `WorkItem` per row |
| `CheckpointPolicy` | `decideCheckpoint`, quote and order-state rules | |
| `CheckpointWorker` | `WorkQueue` composed with the real handler; refines `WorkQueue` | `WorkQueue`, `CheckpointPolicy` |
| `Authorization` | abstract specification: what the ledger promises ONE order: one simulation row, one authorization row, one outcome | |
| `Executions` | the pre-signature routes, the ledger and KeeperHub | refines `Authorization` per order |
| `Connection` | one browser's OAuth attempts, in either store, with racing start, callback and doctor requests | |
| `Canary` | the public canary: its pages, its routes, the server's gate and KeeperHub | |
| `GoalPage` | the three panels of a goal's page, their fetches, and the ledger they read | refines `Authorization` per order |
| `GoalDraft` | `domain/goal-draft.ts`: reading and showing amounts, `validateGoalDraft` | |
| `AmountField` | one amount field, typed into (`FieldSpec`); reference definitions of what it should accept and what it is worth | `GoalDraft` |
| `Composer` | the goal form, its POSTs and the goals table | `GoalDraft` |
| `Lifecycle` | `transitionGoal` and `transitionReplacement`, with any order of events | |
| `MC*` | constants for TLC | |
| `WorkQueueProofs`, `CheckpointProofs`, `ExecutionsProofs`, `ConnectionProofs`, `CanaryProofs`, `GoalPageProofs`, `ComposerProofs`, `LifecycleProofs` | theorems | |

Throughout, one step is what runs between two awaits; a failure or a death of
the process may come at each of them.

**WorkQueue.** `rows` is the table (NULL lease = `NoLease`, no row = `ABSENT`);
`workers[w]` holds the local variables of the cycle w is in. `claimDue` is one
SQL statement but two steps, `SelectForUpdate` and `CommitClaim`, with the row
locked between them: SKIP LOCKED is the conjunct `~LockedByOther` of `Due`, and
any other UPDATE of the row waits on the same predicate. `Complete`/`Fail` are
the UPDATEs that change a row, `CompleteRejected`/`FailRejected` the same calls
when they change none. Because `complete()` is inside the `try`, its errors end
in `fail()`: `CompleteRejected`, and `CompleteErrs` for a call whose effect may
or may not have happened. `Crash` covers the process dying and a claim or a fail
that throws out of the cycle. `holder` and `usurped` are auxiliary.

**CheckpointWorker.** A job is the one checkpoint of the goal of its name, due
when `buildCheckpointWork` says. `calls[w]` is what w's `handle()` has read:
`LoadContext` (the clock is read as soon as `load()` answers),
`ReadStatus`/`StatusFails`, `ReadQuote`, `RecordDecision`; `StoreFails` is a
failing database call. `OrderMoves`, the order's life at CoW, is external and
runs in between. A decision carries its inputs; the table is a set because the
hash of the inputs is unique per goal. `endedAt`, `lastCause` and `redelivered`
are auxiliary.

**Executions.** One step per awaited call of a request. An order is its terms and
its network, which is what its UID digests; an execution at KeeperHub is named by
the order it pre-signs, because the idempotency key is. External: KeeperHub
answers a repeated key with the execution it has; executions go
pending, running, completed or failed, and publish their proof with or after
completion. A poll confirms whatever is neither pending, running nor failed and comes
with its proof, as `reconcileKeeperHubExecution` does. `RequestFails` stands for a
thrown error and for a dead process; one that dies with its ledger row or its
execution already made leaves it made. The auxiliary `lost` names the orders whose
request died between KeeperHub's answer and the ledger's row (`Recording`).

**Connection.** An attempt is a stored record that the cookie names; its OAuth
state and PKCE verifier are drawn with it, so they are identified with it. A
request copies the whole record, works on the copy through several awaits
(delete of an expired record, code exchange, wallet discovery) and writes all of
it back. The two stores differ in one thing that matters: the file is cut off
before it is written (`Torn`). External: KeeperHub redeems a code once and for
the attempt it was issued to; the user approves and may gain a wallet.

**Canary.** The server stores nothing, so the only memory of a submission is
KeeperHub's and the pages'. A submission has the stages the route awaits
(admitted, verified, posted) and outlives a reload of its page (`page = None`).
The server may be restarted with its write gate switched at any of them.

**GoalPage.** A load is sent, served (with the ledger of that moment) and
answered; a refresh is also reconciled, the moment KeeperHub is read, before the
ledger is updated. The routes that write the ledger are `Executions`'; here each
is the one step its effect on this goal's rows is. What makes that grouping
right is `Authorization`: the routes and the page's ledger both implement it,
order by order. In it a row is written once, an authorization's row only when
KeeperHub has the execution, and an outcome only when the execution has it and
only once. `taken` holds the keys under which another goal's rows stand
(`OtherGoal`): the key is the order's, so this goal's insert is then dropped.
`heard` counts the rows there were when the page learned of its own simulation,
`disturbed` holds the panels of which a load failed or an older answer came after a
newer one; both are auxiliary.

**GoalDraft, AmountField, Composer.** A text is a sequence of the characters an
amount can hold; parsing and formatting are modelled character by character,
because their result is what two properties are about. All recursion in them is
by recursive functions, and the reference values (`Places`, `PowerOfTen`) are
recursive functions of the position, so both can be reasoned about. A deadline is a
wall-clock time that names no zone; page and server read it each in its own. The
page validates by the time it was opened and in the market it was rendered for; the
server by its own clock and in the market its environment selects when it answers.
The route awaits the connection (`Authorize`) before it selects the market and checks
the text (`Check`), and the database (`Insert`) after. A row holds the amounts and the
deadline; the checkpoint follows from the deadline (`checkpointAt`).

**Lifecycle.** The two machines of a goal, refused events changing nothing. No
code couples them, so the model does not: their events come in any order.

Every `...Mut...` operator is a plausible mistake in the definition that follows
it. No specification uses them: they show that the properties notice.

## 3. Runs

| Run | Instance | Shows |
|---|---|---|
| `queue_safety` | 2 jobs, 2 workers, 3 attempts, lease 2, 4 ticks, 1 fault | `RowsCoherent`, `ExclusiveLease`, `EndedJobsStayEnded`, `OnlyLateWorkersUsurp`, and that each row refines `WorkItem` |
| `queue_liveness` | 1 job, 2 workers, 3 attempts, 1 fault | `EveryJobEnds` under `FairSpec` |
| `checkpoint_safety` | 4 kinds of goal, 2 workers, 1 fault, quotes above and below the floor, verified or not, living 0 or 2 ticks | `CompleteMeansRecorded`, `ReplaceIsWarranted`, `FilledIsNeverMissed`, `NeverDecidedEarly`, `OneDecisionPerDelivery`, refinement of `WorkQueue` |
| `checkpoint_below_floor` | one watching goal | finding 1 |
| `executions_safety` | 2 goals on different networks whose quotes agree, 2 requests | `LedgerAgreesWithRemote`, `OnlySimulatedIsSubmitted`, `RecordedIsTracked`, `OutcomesAreFinal`, and that each order refines `Authorization` |
| `executions_wrong_network` | the same | finding 2 |
| `connection_safety` | 2 attempts, 2 requests, 1 code each, either store | `ConnectionSurvives`, `WalletNeedsTokens`, `TokensMatchConsent` |
| `canary_safety` | 2 pages, room for 2 executions | `OneExecution`, `ReceiptIsReal`, `ReceiptsAdvance`, `LoadingIsAwaited` |
| `goal_page` | 1 order that another goal may make too, 2 loads and 2 refreshes at once | `VerifiedIsRecorded`, `EvidenceReachesPanels`, `WaitsAreAnswered`, `ReceiptGoesBackOnlyByOverlap`, and that the page's ledger refines `Authorization` |
| `amount_field` | every text of at most 7 of 6 characters, 2 decimals | `ParsesExactly`, `FormatsExactly` |
| `composer_safety` | 4 forms (one blank), 2 saves at once, 2 goals, 2 zones, 2 markets, 1 tick | `SavedGoalsCanRun`, `LinkOpensThisGoal`, `SavedAsPreviewed`, `SavingIsAwaited` |
| `lifecycle` | 2 goals | `ReplacedAtMostOnce`, `NeverTwoOrders`, `OneOrderStands`, `WritesEndForGood` |

`queue_safety` also checks `TypeOK`. The other modules' type invariants are left to
the theorems of section 5, which hold them for every instance.

**Bounds.** Time is in ticks and every duration is scaled so that its
boundaries are met: a lease of 2 ticks can be live, expire under a worker and be
recovered within `MaxTime`; 3 attempts give a first, a middle and a last failure;
the back-off reaches its cap (2); the checkpoint opens 2 ticks before the
deadline at 4, so `MaxTime` 5 passes the deadline; seconds of 3 ticks make the
last partial second real. `Slack` stops the clock one tick after the last
instant a row waits for: nothing depends on later time. `MaxFaults` = 1 is one
crash or lost acknowledgement, in any place; overrun leases need none. Two
workers are enough for every race on a row (its lock, its lease and its late
loser). Two requests and two goals give every pair of racing routes; the number
of requests over time is not bounded in `Executions`, nor that of clicks,
reloads, loads and answers in the pages' modules. In `Connection` an attempt
expires at the first tick (`MaxAge` 0): before, at and after are all met. In
`goal_page` the timeline is the only panel that loads, since the two panels that
load do so independently; `GoalPageProofs` covers both. In `composer_safety` one
tick is enough to make a deadline that the page accepts one that the server
refuses; the two markets differ in the decimals of the sell token, so that a text
may be an order of one and not of the other, or of both with different amounts. Seven characters hold two whole digits, a point, a place more than the
token has, and blanks on both sides. The theorems of section 5 have none of
these bounds.

**Symmetry** is used in safety runs only, over workers, requests, attempts,
pages, executions, saves or fetches, which no other constant mentions.

**Deadlock checking** is off where the system may really stop: queues drain and
clocks stop at their bound, requests on an order all end, goals and replacements
reach their last state. The other runs check it.

**Fairness** (`FairSpec`, only for `EveryJobEnds`): each worker's own steps
(cycle or handler) are weakly fair, because a worker is meant to loop and every
call it awaits returns or throws; time is weakly fair. Crashes and failing
calls are not fair and are finitely many. Claims are not counted as attempts, so
without that last assumption a job that kills its worker is redelivered forever:
a real limit of the code, see the hazards. The 40-tick bound of that run is never
reached before the job ends. In the browser nothing is fair: a fetch may hang
for as long as it likes. What is checked there instead is that nothing waits
without something to wait for (`LoadingIsAwaited`, `SavingIsAwaited`,
`WaitsAreAnswered`).

## 4. Findings

Shown by a run of their own:

1. **A quote below the floor kills a checkpoint**
   (`worker/cow-checkpoint-sources.ts:19`): the preflight throws, so no decision is
   recorded; the rule's test promises that the goal "keeps watching".
2. **presign-execution ignores the goal's network**
   (`presign-execution/route.ts:65`): a Sepolia draft is submitted as a Base order.
   Needs mainnet writes enabled on a server that has testnet drafts.

Also noticed. Each is stated as an invariant at the end of its module, quoting
the text it comes from, and the code does not keep it: added to the INVARIANTS
of the component's configuration, TLC shows how.

| Invariant | What happens |
|---|---|
| `WorkQueue!VisibleToOnlyOneWorker` | `complete` and `fail` match `state = 'LEASED'`, not the lease (`work-queue.ts:62,96`): a worker that overran its lease fails the job of its successor, and if the reason is retryable a third worker gets it meanwhile. With the present handler no reason is retryable. `ExclusiveLease` and `OnlyLateWorkersUsurp` say what does hold. |
| `CheckpointWorker!TransientReadsAreRetried` | Every failure of the status read becomes VALIDATION, which is terminal (`checkpoint-handler.ts:91`), also "retry later". |
| `Executions!NoSuccessfulSimulationExists` | Drafts with the same order share a simulation row (`repository.ts:210`), so the second one's review denies that its simulation exists. Both goals must be testnet drafts. |
| `Connection!FailedExchangeHoldsNothing` | Wallet discovery fails after the exchange, and its error is reported as that of the exchange (`callback/route.ts:38`, `mcp-oauth.ts:137`). |
| `Connection!ExpiredMeansUnread` | Whatever fails after the record was read, KeeperHub or the write back, is answered as a connection that could not be read (`app/api/doctor/route.ts:48-55,98`). |
| `GoalPage!ReadingMeansLoading` | A goal the history does not list leaves the timeline reading for good: nothing tells "not found" from "not yet" (`goal-timeline.tsx:53,72`). |
| `GoalPage!GuardedMeansUnauthorized` | A refresh changes the receipt, not the rows: the timeline says "verified" and "not created" of one authorization (`goal-timeline.tsx:87,162`). |
| `GoalPage!HeldMeansUnsubmitted` | The review goes by the latest row's evidence, which a submitted order's row carries too (`presign-execution/route.ts:86`, `authorization-review.tsx:61`). Needs "review" among the panels. |
| `Composer!NotSavedMeansNotSaved` | The answer to a save is lost after the insert (`goal-composer.tsx:172-174`). |
| `Composer!DraftSavedMeansThisDraft` | The form was edited while its save was under way (`goal-composer.tsx:165-167`). |
| `Composer!PreviewIsThePlan` | Browser and server in different zones read one deadline as two instants (`goal-composer.tsx:39`, `repository.ts:23`). `SavedAsPreviewed` says what does hold: the times shown are off by the difference of the zones and by nothing else. The amounts are the text's in the market the goal is saved for, which is not the one shown if the selected network changed since the page was rendered (`new/page.tsx:8`, `goals/route.ts:30`). |

## 5. Proofs

All theorems hold for any constants that satisfy the named ASSUMEs.

*Assumptions.* Durations and limits are natural numbers, goals well-typed, model
values distinct. `DoublingAssumption` (powers of two are naturals) is arithmetic
the backends lack. `CheckpointWorkerAssumption` fixes `HandlerReasons` to the two
the handler throws. `ExecutionsAssumption` types the quotes and networks.
`GoalDraftAssumption` orders the two durations of a goal as the code's constants
are; `AmountFieldAssumption` makes a token's decimals positive. `GoalPageAssumption` names the panels. TLC evaluates each on every run.

*WorkQueueProofs.* Inductive invariant `IInv`: types; `RowsCoherent`; a cycle's
`now` is in the past (`NowPast`); a row between SELECT and UPDATE is locked by
one worker and still claimable at that worker's `now` (`LocksHeld`: without it
`CommitClaim` could overwrite a live lease); `ExclusiveLease`; and the worker
within its lease is the recorded holder (`HolderKnown`: without it a foreign end
of a lease would not be seen as one). Results: `TypeCorrect`, `RowsAgree`,
`LeaseIsExclusive`, `EndedStayEnded`, `OnlyLateUsurp`, and the refinement
`RowsAreWorkItems`.

*CheckpointProofs.* First `HandlerKeepsQueue`: a handler step is a queue step or
leaves the queue alone, so the queue's theorems carry over. Then four invariants
on top of the queue's:

- `DecisionsSound`: each call's inputs were read in order from the past (its
  clock before the order's state, so an order seen open had not ended before that
  clock), and each recorded decision is `decideCheckpoint` of such inputs. It
  gives `CheckpointTypeCorrect`, `ReplacementsWarranted`, `FillsNeverMissed`.
- `CompletingIsDecided`: a worker about to complete a job has its decision in
  the table. It gives `CompleteIsRecorded`.
- `QueueTimely` and `CheckpointsTimely`: no row, cycle, call or decision is dated
  before its job first falls due; the back-off only moves a row later. They give
  `NoDecisionIsEarly`.
- `Deliveries`: no failure of this handler is retried, so until a lease expires
  a job has one worker, and nothing is decided before that worker's handler is
  done. It gives `DeliveredOnceDecidedOnce`.

*ExecutionsProofs.* Inductive `IInv`: the properties; the rows that name an
execution are those of pre-signatures (`LedgerNames`: it keeps a poll from ever
writing a simulation's row); only completed executions have a proof
(`ProofsFollowCompletion`: a poll confirms by the proof, whatever the status is
called); and what a request in flight knows when it acts (`Knows`): its order was
simulated well, its execution exists, or the final outcome KeeperHub told it lasts.
Results: `ExecutionsTypeCorrect`, `LedgerTellsTheTruth`, `SimulatedBeforeSubmitted`,
`OutcomesStayFinal`, and with `TrackingLasts` (an execution leaves a request's hands
only into the ledger, where it stays, or into `lost`) `RecordedStaysTracked`. The
refinement `RoutesAreAuthorizations` needs one more invariant, `OrdersSound`: an
authorization's row never reads SIMULATED. With it every step of a route or of
KeeperHub changes at most one order, and that one by a step of `Authorization`.

*ConnectionProofs.* Spent codes were issued (`SpentWereIssued`); the copy a
request carries holds tokens only of its attempt's approval, and a wallet only
with tokens (`RequestsSound`); a record found expired is expired still, gone, or
stored again since (`FoundExpired`: what makes the late delete harmless but for
`revived`). Results: `ConnectionTypeCorrect`, `WalletsHaveTokens`,
`TokensWereApproved`, `ConnectionsSurvive`.

*CanaryProofs.* Every execution has the one key (`KeysFixed`), each request's
answer tells what is so and is no older than what its page shows (`CallsReal`),
and a page waits for one request at most (`OneWaiting`). Results:
`CanaryTypeCorrect`, `CanaryRunsOnce`, `CanaryReceiptsReal`,
`CanaryReceiptsAdvance`, `CanaryNeverStuck`.

*GoalPageProofs.* The ledger names only executions KeeperHub has and outcomes
they reached (`LedgerTrue`); every view shown or on its way is of the ledger as
it was (`ViewsTrue`); a refresh's outcome is KeeperHub's and, once served, the
ledger's (`RefreshesTrue`), so `ReceiptTrue`; two refreshes that meet are marked
(`OverlapsKnown`); what was `heard` is in the ledger, and every undisturbed
panel shows it or has a load that will (`HeardRows`, `PanelsReached`). Results: `GoalPageTypeCorrect`,
`VerifiedStaysRecorded`, `EvidenceReaches`, `WaitsStayAnswered`,
`ReceiptsAdvance`. `Unique` (an order has one row of each kind, as the unique index
of the table has it) gives the refinement `PageLedgerIsAuthorizations`: appending a
row or settling one touches the rows of one order.

*ComposerProofs.* First the amounts, for any text of any length and any positive number of
decimals. Reading and writing a number are recursive functions, and the induction
theorems of the library are out of the prover's reach, so the induction is built
from the well-foundedness of < alone: a set of naturals has a least member
(`LeastNatural`); so a set that has 0 and every successor has every number
(`SetInduction`, `StrongInduction`); so a recursive function on 0..n exists and is
the one its equation describes (`RecursionExists`). From that: what `BigInt` reads
is Horner's rule (`BigIntIsHorner`) and equals the sum of places (`PlacesAddUp`);
zeros behind multiply and zeros before do nothing (`ZerosBehind`, `ZerosBefore`);
the pattern and the length check of `parseTokenAmount` let through just the decimals
of the reference definition (`MatchesDecimals`), with their value (`DecimalValue`); and a number written out
reads back as itself (`ToStringReadsBack`). Results: `AmountsAreExact`,
`PreviewsReadBack`.

Then the form. The invariant says what a save under way has been checked for
(`SavesSound`) and of the table that `GoalsCanRun`. Results:
`ComposerTypeCorrect`, `SavedGoalsRun`, `LinkOpensIt`, `SavingNeverStuck`.
`SavedIsPreviewed` adds `Previewed`: what is checked and what is saved is what its own
text makes in the server's zone and the save's market, and what the page links to is
a text that it accepted; two readings of one text that are accepted, in whatever
zones and at whatever times, have the amounts of their markets and differ in their
times by the zones (`ReadTwice`).

*LifecycleProofs.* What each state says has happened: `Counted` for goals,
`Stands` for replacements. Results: `LifecycleTypeCorrect`, `ReplacesOnce`,
`NoTwoOrders`, `OneStands`, `WritesEnd`.

*Only model-checked:* `EveryJobEnds`, because liveness under fairness is beyond the
prover. The two findings of section 4 that have runs are counterexamples.

## 6. Not modelled

Rendering, logging, encryption, hashing, ABI encoding, SQL connection handling
and read-only pages have no state change a property is about. Nor are modelled:

- `validateGoalWindow`, which nothing calls, and the handler's check of a job's
  kind, of which there is one;
- in the connection: client registration, the SDK's own token refresh, the seal
  of the cookie, and the doctor's balances, which are read and shown;
- the wallet's row of the connections table, updated with each saved goal;
- parsing of the environment, receipts' hashing, the canary's contract, scripts;
- the remaining components of the browser, which fetch once and show.

Abstracted: order details beyond terms and network; HTTP headers; the poll hint.

`Lifecycle` is not composed with the worker: no code applies a checkpoint's
decision to a goal or drives a replacement. Once that code exists, its module
should compose `CheckpointWorker`, `Lifecycle` and `Executions`, and two hazards
listed without a property become stateable: a goal left WATCHING past its
deadline, and the redelivery of a job without limit.
