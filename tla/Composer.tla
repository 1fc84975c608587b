------------------------------ MODULE Composer ------------------------------
(***************************************************************************)
(* Drafting a goal:                                                        *)
(*   src/components/goal-composer/goal-composer.tsx                        *)
(*   src/app/api/goals/route.ts, saveDraftGoal of src/server/db            *)
(* The page checks what is typed against the time it was opened, in the    *)
(* market it was rendered for, and sends the text; the server checks the   *)
(* text again, by its own clock, in its own zone and in the market it is   *)
(* configured for by then, and inserts a goal.  Nothing holds the page     *)
(* while a save is under way: the user may edit, save again or leave, and  *)
(* the answers come in any order or not at all.                            *)
(*                                                                         *)
(* External: the network that the environment selects, which may change    *)
(* from one rendering or request to the next; it is the market of either.  *)
(* The two clocks agree, only their zones may differ.  The wallet's row of *)
(* the connections table, which the insert keeps up to date in the same    *)
(* transaction, is left out.  `edited` is auxiliary, and so are a goal's   *)
(* `input` and `checkedAt`.                                                *)
(***************************************************************************)
EXTENDS GoalDraft

CONSTANTS
    Inputs,         \* what may be typed
    Blank,          \* the form as it opens
    Saves,          \* bounds the saves under way
    MaxGoals,       \* bound: the goals saved
    MaxTime,        \* bound: the clock stops here
    BrowserZones,   \* the zones a browser may be in
    ServerZone,
    Markets         \* of the networks that may be selected

ASSUME ComposerAssumption ==
    /\ Inputs \subseteq Input /\ Blank \in Input
    /\ MaxGoals \in Nat /\ MaxTime \in Nat
    /\ BrowserZones \subseteq Int /\ ServerZone \in Int
    /\ Markets \subseteq Market

VARIABLES
    browserZone,
    connected,      \* external: the browser's connection knows a wallet
    now,
    page,           \* the composer's state
    edited,         \* aux: the last edit was made while the page waited for a save
    saves,          \* the POSTs under way
    goals           \* the goals table

vars == <<browserZone, connected, now, page, edited, saves, goals>>

Page == [market : Markets, input : Input, validationNow : Nat, submitted : BOOLEAN,
         savedGoalId : Nat,             \* 0 for none
         saveStatus : {"none", "saving", "saved", "error", "unreached"}]

NoMarket == [absent |-> "market"]

\* A save whose page has given up, or gone, may still be at work.
Save == [stage : {"idle", "sent", "authorized", "checked", "answered"},
         waiting : BOOLEAN, input : Input, market : Markets \cup {NoMarket},
         draft : Draft \cup {Rejected}, checkedAt : Nat, id : Nat]

NoSave == [stage |-> "idle", waiting |-> FALSE, input |-> Blank, market |-> NoMarket,
           draft |-> Rejected, checkedAt |-> 0, id |-> 0]

\* A row: the goal's market, amounts and deadline.
Goal == [input : Input, checkedAt : Nat, market : Markets, sellAmount : Int,
         preferredBuyAmount : Int, minimumBuyAmount : Int, deadline : Nat]

Opened(market) ==
    [market |-> market, input |-> Blank, validationNow |-> now, submitted |-> FALSE,
     savedGoalId |-> 0, saveStatus |-> "none"]

Init ==
    /\ browserZone \in BrowserZones
    /\ connected \in BOOLEAN
    /\ now = 0
    /\ \E market \in Markets : page = Opened(market)
    /\ edited = FALSE
    /\ saves = [s \in Saves |-> NoSave]
    /\ goals = <<>>

\* The text in the form, read by the page as an order of a market.
ReadIn(market) == validateGoalDraft(page.input, page.validationNow, browserZone, market)

\* validation.draft: what the preview shows, judged by the time the page opened.
Preview == ReadIn(page.market)

-----------------------------------------------------------------------------
(* The page.                                                               *)

Waiting == \E s \in Saves : saves[s].waiting

\* A mistake: the link to the last goal stays.
UpdateMutLink(input) ==
    /\ input # page.input
    /\ page' = [page EXCEPT !.input = input, !.submitted = FALSE]
    /\ edited' = Waiting
    /\ UNCHANGED <<browserZone, connected, now, saves, goals>>

\* update(): another text; what was said of the last one is cleared.
Update(input) ==
    /\ input # page.input
    /\ page' = [page EXCEPT !.input = input, !.submitted = FALSE,
                            !.savedGoalId = 0, !.saveStatus = "none"]
    /\ edited' = Waiting
    /\ UNCHANGED <<browserZone, connected, now, saves, goals>>

Submit ==
    /\ page' = [page EXCEPT !.submitted = TRUE]
    /\ UNCHANGED <<browserZone, connected, now, edited, saves, goals>>

\* The button asks for a valid preview only, also while a save is under way.
SaveDraft(s) ==
    /\ saves[s].stage = "idle"
    /\ Preview # Rejected
    /\ page' = [page EXCEPT !.saveStatus = "saving"]
    /\ saves' = [saves EXCEPT ![s] = [NoSave EXCEPT !.stage = "sent", !.waiting = TRUE,
                                                    !.input = page.input]]
    /\ UNCHANGED <<browserZone, connected, now, edited, goals>>

\* The link to the goal, or the error.
Deliver(s) ==
    /\ saves[s].stage = "answered" /\ saves[s].waiting
    /\ page' = IF saves[s].id # 0
               THEN [page EXCEPT !.saveStatus = "saved", !.savedGoalId = saves[s].id]
               ELSE [page EXCEPT !.saveStatus = "error"]
    /\ saves' = [saves EXCEPT ![s] = NoSave]
    /\ UNCHANGED <<browserZone, connected, now, edited, goals>>

\* A mistake: a fetch that throws is not caught.
UnreachedMutUncaught(s) ==
    /\ saves[s].stage # "idle" /\ saves[s].waiting
    /\ saves' = [saves EXCEPT ![s].waiting = FALSE]
    /\ UNCHANGED <<browserZone, connected, now, page, edited, goals>>

\* The network gives up, before or after the server has had the request.
Unreached(s) ==
    /\ saves[s].stage # "idle" /\ saves[s].waiting
    /\ page' = [page EXCEPT !.saveStatus = "unreached"]
    /\ saves' = [saves EXCEPT ![s].waiting = FALSE]
    /\ UNCHANGED <<browserZone, connected, now, edited, goals>>

Reload ==
    /\ \E market \in Markets : page' = Opened(market)
    /\ saves' = [s \in Saves |-> [saves[s] EXCEPT !.waiting = FALSE]]
    /\ edited' = FALSE
    /\ UNCHANGED <<browserZone, connected, now, goals>>

-----------------------------------------------------------------------------
(* The route.                                                              *)

\* No connection, no database, an invalid draft: an error is the answer.
Refuse(s) ==
    /\ saves[s].stage \in {"sent", "authorized", "checked"}
    /\ saves' = [saves EXCEPT ![s].stage = "answered"]
    /\ UNCHANGED <<browserZone, connected, now, page, edited, goals>>

\* A mistake: the server takes the page's word for the time.
ServerNowMutPage == page.validationNow

\* saveDraftGoal asks its own clock.
ServerNow == now

\* readOAuthAttempt finds the wallet's connection.
Authorize(s) ==
    /\ saves[s].stage = "sent" /\ connected
    /\ saves' = [saves EXCEPT ![s].stage = "authorized"]
    /\ UNCHANGED <<browserZone, connected, now, page, edited, goals>>

\* A mistake: the profile is not passed on, and a default stands in for it.
DraftMarketMutDefault(market) == CHOOSE base \in Markets : TRUE

\* saveDraftGoal passes the selected profile on.
DraftMarket(market) == market

\* The network is selected, and the draft is checked; the insert comes later.
Check(s) ==
    \E market \in Markets :
      LET draft == validateGoalDraft(saves[s].input, ServerNow, ServerZone,
                                     DraftMarket(market))
      IN  /\ saves[s].stage = "authorized"
          /\ draft # Rejected
          /\ saves' = [saves EXCEPT ![s].stage = "checked", ![s].market = market,
                                    ![s].draft = draft, ![s].checkedAt = now]
          /\ UNCHANGED <<browserZone, connected, now, page, edited, goals>>

Row(s) ==
    LET draft == saves[s].draft
    IN  [input |-> saves[s].input, checkedAt |-> saves[s].checkedAt,
         market |-> saves[s].market, sellAmount |-> draft.sellAmount,
         preferredBuyAmount |-> draft.preferredBuyAmount,
         minimumBuyAmount |-> draft.minimumBuyAmount, deadline |-> draft.deadline]

\* The transaction that inserts the draft, then the answer with its identifier;
\* or an error, when the commit or the end of the session is not confirmed.
Insert(s) ==
    /\ saves[s].stage = "checked" /\ Len(goals) < MaxGoals
    /\ goals' = Append(goals, Row(s))
    /\ \E id \in {0, Len(goals')} :
          saves' = [saves EXCEPT ![s].stage = "answered", ![s].id = id]
    /\ UNCHANGED <<browserZone, connected, now, page, edited>>

Forget(s) ==
    /\ saves[s].stage = "answered" /\ ~saves[s].waiting
    /\ saves' = [saves EXCEPT ![s] = NoSave]
    /\ UNCHANGED <<browserZone, connected, now, page, edited, goals>>

-----------------------------------------------------------------------------
Tick ==
    /\ now < MaxTime /\ now' = now + 1
    /\ UNCHANGED <<browserZone, connected, page, edited, saves, goals>>

ConnectionChanges ==
    /\ connected' = ~connected
    /\ UNCHANGED <<browserZone, now, page, edited, saves, goals>>

SaveStep(s) ==
    \/ Authorize(s) \/ Check(s) \/ Insert(s) \/ Refuse(s)
    \/ Deliver(s) \/ Unreached(s) \/ Forget(s)

Next ==
    \/ \E input \in Inputs : Update(input)
    \/ Submit \/ Reload \/ Tick \/ ConnectionChanges
    \/ \E s \in Saves : SaveDraft(s) \/ SaveStep(s)

Spec == Init /\ [][Next]_vars

-----------------------------------------------------------------------------
(* Properties.                                                             *)

TypeOK ==
    /\ browserZone \in BrowserZones
    /\ connected \in BOOLEAN
    /\ now \in Nat
    /\ page \in Page
    /\ edited \in BOOLEAN
    /\ saves \in [Saves -> Save]
    /\ goals \in Seq(Goal)

\* However long the page has been open and whatever zone it is in, a goal in the
\* table had its checkpoint still ahead when the server accepted it, and its
\* floor does not exceed the amount its first order asks for.
SavedGoalsCanRun ==
    \A n \in DOMAIN goals :
        LET goal == goals[n]
        IN  /\ goal.checkedAt < checkpointAt(goal.deadline)
            /\ checkpointAt(goal.deadline) < goal.deadline
            /\ goal.minimumBuyAmount \in 1..goal.preferredBuyAmount

\* "Open saved goal" leads to a goal that is saved, and it is the goal of the
\* text in the form: a link never outlives the text it was given for, unless the
\* text was changed while the answer was still to come.
LinkOpensThisGoal ==
    page.savedGoalId # 0 =>
        /\ page.savedGoalId \in DOMAIN goals
        /\ edited \/ goals[page.savedGoalId].input = page.input

\* What the link opens was previewed, as long as the form holds its text: the
\* amounts are the text's, exactly, in the units of the goal's own market, which
\* are those shown unless the page was rendered for another; and the deadline,
\* with the checkpoint that follows from it, differs from the one shown by
\* nothing but the difference between the zones of the browser and the server.
SavedAsPreviewed ==
    LET saved == goals[page.savedGoalId]
        read == ReadIn(saved.market)
        apart == browserZone - ServerZone
    IN  (page.savedGoalId # 0 /\ saved.input = page.input) =>
            /\ Preview # Rejected /\ read # Rejected
            /\ \A field \in {"sellAmount", "preferredBuyAmount", "minimumBuyAmount"} :
                  saved[field] = read[field]
            /\ saved.deadline = Preview.deadline + apart
            /\ checkpointAt(saved.deadline) = Preview.checkpointAt + apart

\* The form says "Saving draft goal" only while it waits for a save: of two under
\* way, the answer to the first does not leave it waiting for nothing.
SavingIsAwaited == page.saveStatus = "saving" => Waiting

\* src/components/goal-composer/goal-composer.tsx:174, "Could not reach
\* FillPilot. Your goal was not saved.": it was not.  The code does not ensure it
\* (see the README).
NotSavedMeansNotSaved ==
    page.saveStatus = "unreached" =>
        \A n \in DOMAIN goals : goals[n].input # page.input

\* src/components/goal-composer/goal-composer.tsx:167, "Draft saved.": the draft
\* in the form is.  The code does not ensure it (see the README).
DraftSavedMeansThisDraft ==
    page.saveStatus = "saved" => \E n \in DOMAIN goals : goals[n].input = page.input

\* src/components/goal-composer/goal-composer.tsx:242, "inspect the deterministic
\* plan": the checkpoint that is previewed is that of the goal which is saved.
\* The code does not ensure it (see the README).
PreviewIsThePlan ==
    (page.savedGoalId # 0 /\ goals[page.savedGoalId].input = page.input) =>
        checkpointAt(goals[page.savedGoalId].deadline) = Preview.checkpointAt
=============================================================================
