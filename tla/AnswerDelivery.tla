--------------------------- MODULE AnswerDelivery ---------------------------
(***************************************************************************)
(* How a human's answer to an approval reaches the clone at least once.    *)
(*                                                                         *)
(* packages/core/src/clone.ts: answerApproval writes the answer on the     *)
(* approval as 'pending', records the permission it grants, stores the     *)
(* event, marks it 'delivered' and posts it; #handleHumanAnswer and        *)
(* #settleTurn mark or reopen it around the turn; after a restart          *)
(* #reconcileUndeliveredAnswers delivers what is still 'pending'.          *)
(*                                                                         *)
(* The inbox itself is InboxDelivery; here it is its rows, how many copies *)
(* of each answer wait or are held, and the pump's current event.  The     *)
(* answer to an approval is identified by the approval: updateApproval     *)
(* accepts one, and the event's id is made of the approval and its time.   *)
(***************************************************************************)
EXTENDS Naturals, FiniteSets

CONSTANTS
  Approvals,
  None,          \* no approval
  MaxRestarts,   \* bound: crashes and restarts
  MaxFaults,     \* bound: failures of the operations in Faulty
  Faulty,        \* which operations may fail, a subset of Operation
  TurnsFail,     \* bound: when turns may fail: "never", "posted": once answerApproval
                 \* is over, or "alone": once the restore pass is over too, and no
                 \* other copy of the answer waits
  UsageLimit     \* whether turns may meet the usage limit

Operation == {"grant", "put", "mark", "write", "reopen", "forget"}

ASSUME AnswerAssumption ==
  /\ None \notin Approvals /\ MaxRestarts \in Nat /\ MaxFaults \in Nat
  /\ Faulty \subseteq Operation /\ TurnsFail \in {"never", "posted", "alone"}
  /\ UsageLimit \in BOOLEAN

VARIABLES
  (* durable *)
  approval,   \* "open", "answered" or "withdrawn"
  delivery,   \* answerDelivery: "none", "pending" or "delivered"
  consented,  \* answers that consent to a permission request, by an account
  grants,     \* how many permission grants are recorded for each approval
  rows,       \* answers with a row in the inbox store
  (* memory of the process *)
  call,       \* where answerApproval is, for each approval
  writing,    \* answers whose put by post is running
  queued, held,  \* copies of each answer in the queue, and held by the limit
  blocked,    \* whether the usage limit is closed
  handled,    \* #handledHumanAnswerIds
  turn, pc,   \* the answer the pump has taken, and where the pump is
  posted,     \* #postedBeforeRestored
  restore,    \* where #restoreUnread is
  claimed, todo, cur,  \* claimed rows, undelivered answers left, the current one
  (* bounds and history *)
  life, answeredIn,  \* the number of this process; the one that took each answer
  faults,
  refused,    \* answers whose grant could not be recorded, which is journaled
  concluded,  \* answers a turn has answered for
  concludedNow,  \* those of them in this life
  failedNow      \* answers whose turn has failed in this life

durableVars == <<approval, delivery, consented, grants, rows>>
inboxVars   == <<writing, queued, held, blocked, posted>>
pumpVars    == <<handled, turn, pc>>
restoreVars == <<restore, claimed, todo, cur>>
historyVars == <<life, answeredIn, concluded, concludedNow, failedNow>>
vars == <<durableVars, call, inboxVars, pumpVars, restoreVars, historyVars, faults, refused>>

Copies == 0..2

TypeOK ==
  /\ approval \in [Approvals -> {"open", "answered", "withdrawn"}]
  /\ delivery \in [Approvals -> {"none", "pending", "delivered"}]
  /\ consented \subseteq Approvals /\ grants \in [Approvals -> Copies]
  /\ rows \subseteq Approvals
  /\ call \in [Approvals -> {"idle", "grant", "put", "mark", "post"}]
  /\ writing \subseteq Approvals /\ queued \in [Approvals -> Copies]
  /\ held \in [Approvals -> Copies] /\ blocked \in BOOLEAN
  /\ handled \subseteq Approvals /\ turn \in Approvals \cup {None}
  /\ pc \in {"next", "mark", "turn", "reopen", "forget"} /\ (turn = None <=> pc = "next")
  /\ posted \subseteq Approvals /\ claimed \subseteq Approvals /\ todo \subseteq Approvals
  /\ restore \in {"claim", "queue", "list", "grant", "put", "mark", "post", "done"}
  /\ cur \in Approvals \cup {None}
  /\ life \in 0..MaxRestarts /\ answeredIn \in [Approvals -> 0..MaxRestarts]
  /\ faults \in 0..MaxFaults /\ refused \subseteq Approvals
  /\ concluded \subseteq Approvals /\ concludedNow \subseteq concluded
  /\ failedNow \subseteq Approvals

Init ==
  /\ approval = [a \in Approvals |-> "open"] /\ delivery = [a \in Approvals |-> "none"]
  /\ consented = {} /\ grants = [a \in Approvals |-> 0] /\ rows = {}
  /\ call = [a \in Approvals |-> "idle"]
  /\ writing = {} /\ queued = [a \in Approvals |-> 0] /\ held = [a \in Approvals |-> 0]
  /\ blocked = FALSE /\ handled = {} /\ turn = None /\ pc = "next"
  /\ posted = {} /\ restore = "claim" /\ claimed = {} /\ todo = {} /\ cur = None
  /\ life = 0 /\ answeredIn = [a \in Approvals |-> 0]
  /\ faults = 0 /\ refused = {} /\ concluded = {} /\ concludedNow = {} /\ failedNow = {}

-----------------------------------------------------------------------------
Fails(op) == op \in Faulty /\ faults < MaxFaults /\ faults' = faults + 1
Works     == UNCHANGED faults

Goto(a, from, to) == call[a] = from /\ call' = [call EXCEPT ![a] = to]

(* #markAnswerDelivered: only what is still pending is marked.               *)
MarkDelivered(a) ==
  delivery' = IF delivery[a] = "pending" THEN [delivery EXCEPT ![a] = "delivered"] ELSE delivery

(* post: the event is queued, and its row is written once more.              *)
PostEvent(a) ==
  /\ queued' = [queued EXCEPT ![a] = @ + 1] /\ writing' = writing \cup {a}
  /\ posted' = posted \cup {a}
  /\ UNCHANGED <<held, blocked>>

(* #recordPermissionGrantIfConsented: the journal first, then the grant; a   *)
(* failure of either leaves no grant, and the answer goes on.                *)
RecordGrant(a) ==
  \/ a \in consented /\ grants' = [grants EXCEPT ![a] = @ + 1] /\ Works /\ UNCHANGED refused
  \/ a \in consented /\ Fails("grant") /\ refused' = refused \cup {a} /\ UNCHANGED grants
  \/ a \notin consented /\ Works /\ UNCHANGED <<grants, refused>>

-----------------------------------------------------------------------------
(* answerApproval, and the clone's own withdrawal of its question. *)

Answer(a) ==   \* updateApproval: one answer, and none once withdrawn
  /\ approval[a] = "open" /\ approval' = [approval EXCEPT ![a] = "answered"]
  /\ delivery' = [delivery EXCEPT ![a] = "pending"]
  /\ consented' \in {consented, consented \cup {a}}
  /\ answeredIn' = [answeredIn EXCEPT ![a] = life]
  /\ Goto(a, "idle", "grant")
  /\ UNCHANGED <<grants, rows, inboxVars, pumpVars, restoreVars, life, concluded,
                 concludedNow, failedNow, faults, refused>>

Withdraw(a) ==
  /\ approval[a] = "open" /\ approval' = [approval EXCEPT ![a] = "withdrawn"]
  /\ UNCHANGED <<delivery, consented, grants, rows, call, inboxVars, pumpVars, restoreVars,
                 historyVars, faults, refused>>

Grant(a) ==
  /\ Goto(a, "grant", "put") /\ RecordGrant(a)
  /\ UNCHANGED <<approval, delivery, consented, rows, inboxVars, pumpVars, restoreVars,
                 historyVars>>

Put(a) ==   \* only a row that is known to be stored may be marked delivered
  /\ \/ Goto(a, "put", "mark") /\ rows' = rows \cup {a} /\ Works
     \/ Goto(a, "put", "post") /\ Fails("put") /\ rows' \in {rows, rows \cup {a}}
  /\ UNCHANGED <<approval, delivery, consented, grants, inboxVars, pumpVars, restoreVars,
                 historyVars, refused>>

Mark(a) ==
  /\ Goto(a, "mark", "post")
  /\ (MarkDelivered(a) /\ Works) \/ (Fails("mark") /\ UNCHANGED delivery)
  /\ UNCHANGED <<approval, consented, grants, rows, inboxVars, pumpVars, restoreVars,
                 historyVars, refused>>

Post(a) ==
  /\ Goto(a, "post", "idle") /\ PostEvent(a)
  /\ UNCHANGED <<durableVars, pumpVars, restoreVars, historyVars, faults, refused>>

WriteEnds(a) ==
  /\ a \in writing /\ writing' = writing \ {a}
  /\ (rows' = rows \cup {a} /\ Works) \/ (Fails("write") /\ UNCHANGED rows)
  /\ UNCHANGED <<approval, delivery, consented, grants, call, queued, held, blocked, posted,
                 pumpVars, restoreVars, historyVars, refused>>

-----------------------------------------------------------------------------
(* The pump. *)

\* mutant: the answer is not remembered as handled
TakenForgetful(a) == handled' = handled \cup {}

Taken(a) == handled' = handled \cup {a}

Take(a) ==   \* #handleHumanAnswer; a second copy of a handled answer is dropped
  /\ pc = "next" /\ ~blocked /\ queued[a] > 0
  /\ queued' = [queued EXCEPT ![a] = @ - 1] /\ turn' = a
  /\ pc' = IF a \in handled THEN "forget" ELSE "mark"
  /\ Taken(a)
  /\ UNCHANGED <<durableVars, call, writing, held, blocked, posted, restoreVars, historyVars,
                 faults, refused>>

Hold(a) ==   \* the limit is closed: no turn, and handled is left as it is
  /\ pc = "next" /\ blocked /\ queued[a] > 0
  /\ queued' = [queued EXCEPT ![a] = @ - 1] /\ held' = [held EXCEPT ![a] = @ + 1]
  /\ UNCHANGED <<durableVars, call, writing, blocked, posted, pumpVars, restoreVars,
                 historyVars, faults, refused>>

Release ==   \* something arrived: the limit is tried again
  /\ pc = "next" /\ blocked /\ blocked' = FALSE
  /\ queued' = [a \in Approvals |-> queued[a] + held[a]]
  /\ held' = [a \in Approvals |-> 0]
  /\ UNCHANGED <<durableVars, call, writing, posted, pumpVars, restoreVars, historyVars,
                 faults, refused>>

LimitCloses ==   \* in the turn of another event
  /\ UsageLimit /\ pc = "next" /\ ~blocked /\ blocked' = TRUE
  /\ UNCHANGED <<durableVars, call, writing, queued, held, posted, pumpVars, restoreVars,
                 historyVars, faults, refused>>

MarkOnHandle ==
  /\ pc = "mark" /\ pc' = "turn"
  /\ (MarkDelivered(turn) /\ Works) \/ (Fails("mark") /\ UNCHANGED delivery)
  /\ UNCHANGED <<approval, consented, grants, rows, call, inboxVars, handled, turn,
                 restoreVars, historyVars, refused>>

TurnAnswered ==
  /\ pc = "turn" /\ pc' = "forget"
  /\ concluded' = concluded \cup {turn} /\ concludedNow' = concludedNow \cup {turn}
  /\ UNCHANGED <<durableVars, call, inboxVars, handled, turn, restoreVars, life, answeredIn,
                 failedNow, faults, refused>>

TurnHeld ==   \* the limit was met: the answer has not been handled after all
  /\ UsageLimit /\ pc = "turn" /\ pc' = "next" /\ turn' = None
  /\ handled' = handled \ {turn} /\ blocked' = TRUE
  /\ held' = [held EXCEPT ![turn] = @ + 1]
  /\ UNCHANGED <<durableVars, call, writing, queued, posted, restoreVars, historyVars,
                 faults, refused>>

TurnFailed ==   \* outside the limit; reading the approval may be what throws
  /\ pc \in {"mark", "turn"} /\ pc' = "reopen"
  /\ TurnsFail # "never" /\ call[turn] = "idle"
  /\ TurnsFail = "alone" => restore = "done" /\ queued[turn] + held[turn] = 0
  /\ handled' = handled \ {turn} /\ failedNow' = failedNow \cup {turn}
  /\ UNCHANGED <<durableVars, call, inboxVars, turn, restoreVars, life, answeredIn, concluded,
                 concludedNow, faults, refused>>

\* mutant: the mark is set back only where it is pending already
ReopenedPending == [delivery EXCEPT ![turn] = IF @ = "pending" THEN "pending" ELSE @]

Reopened == [delivery EXCEPT ![turn] = IF @ = "delivered" THEN "pending" ELSE @]

Reopen ==   \* #reopenAnswerDeliveryAfterFailure, whose failure is swallowed
  /\ pc = "reopen" /\ pc' = "forget"
  /\ (delivery' = Reopened /\ Works) \/ (Fails("reopen") /\ UNCHANGED delivery)
  /\ UNCHANGED <<approval, consented, grants, rows, call, inboxVars, handled, turn,
                 restoreVars, historyVars, refused>>

Forget ==   \* #forget awaits the row's own write
  /\ pc = "forget" /\ turn \notin writing
  /\ pc' = "next" /\ turn' = None
  /\ (rows' = rows \ {turn} /\ Works) \/ (Fails("forget") /\ UNCHANGED rows)
  /\ UNCHANGED <<approval, delivery, consented, grants, call, inboxVars, handled,
                 restoreVars, historyVars, refused>>

-----------------------------------------------------------------------------
(* #restoreUnread: the rows of the last process, then the answers that have  *)
(* no row.                                                                   *)

Claim ==
  /\ restore = "claim" /\ restore' = "queue" /\ claimed' = rows
  /\ UNCHANGED <<durableVars, call, inboxVars, pumpVars, todo, cur, historyVars, faults,
                 refused>>

QueueClaimed ==
  /\ restore = "queue" /\ restore' = "list"
  /\ queued' = [a \in Approvals |-> queued[a] + IF a \in claimed \ posted THEN 1 ELSE 0]
  /\ UNCHANGED <<durableVars, call, writing, held, blocked, posted, pumpVars, claimed, todo,
                 cur, historyVars, faults, refused>>

\* mutant: an answer whose grant is recorded is thought to be delivered
UndeliveredUngranted ==
  {a \in Approvals : /\ approval[a] = "answered" /\ delivery[a] = "pending"
                     /\ answeredIn[a] < life /\ grants[a] = 0}

Undelivered ==   \* answeredAt < bootedAt
  {a \in Approvals : approval[a] = "answered" /\ delivery[a] = "pending" /\ answeredIn[a] < life}

ListUndelivered ==
  /\ restore = "list"
  /\ todo' = Undelivered
  /\ restore' = IF Undelivered = {} THEN "done" ELSE "grant"
  /\ cur' \in IF Undelivered = {} THEN {None} ELSE Undelivered
  /\ UNCHANGED <<durableVars, call, inboxVars, pumpVars, claimed, historyVars, faults,
                 refused>>

NextUndelivered ==   \* on to the next one, in any order
  LET left == todo \ {cur} IN
  /\ todo' = left /\ restore' = IF left = {} THEN "done" ELSE "grant"
  /\ cur' \in IF left = {} THEN {None} ELSE left
  /\ UNCHANGED claimed

\* mutant: the grant is recorded again although it exists
Ungranted(a) == TRUE

GrantMissing(a) == grants[a] = 0

\* mutant: only the delivery is made up for
ReconcileGrantSkipped ==
  /\ restore = "grant"
  /\ restore' = IF cur \in claimed THEN "mark" ELSE "put"
  /\ UNCHANGED <<durableVars, faults, refused, call, inboxVars, pumpVars, claimed, todo, cur,
                 historyVars>>

ReconcileGrant ==
  /\ restore = "grant"
  /\ restore' = IF cur \in claimed THEN "mark" ELSE "put"
  /\ IF GrantMissing(cur) THEN RecordGrant(cur) ELSE UNCHANGED <<grants, refused, faults>>
  /\ UNCHANGED <<approval, delivery, consented, rows, call, inboxVars, pumpVars, claimed,
                 todo, cur, historyVars>>

ReconcilePut ==   \* when it fails the answer stays pending, for the next start
  /\ restore = "put"
  /\ \/ restore' = "mark" /\ rows' = rows \cup {cur} /\ Works /\ UNCHANGED <<claimed, todo, cur>>
     \/ Fails("put") /\ rows' \in {rows, rows \cup {cur}} /\ NextUndelivered
  /\ UNCHANGED <<approval, delivery, consented, grants, call, inboxVars, pumpVars,
                 historyVars, refused>>

ReconcileMark ==   \* a claimed answer is on its way and only marked
  /\ restore = "mark"
  /\ (MarkDelivered(cur) /\ Works) \/ (Fails("mark") /\ UNCHANGED delivery)
  /\ IF cur \in claimed THEN NextUndelivered
     ELSE restore' = "post" /\ UNCHANGED <<claimed, todo, cur>>
  /\ UNCHANGED <<approval, consented, grants, rows, call, inboxVars, pumpVars, historyVars,
                 refused>>

ReconcilePost ==
  /\ restore = "post" /\ PostEvent(cur) /\ NextUndelivered
  /\ UNCHANGED <<durableVars, call, pumpVars, historyVars, faults, refused>>

-----------------------------------------------------------------------------
Crash ==   \* and a new process starts
  /\ life < MaxRestarts /\ life' = life + 1
  /\ call' = [a \in Approvals |-> "idle"]
  /\ writing' = {} /\ queued' = [a \in Approvals |-> 0]
  /\ held' = [a \in Approvals |-> 0] /\ blocked' = FALSE
  /\ handled' = {} /\ turn' = None /\ pc' = "next" /\ posted' = {}
  /\ restore' = "claim" /\ claimed' = {} /\ todo' = {} /\ cur' = None
  /\ concludedNow' = {} /\ failedNow' = {}
  /\ UNCHANGED <<durableVars, answeredIn, faults, refused, concluded>>

AnswerCall(a) == Grant(a) \/ Put(a) \/ Mark(a) \/ Post(a)

Pump == (\E a \in Approvals : Take(a) \/ Hold(a)) \/ MarkOnHandle \/ TurnAnswered
          \/ TurnHeld \/ TurnFailed \/ Reopen \/ Forget

Restoring == Claim \/ QueueClaimed \/ ListUndelivered \/ ReconcileGrant \/ ReconcilePut
               \/ ReconcileMark \/ ReconcilePost

Next ==
  \/ \E a \in Approvals : Answer(a) \/ Withdraw(a) \/ AnswerCall(a) \/ WriteEnds(a)
  \/ Pump \/ Release \/ LimitCloses \/ Restoring \/ Crash

Spec == Init /\ [][Next]_vars

(* The event loop runs what is ready, the store answers, turns end.          *)
Fairness ==
  /\ WF_vars(Pump) /\ WF_vars(Restoring)
  /\ \A a \in Approvals : WF_vars(AnswerCall(a)) /\ WF_vars(WriteEnds(a)) /\ SF_vars(Take(a))

FairSpec == Spec /\ Fairness

-----------------------------------------------------------------------------
(* Properties. *)

(* "At least once: losing an answer is worse than delivering it twice": an   *)
(* accepted answer no turn has answered for is pending, so that the next     *)
(* start reconciles it, or has a row, so that the next start restores it;    *)
(* whenever the process dies, it is still there.                             *)
AnswerIsKept ==
  \A a \in Approvals :
    approval[a] = "answered" /\ a \notin concluded => delivery[a] = "pending" \/ a \in rows

(* A consent is never dropped by a crash: an answer marked delivered, which  *)
(* no later start will look at, has its grant, or the failure was reported.  *)
ConsentIsKept ==
  \A a \in consented : delivery[a] = "delivered" => grants[a] > 0 \/ a \in refused

(* No answer grants its permission twice, although both answerApproval and   *)
(* the reconciliation of a later start record it.                            *)
OneGrant == \A a \in Approvals : grants[a] <= 1

(* One process never reads an answer again after a turn has answered for it, *)
(* although the restore pass and post may both queue a copy, and copies may  *)
(* be held and released.                                                     *)
ReadOncePerLife == pc \in {"mark", "turn"} => turn \notin concludedNow

(* In the last life every accepted answer, one whose turn an earlier process *)
(* saw fail included, is answered for, waits for the limit to open, or meets *)
(* a turn that fails again and leaves it to the next start.                  *)
AnswersAreRead ==
  \A a \in Approvals :
    (approval[a] = "answered" /\ life = MaxRestarts)
      ~> a \in concluded \cup failedNow \/ held[a] > 0
=============================================================================
