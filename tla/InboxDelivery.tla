--------------------------- MODULE InboxDelivery ---------------------------
(***************************************************************************)
(* The clone's inbox: how an event posted to the daemon reaches exactly    *)
(* one turn of the model, and survives a crash of the process.             *)
(*                                                                         *)
(* packages/core/src/clone.ts (post, #admit, #pump, #settleInboxEvent,     *)
(* #forget, #restoreUnread, dropQueuedInboxEvents, interruptTurn, stop),   *)
(* inbox.ts (the in-memory queue), clone-delivery.ts (deferred events,     *)
(* unread marks, collapse index) and the inbox store behind them.          *)
(*                                                                         *)
(* One action is one stretch of JavaScript between two awaits; the store's *)
(* put, remove, removeMany and claimPending are atomic (they run under the *)
(* path lock of FileLock.tla or in one statement of the database).         *)
(***************************************************************************)
EXTENDS Naturals, Sequences, FiniteSets, SequencesExt, EventQueue

CONSTANTS
  MaxEvents,         \* bound: events posted in a behaviour
  MergedBatchLimit,  \* most events one turn reads (#mergedBatchLimit)
  HumanPriority,     \* whether humans go ahead of other queued events
  Kinds,             \* the kinds of event posted, a subset of Kind
  MaxRestarts,       \* bound: crashes and restarts of the process
  MaxFaults,         \* bound: store operations whose retries run out
  Removable          \* the ids that requests to remove or withdraw name

(***************************************************************************)
(* A kind stands for an event's type and content: two reports are two      *)
(* events with the same text, two ticks are the same tick.                 *)
(*   human    a message or an answer of a person                           *)
(*   question a manager's message that waits for a reply (requestId)       *)
(*   report   a manager's report: has a collapse key                       *)
(*   notice   a notice of the daemon itself (external): has a collapse key *)
(*   tick     self_initiative: carries no content                          *)
(*   distill  the shutdown distillation, never stored                      *)
(***************************************************************************)
Kind  == {"human", "question", "report", "notice", "tick", "distill"}
Keyed == {"report", "notice"}                  \* inboxCollapseKey # undefined
Mixable == {"question", "report", "notice"}    \* isMixableSignal
AlwaysRearms == {"human", "question", "report"}  \* usageBlockAlwaysRearms

ASSUME InboxAssumption ==
  /\ MaxEvents \in Nat /\ MergedBatchLimit \in Nat \ {0}
  /\ HumanPriority \in BOOLEAN /\ Kinds \subseteq Kind \ {"distill"}
  /\ MaxRestarts \in Nat /\ MaxFaults \in Nat /\ Removable \subseteq 1..MaxEvents

Events  == 1..MaxEvents   \* ids in the order of their `at`
Distill == 0
Ids     == Events \cup {Distill}

VARIABLES
  (* durable: the inbox store *)
  rows,          \* ids with a row in the store
  (* what was posted *)
  posted,        \* how many events have been posted; the next id is posted+1
  kind,          \* the kind of each id
  (* memory of the process *)
  stage,         \* "up"; in stop(): "distilling", "distilled", "closed"
  queue,         \* Inbox.#queue
  deferred,      \* events held while the usage limit is closed
  writing,       \* ids whose put by post is running: the unread promise is pending
  unread,        \* ids with an entry in CloneDelivery.#unread
  rep,           \* ids that represent their content in #pendingCollapse
  heldForUsage,  \* ids that were held at least once
  persisting,    \* ids inside postPersisted, before its write ends
  pc,            \* where #pump is
  batch,         \* the events #pump has taken and not settled yet
  defer,         \* #settleTurn's decision for the batch
  usageBlocked,  \* "no", or how the limit was met (see Suppressed)
  releaseRequested,
  restore,       \* where #restoreUnreadPass is
  todo,          \* claimed rows it has not handled yet
  postedBeforeRestored,
  droppedWhileRestoring,
  removing,      \* ids removed from the store whose delivery is not stopped yet
  withdrawing,   \* ids interruptTurn is withdrawing, before removeMany
  (* bounds and history *)
  restarts, faults,
  concluded,     \* ids whose turn ended for good (or were folded on the way)
  refused,       \* ids postPersisted answered "unavailable" for
  removed,       \* ids whose row was removed on request
  erased,        \* removed ids whose delivery was stopped before a turn took it
  pushedClosed   \* whether push or unshift ever threw: closed inbox

storeVars   == <<rows, faults>>
postVars    == <<posted, kind>>
inboxVars   == <<queue, pc, batch, pushedClosed>>
markVars    == <<writing, unread, rep, heldForUsage>>
usageVars   == <<usageBlocked, releaseRequested>>
restoreVars == <<restore, todo, postedBeforeRestored, droppedWhileRestoring>>
removeVars  == <<removing, withdrawing, removed, erased>>
doneVars    == <<concluded, refused>>
vars == <<rows, posted, kind, stage, queue, deferred, writing, unread, rep, heldForUsage,
          persisting, pc, batch, defer, usageBlocked, releaseRequested, restore,
          todo, postedBeforeRestored, droppedWhileRestoring, removing, withdrawing,
          restarts, faults, concluded, refused, removed, erased, pushedClosed>>

PumpPc    == {"next", "waiting", "taken", "checking", "turn", "settle", "forget", "ended"}
Blocked   == {"no", "sameKey", "otherKey", "due"}
RestorePc == {"claim", "claimed", "registered", "loop", "done"}

TypeOK ==
  /\ rows \subseteq Events /\ posted \in 0..MaxEvents /\ kind \in [Ids -> Kind]
  /\ stage \in {"up", "distilling", "distilled", "closed"}
  /\ queue \in Seq(Ids) /\ deferred \in Seq(Ids) /\ batch \in Seq(Ids)
  /\ writing \subseteq Events /\ unread \subseteq Events
  /\ rep \subseteq Ids /\ heldForUsage \subseteq Ids /\ persisting \subseteq Events
  /\ pc \in PumpPc /\ (batch = <<>> <=> pc \in {"next", "waiting", "ended"})
  /\ defer \in BOOLEAN
  /\ usageBlocked \in Blocked /\ releaseRequested \in BOOLEAN
  /\ restore \in RestorePc /\ todo \in Seq(Events)
  /\ postedBeforeRestored \subseteq Events /\ droppedWhileRestoring \subseteq Events
  /\ removing \subseteq Events /\ withdrawing \subseteq Events
  /\ restarts \in 0..MaxRestarts /\ faults \in 0..MaxFaults
  /\ concluded \subseteq Events /\ refused \subseteq Events
  /\ removed \subseteq Events /\ erased \subseteq Events /\ pushedClosed \in BOOLEAN

-----------------------------------------------------------------------------
(* The in-memory queue (inbox.ts). *)

Closed == stage = "closed"

Ahead(q, at) ==   \* humanPriority: the place right after the last queued human
  /\ \A i \in (at + 1)..Len(q) : kind[q[i]] # "human"
  /\ at > 0 => kind[q[at]] = "human"

\* mutant: the event is queued although the pump is already waiting for one
PushAsleep(e, jumps) ==
  /\ pushedClosed' = (pushedClosed \/ Closed)
  /\ queue' = Append(queue, e) /\ UNCHANGED <<pc, batch>>

Push(e, jumps) ==
  /\ pushedClosed' = (pushedClosed \/ Closed)
  /\ IF pc = "waiting"
     THEN /\ pc' = "taken" /\ batch' = <<e>> /\ UNCHANGED queue
     ELSE /\ \E at \in 0..Len(queue) :
               /\ IF jumps THEN Ahead(queue, at) ELSE at = Len(queue)
               /\ queue' = InsertAt(queue, at + 1, e)
          /\ UNCHANGED <<pc, batch>>

Enqueue(e, k) == Push(e, HumanPriority /\ k = "human")

-----------------------------------------------------------------------------
Init ==
  /\ rows = {} /\ posted = 0 /\ kind = [e \in Ids |-> "distill"]
  /\ stage = "up" /\ queue = <<>> /\ deferred = <<>>
  /\ writing = {} /\ unread = {} /\ rep = {} /\ heldForUsage = {}
  /\ persisting = {} /\ pc = "next" /\ batch = <<>> /\ defer = FALSE
  /\ usageBlocked = "no" /\ releaseRequested = FALSE
  /\ restore = "claim" /\ todo = <<>>
  /\ postedBeforeRestored = {} /\ droppedWhileRestoring = {}
  /\ removing = {} /\ withdrawing = {}
  /\ restarts = 0 /\ faults = 0
  /\ concluded = {} /\ refused = {} /\ removed = {} /\ erased = {}
  /\ pushedClosed = FALSE

-----------------------------------------------------------------------------
(* Admission: post and postPersisted (#admit). *)

(* While the limit's reset time is ahead, an event re-arms the held ones    *)
(* only if the session may be on another key and the event's kind always    *)
(* re-arms.  "due": the reset time is unknown or past.                      *)
Suppressed(k) ==
  \/ usageBlocked = "sameKey"
  \/ usageBlocked = "otherKey" /\ k \notin AlwaysRearms

Rearm(k) ==
  releaseRequested' = (releaseRequested \/ (usageBlocked # "no" /\ ~Suppressed(k)))

Represented(k) == k \in Keyed /\ \E r \in rep : kind[r] = k

Arrive(e, k) ==
  /\ e = posted + 1 /\ e \in Events /\ k \in Kinds
  /\ posted' = e /\ kind' = [kind EXCEPT ![e] = k]

(* A second event with the content of a represented one leaves no row; a    *)
(* tick is also folded into the same tick while that one is queued.         *)
PostFolded(e, k) ==
  /\ Arrive(e, k)
  /\ \/ Represented(k) /\ (Closed \/ k # "notice")
     \/ ~Closed /\ k = "tick" /\ \E i \in DOMAIN queue : kind[queue[i]] = "tick"
  /\ IF Closed THEN UNCHANGED releaseRequested ELSE Rearm(k)
  /\ UNCHANGED <<storeVars, stage, inboxVars, deferred, markVars, persisting, defer,
                 usageBlocked, restoreVars, removeVars, restarts, doneVars>>

(* A notice with the content of a represented one gets no row of its own    *)
(* but is queued, for #mergedExternalBatch to read with the first.          *)
PostRowFolded(e, k) ==
  /\ ~Closed /\ Arrive(e, k) /\ k = "notice" /\ Represented(k)
  /\ Rearm(k) /\ Enqueue(e, k)
  /\ UNCHANGED <<storeVars, stage, deferred, markVars, persisting, defer,
                 usageBlocked, restoreVars, removeVars, restarts, doneVars>>

Fresh(e, k) ==
  /\ Arrive(e, k) /\ ~Represented(k)
  /\ rep' = IF k \in Keyed THEN rep \cup {e} ELSE rep
  /\ UNCHANGED <<storeVars, stage, deferred, heldForUsage, defer, usageBlocked,
                 restore, todo, droppedWhileRestoring, removeVars, restarts, doneVars>>

Remember(e) == writing' = writing \cup {e} /\ unread' = unread \cup {e}

\* mutant: a live post is not told apart from the rows left by the last process
NoteNothing(e) == UNCHANGED postedBeforeRestored

NoteUnrestored(e) ==
  postedBeforeRestored' =
    IF restore = "done" THEN postedBeforeRestored ELSE postedBeforeRestored \cup {e}

(* post: the write is started and not awaited, the event is queued at once. *)
Post(e, k) ==
  /\ ~Closed /\ Fresh(e, k)
  /\ ~(k = "tick" /\ \E i \in DOMAIN queue : kind[queue[i]] = "tick")
  /\ Rearm(k) /\ NoteUnrestored(e) /\ Enqueue(e, k)
  /\ Remember(e) /\ UNCHANGED persisting

(* postPersisted: the event is queued when its row is written.  Only human  *)
(* messages (POST /chat) and foreign events take this entry.                *)
PostPersisted(e, k) ==
  /\ ~Closed /\ Fresh(e, k) /\ k = "human"
  /\ Rearm(k) /\ NoteUnrestored(e)
  /\ persisting' = persisting \cup {e}
  /\ UNCHANGED <<writing, unread, inboxVars>>

(* Once the inbox is closed the event is only stored, for the next start.   *)
PostClosed(e, k) ==
  /\ Closed /\ Fresh(e, k)
  /\ \/ k = "human" /\ persisting' = persisting \cup {e} /\ UNCHANGED <<writing, unread>>
     \/ Remember(e) /\ UNCHANGED persisting
  /\ UNCHANGED <<releaseRequested, postedBeforeRestored, inboxVars>>

(* #persistUnread ends: written, or every retry failed (what was reported    *)
(* as a failure may have reached the store all the same).                    *)
WriteEnds(e) ==
  /\ e \in writing /\ writing' = writing \ {e}
  /\ \/ rows' = rows \cup {e} /\ UNCHANGED faults
     \/ faults < MaxFaults /\ faults' = faults + 1 /\ UNCHANGED rows
  /\ UNCHANGED <<postVars, stage, inboxVars, deferred, unread, rep, heldForUsage,
                 persisting, defer, usageVars, restoreVars, removeVars, restarts,
                 doneVars>>

(* #persistThenEnqueue after its await: the inbox may have closed meanwhile. *)
Persisted(e) ==
  /\ e \in persisting /\ persisting' = persisting \ {e}
  /\ rows' = rows \cup {e}
  /\ unread' = unread \cup {e}
  /\ IF Closed THEN UNCHANGED inboxVars ELSE Enqueue(e, kind[e])
  /\ UNCHANGED <<faults, postVars, stage, deferred, writing, rep, heldForUsage, defer,
                 usageVars, restoreVars, removeVars, restarts, doneVars>>

(* The write failed: #rollbackUnread removes what may have been written,    *)
(* and its own failure is swallowed.                                        *)
PersistRefused(e) ==
  /\ e \in persisting /\ persisting' = persisting \ {e}
  /\ faults < MaxFaults /\ faults' = faults + 1
  /\ rows' \in {rows, rows \cup {e}}
  /\ refused' = refused \cup {e}
  /\ UNCHANGED <<postVars, stage, inboxVars, deferred, markVars, defer, usageVars,
                 restoreVars, removeVars, restarts, concluded>>

-----------------------------------------------------------------------------
(* The pump. *)

PumpNext ==   \* Inbox.next
  /\ pc = "next"
  /\ IF queue # <<>>
     THEN /\ pc' = "taken" /\ batch' = <<Head(queue)>> /\ queue' = Tail(queue)
     ELSE /\ pc' = IF Closed THEN "ended" ELSE "waiting"
          /\ UNCHANGED <<batch, queue>>
  /\ UNCHANGED <<storeVars, postVars, stage, deferred, markVars, persisting, defer, usageVars,
                 restoreVars, removeVars, restarts, doneVars, pushedClosed>>

\* mutant: a release is tried on a closed inbox too
ReleasingClosed == releaseRequested

Releasing == releaseRequested /\ ~Closed

\* mutant: held events go to the end of the queue
ReleasedBehind == batch \o queue \o deferred
\* mutant: held events are drained and not put back
ReleasedWithoutHeld == batch \o queue

Released == deferred \o batch \o queue   \* unshift([...held, event])

PumpRelease ==   \* the limit is tried again: held events go back to the front
  /\ pc = "taken" /\ Releasing /\ usageBlocked # "no"
  /\ releaseRequested' = FALSE /\ usageBlocked' = "no"
  /\ queue' = Released
  /\ deferred' = <<>> /\ batch' = <<>> /\ pc' = "next"
  /\ pushedClosed' = (pushedClosed \/ Closed)
  /\ UNCHANGED <<storeVars, postVars, stage, markVars, persisting, defer, restoreVars,
                 removeVars, restarts, doneVars>>

PumpShortCircuit ==   \* no turn is paid for while the limit is closed
  /\ pc = "taken" /\ ~Releasing /\ usageBlocked # "no"
  /\ defer' = TRUE /\ pc' = "settle"
  /\ UNCHANGED <<storeVars, postVars, stage, queue, batch, deferred, markVars,
                 persisting, usageVars, restoreVars, removeVars, restarts, doneVars,
                 pushedClosed>>

PumpCheck ==
  /\ pc = "taken" /\ usageBlocked = "no"
  /\ releaseRequested' = (releaseRequested /\ Closed)
  /\ pc' = "checking"
  /\ UNCHANGED <<storeVars, postVars, stage, queue, batch, deferred, markVars,
                 persisting, defer, usageBlocked, restoreVars, removeVars, restarts,
                 doneVars, pushedClosed>>

(* The notice of a manager that has come back since needs no turn.          *)
PumpRecovered ==
  /\ pc = "checking" /\ kind[Head(batch)] = "report"
  /\ concluded' = concluded \cup {Head(batch)}
  /\ defer' = FALSE /\ pc' = "settle"
  /\ UNCHANGED <<storeVars, postVars, stage, queue, batch, deferred, markVars,
                 persisting, usageVars, restoreVars, removeVars, restarts, refused,
                 pushedClosed>>

(* What one turn reads with the event taken: queued events right behind it. *)
Joins(e, f) ==
  /\ e \notin heldForUsage /\ f \notin heldForUsage
  /\ \/ kind[e] = "human" /\ kind[f] = "human"
     \/ kind[e] \in Mixable /\ kind[f] \in Mixable

Joined(n) ==
  /\ n + 1 <= MergedBatchLimit
  /\ \A i \in 1..n : Joins(Head(batch), queue[i])

(* A batch may also be cut short: another conversation, the budget of        *)
(* characters, an attachment or a redelivered signal comes next.            *)
PumpStartTurn ==
  /\ pc = "checking"
  /\ \E n \in 0..Len(queue) :
       /\ Joined(n)
       /\ batch' = batch \o SubSeq(queue, 1, n)
       /\ queue' = SubSeq(queue, n + 1, Len(queue))
  /\ rep' = rep \ Range(batch')
  /\ pc' = "turn"
  /\ UNCHANGED <<storeVars, postVars, stage, deferred, writing, unread, heldForUsage,
                 persisting, defer, usageVars, restoreVars, removeVars, restarts,
                 doneVars, pushedClosed>>

\* mutant: the limit is read before the turn's own result is taken into account
TurnEndsStale(blocked) ==
  /\ pc = "turn" /\ pc' = "settle"
  /\ usageBlocked' = blocked
  /\ defer' = (usageBlocked # "no")
  /\ concluded' = IF blocked # "no" THEN concluded
                  ELSE concluded \cup (Range(batch) \cap Events)
  /\ UNCHANGED <<storeVars, postVars, stage, queue, batch, deferred, markVars,
                 persisting, releaseRequested, restoreVars, removeVars, restarts,
                 refused, pushedClosed>>

(* #settleTurn reads the limit once for the whole batch.                    *)
TurnEnds(blocked) ==
  /\ pc = "turn" /\ pc' = "settle"
  /\ usageBlocked' = blocked
  /\ defer' = (blocked # "no")
  /\ concluded' = IF blocked # "no" THEN concluded
                  ELSE concluded \cup (Range(batch) \cap Events)
  /\ UNCHANGED <<storeVars, postVars, stage, queue, batch, deferred, markVars,
                 persisting, releaseRequested, restoreVars, removeVars, restarts,
                 refused, pushedClosed>>

TurnAnswered   == TurnEnds("no")
TurnHitsLimit  == \E b \in Blocked \ {"no"} : TurnEnds(b)
TurnFails      == TurnEnds(usageBlocked)

(* A rate_limit_event at the head of a turn closes the limit on its own.    *)
RateLimited ==
  /\ pc = "turn" /\ usageBlocked = "no"
  /\ usageBlocked' \in Blocked \ {"no"}
  /\ UNCHANGED <<storeVars, postVars, stage, inboxVars, deferred, markVars, persisting,
                 defer, releaseRequested, restoreVars, removeVars, restarts, doneVars>>

(* The reset time passes, or the session moves to another key.              *)
LimitAges ==
  /\ \/ usageBlocked = "sameKey" /\ usageBlocked' \in {"otherKey", "due"}
     \/ usageBlocked = "otherKey" /\ usageBlocked' = "due"
  /\ UNCHANGED <<storeVars, postVars, stage, inboxVars, deferred, markVars, persisting,
                 defer, releaseRequested, restoreVars, removeVars, restarts, doneVars>>

(* #settleInboxEvent, for the first event of the batch. *)
\* mutant: only the first event of a batch is settled
SettledOnce ==
  /\ batch' = Tail(batch) /\ pc' = "next"
  /\ stage' = IF Head(batch) = Distill /\ stage = "distilling" THEN "distilled" ELSE stage

Settled ==   \* this one is settled, on to the rest of the batch or the next event
  /\ batch' = Tail(batch)
  /\ pc' = IF Len(batch) = 1 THEN "next" ELSE "settle"
  /\ stage' = IF Head(batch) = Distill /\ stage = "distilling" THEN "distilled" ELSE stage

\* mutant: post is trusted to fold ticks
FoldsIntoNothing(e) == FALSE

FoldsIntoHeldTick(e) ==
  kind[e] = "tick" /\ \E i \in DOMAIN deferred : kind[deferred[i]] = "tick"

SettleHeld ==
  /\ pc = "settle" /\ defer
  /\ LET e == Head(batch) IN
       /\ ~FoldsIntoHeldTick(e)
       /\ deferred' = Append(deferred, e)
       /\ rep' = IF kind[e] \in Keyed /\ ~Represented(kind[e]) THEN rep \cup {e} ELSE rep
       /\ heldForUsage' = heldForUsage \cup {e}
  /\ Settled
  /\ UNCHANGED <<storeVars, postVars, queue, writing, unread, persisting, defer,
                 usageVars, restoreVars, removeVars, restarts, doneVars, pushedClosed>>

SettleForget ==
  /\ pc = "settle"
  /\ LET e == Head(batch) IN
       /\ defer => FoldsIntoHeldTick(e)
       /\ concluded' = IF defer THEN concluded \cup {e} ELSE concluded
       /\ heldForUsage' = heldForUsage \ {e}
       /\ IF e \notin unread THEN Settled
          ELSE pc' = "forget" /\ UNCHANGED <<batch, stage>>
  /\ UNCHANGED <<storeVars, postVars, queue, deferred, writing, unread, rep,
                 persisting, defer, usageVars, restoreVars, removeVars, restarts,
                 refused, pushedClosed>>

\* mutant: the removal does not await the write
WriteNotAwaited(e) == TRUE

WriteEnded(e) == e \notin writing   \* await written

(* #forget: the row goes only after its own write has ended; when every     *)
(* retry fails the row and the mark stay, to be delivered again next start. *)
Forget ==
  /\ pc = "forget"
  /\ LET e == Head(batch) IN
       /\ WriteEnded(e)
       /\ \/ /\ rows' = rows \ {e} /\ UNCHANGED faults
             /\ unread' = unread \ {e} /\ rep' = rep \ {e}
          \/ /\ faults < MaxFaults /\ faults' = faults + 1
             /\ UNCHANGED <<rows, unread, rep>>
  /\ Settled
  /\ UNCHANGED <<postVars, queue, deferred, writing, heldForUsage, persisting, defer,
                 usageVars, restoreVars, removeVars, restarts, doneVars, pushedClosed>>

-----------------------------------------------------------------------------
(* Restoring unread rows at start (#restoreUnreadPass). *)

Ascending(s) == \A i, j \in DOMAIN s : i < j => s[i] < s[j]

ClaimPending ==
  /\ restore = "claim" /\ ~Closed
  /\ restore' = "claimed"
  /\ \E s \in [1..Cardinality(rows) -> rows] : Ascending(s) /\ todo' = s
  /\ UNCHANGED <<storeVars, postVars, stage, inboxVars, deferred, markVars, persisting,
                 defer, usageVars, postedBeforeRestored, droppedWhileRestoring,
                 removeVars, restarts, doneVars>>

ClaimAbandoned ==   \* the inbox closed before the rows could be read
  /\ restore = "claim" /\ Closed
  /\ restore' = "done" /\ postedBeforeRestored' = {} /\ droppedWhileRestoring' = {}
  /\ UNCHANGED <<storeVars, postVars, stage, inboxVars, deferred, markVars, persisting,
                 defer, usageVars, todo, removeVars, restarts, doneVars>>

(* #registerRestoredRepresentatives: the first claimed row of each content. *)
RegisterRepresentatives ==
  /\ restore = "claimed" /\ restore' = "registered"
  /\ rep' = rep \cup {e \in Range(todo) :
                        /\ kind[e] \in Keyed /\ ~Represented(kind[e])
                        /\ \A f \in Range(todo) : kind[f] = kind[e] => e <= f}
  /\ UNCHANGED <<storeVars, postVars, stage, inboxVars, deferred, writing, unread,
                 heldForUsage, persisting, defer, usageVars, todo, postedBeforeRestored,
                 droppedWhileRestoring, removeVars, restarts, doneVars>>

(* The loop over the claimed rows runs without an await until it meets a     *)
(* row dropped meanwhile: nothing else happens while restore = "loop".       *)
RestoreLoop ==
  /\ restore = "registered" /\ restore' = "loop"
  /\ UNCHANGED <<storeVars, postVars, stage, inboxVars, deferred, markVars, persisting,
                 defer, usageVars, todo, postedBeforeRestored, droppedWhileRestoring,
                 removeVars, restarts, doneVars>>

RestoreEnds ==
  /\ restore = "loop" /\ (todo = <<>> \/ Closed)
  /\ restore' = "done" /\ todo' = <<>>
  /\ postedBeforeRestored' = {} /\ droppedWhileRestoring' = {}
  /\ UNCHANGED <<storeVars, postVars, stage, inboxVars, deferred, markVars, persisting,
                 defer, usageVars, removeVars, restarts, doneVars>>

\* mutant: no tombstone is looked at
NeverDropped(e) == FALSE

Dropped(e) == e \in droppedWhileRestoring

RestoreRecord ==
  /\ restore = "loop" /\ todo # <<>> /\ ~Closed
  /\ todo' = Tail(todo)
  /\ LET e == Head(todo) IN
       \/ /\ e \in postedBeforeRestored   \* delivered live by this process
          /\ UNCHANGED <<restore, unread, rep, inboxVars>>
       \/ /\ e \notin postedBeforeRestored /\ Dropped(e)
          /\ unread' = unread \ {e} /\ rep' = rep \ {e}
          /\ restore' = "registered"      \* awaits the journal
          /\ UNCHANGED inboxVars
       \/ /\ e \notin postedBeforeRestored /\ ~Dropped(e)
          /\ unread' = unread \cup {e}
          /\ Enqueue(e, kind[e])
          /\ UNCHANGED <<restore, rep>>
  /\ UNCHANGED <<storeVars, postVars, stage, deferred, writing, heldForUsage, persisting,
                 defer, usageVars, postedBeforeRestored, droppedWhileRestoring,
                 removeVars, restarts, doneVars>>

-----------------------------------------------------------------------------
(* Removing rows on request, and withdrawing a queued human message. *)

RemoveRow(e) ==   \* removeInboxEventsAndStopDelivery, up to its first await
  /\ e \in rows \cap Removable
  /\ rows' = rows \ {e} /\ removed' = removed \cup {e}
  /\ removing' = removing \cup {e}
  /\ UNCHANGED <<faults, postVars, stage, inboxVars, deferred, markVars, persisting,
                 defer, usageVars, restoreVars, withdrawing, restarts, doneVars, erased>>

StopDelivery(e) ==   \* dropQueuedInboxEvents
  LET found == OccursIn(queue, e) \/ OccursIn(deferred, e) IN
  /\ e \in removing /\ removing' = removing \ {e}
  /\ droppedWhileRestoring' = IF restore = "done" THEN droppedWhileRestoring
                                                  ELSE droppedWhileRestoring \cup {e}
  /\ queue' = Without(queue, e) /\ deferred' = Without(deferred, e)
  /\ unread' = IF found THEN unread \ {e} ELSE unread
  /\ rep' = IF found THEN rep \ {e} ELSE rep
  /\ heldForUsage' = IF found THEN heldForUsage \ {e} ELSE heldForUsage
  /\ erased' = IF OccursIn(batch, e) THEN erased ELSE erased \cup {e}
  /\ UNCHANGED <<storeVars, postVars, stage, pc, batch, writing, persisting, defer,
                 usageVars, restore, todo, postedBeforeRestored, withdrawing, removed, restarts,
                 doneVars, pushedClosed>>

Withdraw(e) ==   \* interruptTurn with a target that is queued or held
  /\ e \in Removable /\ kind[e] = "human"
  /\ OccursIn(queue, e) \/ OccursIn(deferred, e)
  /\ withdrawing' = withdrawing \cup {e}
  /\ UNCHANGED <<storeVars, postVars, stage, inboxVars, deferred, markVars, persisting,
                 defer, usageVars, restoreVars, removing, restarts, doneVars, removed,
                 erased>>

(* #withdrawQueued waits for the row's own write before removing it; whether *)
(* or not a row was there, the delivery is stopped next.                     *)
WithdrawRemoves(e) ==
  /\ e \in withdrawing /\ withdrawing' = withdrawing \ {e}
  /\ WriteEnded(e)
  /\ \/ /\ rows' = rows \ {e} /\ removed' = removed \cup {e}
        /\ removing' = removing \cup {e} /\ UNCHANGED faults
     \/ /\ faults < MaxFaults /\ faults' = faults + 1   \* removeMany throws
        /\ UNCHANGED <<rows, removed, removing>>
  /\ UNCHANGED <<postVars, stage, inboxVars, deferred, markVars, persisting, defer,
                 usageVars, restoreVars, restarts, doneVars, erased>>

-----------------------------------------------------------------------------
(* Stopping, crashing and starting again. *)

\* mutant: close() leaves a waiting pump asleep
NotWoken == pc

Woken == IF pc = "waiting" THEN "ended" ELSE pc

(* stop() first asks for a distillation and waits until it is settled.      *)
Stop ==
  /\ stage = "up"
  /\ \/ stage' = "distilling" /\ Push(Distill, HumanPriority)
     \/ /\ stage' = "closed" /\ pc' = Woken
        /\ UNCHANGED <<queue, batch, pushedClosed>>   \* no session: close at once
  /\ UNCHANGED <<storeVars, postVars, deferred, markVars, persisting, defer, usageVars,
                 restoreVars, removeVars, restarts, doneVars>>

Close ==   \* Inbox.close: a waiting pump gets null, and stop() waits for its end
  /\ stage = "distilled"
  /\ stage' = "closed" /\ pc' = Woken
  /\ UNCHANGED <<storeVars, postVars, queue, batch, deferred, markVars, persisting,
                 defer, usageVars, restoreVars, removeVars, restarts, doneVars,
                 pushedClosed>>

(* The process dies at any point, or exits after a stop, and a new one      *)
(* starts with nothing but the rows.                                        *)
Restart ==
  /\ restarts < MaxRestarts /\ restarts' = restarts + 1
  /\ stage' = "up" /\ queue' = <<>> /\ deferred' = <<>>
  /\ writing' = {} /\ unread' = {} /\ rep' = {} /\ heldForUsage' = {}
  /\ persisting' = {} /\ pc' = "next" /\ batch' = <<>> /\ defer' = FALSE
  /\ usageBlocked' = "no" /\ releaseRequested' = FALSE
  /\ restore' = "claim" /\ todo' = <<>>
  /\ postedBeforeRestored' = {} /\ droppedWhileRestoring' = {}
  /\ removing' = {} /\ withdrawing' = {} /\ pushedClosed' = FALSE
  /\ erased' = erased \cup removing
  /\ UNCHANGED <<storeVars, postVars, doneVars, removed>>

-----------------------------------------------------------------------------
Admit == \E e \in Events, k \in Kinds :
  PostFolded(e, k) \/ PostRowFolded(e, k) \/ Post(e, k) \/ PostPersisted(e, k)
    \/ PostClosed(e, k)

StoreStep == \E e \in Events : WriteEnds(e) \/ Persisted(e) \/ PersistRefused(e)

Pump == PumpNext \/ PumpRelease \/ PumpShortCircuit \/ PumpCheck \/ PumpRecovered
          \/ PumpStartTurn \/ TurnAnswered \/ TurnHitsLimit \/ TurnFails
          \/ SettleHeld \/ SettleForget \/ Forget

Request == \E e \in Events :
  RemoveRow(e) \/ StopDelivery(e) \/ Withdraw(e) \/ WithdrawRemoves(e)

Restoring == ClaimPending \/ ClaimAbandoned \/ RegisterRepresentatives \/ RestoreLoop
RestoreBody == RestoreRecord \/ RestoreEnds

Next ==
  \/ RestoreBody
  \/ restore # "loop" /\ ( Admit \/ StoreStep \/ Pump \/ RateLimited \/ LimitAges
                             \/ Restoring \/ Request \/ Stop \/ Close )
  \/ Restart

Spec == Init /\ [][Next]_vars

(* Fairness: the event loop runs every continuation that is ready, store     *)
(* operations answer or exhaust their retries, a turn ends (the SDK returns  *)
(* or the watchdog closes it).  Nobody is obliged to post, to stop the       *)
(* daemon or to remove anything, and the usage limit need never reopen.      *)
Fairness ==
  /\ WF_vars(Pump /\ restore # "loop")
  /\ WF_vars(Restoring) /\ WF_vars(RestoreBody) /\ WF_vars(Close /\ restore # "loop")
  /\ \A e \in Events :
       /\ WF_vars(restore # "loop" /\ (WriteEnds(e) \/ Persisted(e) \/ PersistRefused(e)))
       /\ WF_vars(restore # "loop" /\ (StopDelivery(e) \/ WithdrawRemoves(e)))

FairSpec == Spec /\ Fairness

-----------------------------------------------------------------------------
(* Properties. *)

Pipeline == deferred \o batch \o queue   \* in the order the events will be read

InPipeline(e) == OccursIn(deferred, e) \/ OccursIn(batch, e) \/ OccursIn(queue, e)

(* Where the contract sees an event. *)
StatusOf(e) ==
  IF e > posted THEN "unposted"
  ELSE IF e \in concluded THEN "finished"
  ELSE IF e \in erased THEN "removed"
  ELSE IF e \in rows THEN "stored"
  ELSE IF \/ e \in writing \/ e \in persisting \/ e \in removing \/ e \in withdrawing
          \/ InPipeline(e) \/ OccursIn(todo, e)
  THEN "memory" ELSE "gone"

Contract == INSTANCE InboxContract
              WITH Ids <- Events, status <- [e \in Events |-> StatusOf(e)]

(* The whole delivery path implements the contract of InboxContract: an      *)
(* accepted event ends finished, removed, or lost in a way the contract      *)
(* names, and a stored one is never lost.                                    *)
KeepsContract == Contract!Spec

(* A row leaves the store only when a turn has answered for its event, the   *)
(* event was folded into a held tick, or somebody asked for its removal:     *)
(* #forget never runs for an event the usage limit held back, and nothing is *)
(* removed when it is taken.                                                 *)
RowsLeaveWhenDone ==
  [][\A e \in rows \ rows' : e \in concluded' \/ e \in removed']_vars

(* No row comes back: once #forget or a removal has deleted a row, a slower  *)
(* put of the same event cannot write it again (#forget awaits the write,    *)
(* #withdrawQueued too), so nothing finished is delivered at the next start. *)
NoRowComesBack ==
  [][\A e \in rows' \ rows : /\ e \notin erased
                             /\ e \in concluded => OccursIn(batch, e)]_vars

(* While the inbox is open, an unfinished row is always somewhere the pump   *)
(* or the restore pass will find it; otherwise its event would wait for the  *)
(* next restart although the process is healthy.                             *)
NotStranded ==
  ~Closed => \A e \in rows \ (concluded \cup refused) :
               InPipeline(e) \/ restore = "claim" \/ OccursIn(todo, e)

(* An event is in the pipeline at most once, although it can enter it from   *)
(* post, from postPersisted, from the restore pass and from a release: one   *)
(* start of the process never reads the same event twice at once.            *)
NoDoubleDelivery ==
  \A i, j \in DOMAIN Pipeline : Pipeline[i] = Pipeline[j] => i = j

(* An event whose turn ended is queued again only after a restart, and only  *)
(* because its row had not been removed; the restore pass of the same life,  *)
(* which may have claimed the row before it was forgotten, skips it.         *)
NoRedeliveryOfFinished ==
  [][ \A e \in concluded : InPipeline(e)' /\ ~InPipeline(e) => restarts > 0 /\ e \in rows \cup removed ]_vars

(* Held events always have the limit to wait for: with usageBlocked cleared, *)
(* no release would ever move them back to the queue.                        *)
HeldBehindLimit == deferred # <<>> => usageBlocked # "no"

(* While the limit is closed and ticks keep coming, at most one is held.     *)
OneHeldTick ==
  \A i, j \in DOMAIN deferred :
    kind[deferred[i]] = "tick" /\ kind[deferred[j]] = "tick" => i = j

(* An event whose row was removed and whose delivery was stopped before a    *)
(* turn took it is never read: not from the queue, not from the held events, *)
(* not by the restore pass that had already claimed the row.                 *)
ErasedNeverRead == \A e \in erased : ~InPipeline(e) /\ e \notin rows

(* Events keep their order from posting to reading: holding a batch and      *)
(* releasing it, merging, removing others or a human cutting in never makes  *)
(* one event overtake another that was ahead of it.                          *)
NoOvertaking ==
  [][ \A i, j \in DOMAIN Pipeline :
        i < j /\ OccursIn(Pipeline', Pipeline[i]) /\ OccursIn(Pipeline', Pipeline[j])
          => Before(Pipeline', Pipeline[i], Pipeline[j]) ]_vars

(* push and unshift throw on a closed inbox, and post's caller or the pump   *)
(* would die of it: no path reaches them, wherever stop() cuts in.           *)
NeverPushedClosed == ~pushedClosed

(* "drop the collapse index of the batch handed to a turn: left there, a     *)
(* later event with the same text is folded into the representative being    *)
(* read, and its second occurrence never reaches the clone" (clone.ts:2182). *)
ReadIsNoRepresentative == pc = "turn" => rep \cap Range(batch) = {}

(* stop() ends: the distillation is read or held and the queue drains,       *)
(* whatever is posted, removed or restored meanwhile.                        *)
StopEnds == stage # "up" ~> (stage = "closed" /\ pc = "ended") \/ stage = "up"

(* In the last life of the process every row's event is finished, removed,   *)
(* refused to its sender or held by the usage limit, unless stop() came.     *)
RowsAreRead ==
  \A e \in Events :
    (e \in rows /\ restarts = MaxRestarts)
      ~> (e \in concluded \cup removed \cup refused \/ OccursIn(deferred, e) \/ Closed)
=============================================================================
