--------------------------- MODULE ScheduledRounds ---------------------------
(***************************************************************************)
(* One standing request of a human ("every N minutes"): the scheduler that *)
(* fires its rounds (schedule.ts), the row of the request with the mark of *)
(* the round at work (schedule-run-transition.ts), and the clone that      *)
(* claims a round, runs it and records that it is complete, holds it while *)
(* the usage limit is closed, or has it redelivered (clone.ts).            *)
(*                                                                         *)
(* A round is the number of the event that first fired it: numbers are in  *)
(* the order of `at`. Time is counted in units of the request's grid. The  *)
(* inbox is coarser than in InboxDelivery: one kind of event, no stop.     *)
(***************************************************************************)
EXTENDS Naturals, Sequences, FiniteSets

CONSTANTS
  Interval,     \* the distance of two points of the grid
  RetryDelay,   \* SCHEDULE_RETRY_MS, FAILED_TURN_RETRY_DELAYS_MS
  SlowWrites,   \* may a turn meet the limit before the row of its event is written?
  MaxTime, MaxEvents, MaxUpset

ASSUME GridAssumption ==
  /\ Interval \in Nat \ {0} /\ RetryDelay \in Nat \ {0} /\ SlowWrites \in BOOLEAN
  /\ {MaxTime, MaxEvents, MaxUpset} \subseteq Nat
  /\ Interval <= MaxTime + 1   \* time begins right before the first point

VARIABLES
  now,
  plan,         \* the row of the request: the mark of a claimed round, the last one complete
  rows,         \* the events whose rows are in the inbox's store
  marked,       \* those of them with heldForUsage
  events,       \* id -> the event: its round, the time it fired, its cause
  due, catchUp, redelivered,  \* the scheduler's maps, for this request
  known,        \* #requests: the copy of the row, or NotRead
  list,         \* the row as a refresh has read it, or NotRead between two refreshes
  queue, deferred, writing,   \* the inbox, what is held, the puts under way
  held,         \* #heldForUsage, and the restored events with the mark
  cur, pc,      \* the event the pump is at, and where it is
  blocked,      \* the usage limit is closed
  restore, todo,              \* the restore pass and the rows it has claimed
  born,         \* the events of the processes before this one
  answered,     \* rounds whose turn was answered
  finished,     \* rounds recorded as complete after that
  failed,       \* rounds whose last turn failed
  unstarted,    \* rounds that could not be claimed
  dropped,      \* rounds dropped as complete
  folded,       \* rounds folded into an equal tick that was held
  rewound,      \* rounds the base of the grid was at or past, before it moved back
  upsets        \* rounds run by hand, failed turns, failed operations, restarts

schedulerVars == <<due, catchUp, redelivered, known, list>>
inboxVars     == <<rows, marked, events, queue, deferred, writing, held>>
pumpVars      == <<cur, pc, blocked>>
restoreVars   == <<restore, todo, born>>
historyVars   == <<answered, finished, failed, unstarted, dropped, folded, rewound>>
vars == <<now, plan, schedulerVars, inboxVars, pumpVars, restoreVars, historyVars, upsets>>

Ids     == 1..MaxEvents
NotRead == [pending |-> 0, cause |-> "none", last |-> 0]
Plan    == [pending : 0..MaxEvents, cause : {"schedule", "manual"}, last : 0..MaxEvents]
Cause   == {"fire", "schedule_catchup", "schedule", "manual"}  \* "fire": none is given

TypeOK ==
  /\ now \in 0..MaxTime /\ plan \in Plan
  /\ rows \subseteq Ids /\ marked \subseteq rows /\ writing \subseteq Ids /\ held \subseteq Ids
  /\ events \in Seq([round : Ids, at : 0..MaxTime, cause : Cause]) /\ Len(events) <= MaxEvents
  /\ due \in 0..(MaxTime + Interval) /\ catchUp \in BOOLEAN /\ redelivered \in 0..MaxEvents
  /\ {known, list} \subseteq Plan \cup {NotRead}
  /\ queue \in Seq(Ids) /\ deferred \in Seq(Ids)
  /\ cur \in 0..MaxEvents /\ (cur = 0) = (pc = "wait") /\ blocked \in BOOLEAN
  /\ pc \in {"wait", "taken", "turn", "mark", "complete", "settle"}
  /\ restore \in {"claim", "deliver", "done"} /\ todo \subseteq Ids /\ born \in 0..MaxEvents
  /\ finished \subseteq answered

(* The request was created at 0; nothing happens before the first point.    *)
Init ==
  /\ now = Interval - 1 /\ plan = [pending |-> 0, cause |-> "schedule", last |-> 0]
  /\ rows = {} /\ marked = {} /\ events = <<>> /\ queue = <<>> /\ deferred = <<>>
  /\ writing = {} /\ held = {}
  /\ due = 0 /\ catchUp = FALSE /\ redelivered = 0 /\ known = NotRead /\ list = NotRead
  /\ cur = 0 /\ pc = "wait" /\ blocked = FALSE
  /\ restore = "claim" /\ todo = {} /\ born = 0
  /\ answered = {} /\ finished = {} /\ failed = {} /\ unstarted = {} /\ dropped = {} /\ folded = {}
  /\ rewound = {} /\ upsets = 0

Round == events[cur].round
Upset == upsets < MaxUpset /\ upsets' = upsets + 1

\* mutant: the point after the next
NextAtAfter(t) == ((t \div Interval) + 2) * Interval

(* The next point of the grid, which is counted from the creation, at 0.    *)
NextAt(t) == ((t \div Interval) + 1) * Interval

-----------------------------------------------------------------------------
(* Scheduler                                                               *)

SameTick(e, id) == events[id].cause = e.cause

(* Clone.post of a timer: one that waits in the queue makes an equal one    *)
(* needless; the others get a row, whose write is not awaited.              *)
Post(e) ==
  LET id == Len(events) + 1 IN
  IF \E i \in DOMAIN queue : SameTick(e, queue[i])
  THEN UNCHANGED <<events, queue, writing>>
  ELSE /\ events' = Append(events, e) /\ queue' = Append(queue, id)
       /\ writing' = writing \cup {id}

Fired(cause) == [round |-> Len(events) + 1, at |-> now, cause |-> cause]

(* A request to run the round now, by a human.                              *)
Manual ==
  /\ known # NotRead /\ Len(events) < MaxEvents
  /\ Upset /\ Post(Fired("manual"))
  /\ UNCHANGED <<now, plan, schedulerVars, rows, marked, deferred, held, pumpVars,
                 restoreVars, historyVars>>

(* A refresh reads the rows of the requests; what it does with them comes   *)
(* after the await. At most one runs at a time, before each tick; those     *)
(* that find nothing new and nothing due are left out.                      *)
RefreshReads ==
  /\ list = NotRead /\ list' = plan
  /\ known = NotRead \/ due <= now \/ known # plan
  /\ UNCHANGED <<now, plan, due, catchUp, redelivered, known, inboxVars, pumpVars,
                 restoreVars, historyVars, upsets>>

Unread(p) == \E id \in rows : events[id].round = p.pending

(* #firstDue, when the process has just started: the round a mark stands    *)
(* for is redelivered at once, unless its row is still in the inbox; a slot *)
(* that was missed is caught up, unless a row of it is.                     *)
FirstDue(p) ==
  LET seed == IF p.last = 0 THEN 0 ELSE events[p.last].at
      slot == NextAt(seed)
      covered == \E id \in rows : events[id].cause # "manual" /\ events[id].at >= slot IN
  IF p.pending # 0
  THEN [at |-> IF Unread(p) THEN NextAt(now) ELSE now, catchUp |-> FALSE]
  ELSE IF slot <= now /\ ~covered
       THEN [at |-> now, catchUp |-> TRUE]
       ELSE [at |-> NextAt(now), catchUp |-> FALSE]

Seed ==
  /\ list # NotRead /\ known = NotRead
  /\ known' = list /\ list' = NotRead
  /\ due' = FirstDue(list).at /\ catchUp' = FirstDue(list).catchUp
  /\ UNCHANGED <<now, plan, redelivered, inboxVars, pumpVars, restoreVars, historyVars,
                 upsets>>

(* tick: redelivers the round of a mark that was not redelivered yet, or    *)
(* fires a new one.                                                         *)
Fire(p, was) ==
  IF p.pending # 0 /\ was # p.pending
  THEN /\ redelivered' = p.pending
       /\ Post([round |-> p.pending, at |-> events[p.pending].at, cause |-> p.cause])
  ELSE /\ redelivered' = was
       /\ Post(Fired(IF catchUp THEN "schedule_catchup" ELSE "fire"))

(* The rest of a refresh and the tick that follows it without an await. A   *)
(* refresh that fails leaves the tick with what was known.                  *)
Tick ==
  /\ known # NotRead
  /\ \/ list # NotRead /\ known' = list /\ UNCHANGED upsets
     \/ list = NotRead /\ known' = known /\ Upset
  /\ list' = NotRead
  /\ LET was == IF list # NotRead /\ list.pending = 0 THEN 0 ELSE redelivered IN
     IF due <= now
     THEN /\ Len(events) < MaxEvents
          /\ due' = NextAt(now) /\ catchUp' = FALSE /\ Fire(known', was)
     ELSE redelivered' = was /\ UNCHANGED <<due, catchUp, events, queue, writing>>
  /\ UNCHANGED <<now, plan, rows, marked, deferred, held, pumpVars, restoreVars,
                 historyVars>>

(* retrySoon: the tick comes earlier, and may redeliver the round again.    *)
RetrySoon ==
  IF known = NotRead THEN UNCHANGED <<due, redelivered>>
  ELSE /\ redelivered' = 0
       /\ due' = IF due <= now + RetryDelay THEN due ELSE now + RetryDelay

-----------------------------------------------------------------------------
(* Inbox and pump                                                          *)

WriteEnds(id) ==
  /\ id \in writing /\ writing' = writing \ {id}
  /\ \/ rows' = rows \cup {id} /\ marked' = marked \ {id} /\ UNCHANGED upsets
     \/ Upset /\ UNCHANGED <<rows, marked>>
  /\ UNCHANGED <<now, plan, schedulerVars, events, queue, deferred, held, pumpVars,
                 restoreVars, historyVars>>

Take ==
  /\ pc = "wait" /\ queue # <<>>
  /\ cur' = Head(queue) /\ queue' = Tail(queue) /\ pc' = "taken"
  /\ UNCHANGED <<now, plan, schedulerVars, rows, marked, events, deferred, writing, held,
                 blocked, restoreVars, historyVars, upsets>>

(* An arrival has asked for the limit to be tried (InboxDelivery says when  *)
(* it does): everything held goes back before it.                           *)
Release ==
  /\ pc = "taken" /\ blocked /\ blocked' = FALSE
  /\ queue' = deferred \o <<cur>> \o queue /\ deferred' = <<>>
  /\ cur' = 0 /\ pc' = "wait"
  /\ UNCHANGED <<now, plan, schedulerVars, rows, marked, events, writing, held,
                 restoreVars, historyVars, upsets>>

ShortCircuit ==
  /\ pc = "taken" /\ blocked /\ pc' = "settle"
  /\ UNCHANGED <<now, plan, schedulerVars, inboxVars, cur, blocked, restoreVars,
                 historyVars, upsets>>

\* mutant: the round that was completed last is not among the complete ones
StaleBefore(id, kept, last) ==
  events[id].cause # "manual" /\ id \notin kept /\ events[id].round < last

(* completedTimerRoundVerdict: a round asked for by a human is never        *)
(* complete, nor is one that the limit held back.                           *)
Stale(id, kept, last) ==
  events[id].cause # "manual" /\ id \notin kept /\ events[id].round <= last

RunCause(id) == IF events[id].cause = "manual" THEN "manual" ELSE "schedule"

(* #claimScheduledRun: the round is complete, cannot be claimed, or gets    *)
(* its mark, and the scheduler is told not to redeliver it.                 *)
Drop ==
  /\ pc = "taken" /\ ~blocked /\ Stale(cur, held, plan.last)
  /\ dropped' = dropped \cup {Round} /\ pc' = "settle"
  /\ UNCHANGED <<now, plan, schedulerVars, inboxVars, cur, blocked, restoreVars, answered,
                 finished, failed, unstarted, folded, rewound, upsets>>

ClaimFails ==
  /\ pc = "taken" /\ ~blocked /\ Upset /\ pc' = "settle"
  /\ unstarted' = unstarted \cup {Round}
  /\ IF RunCause(cur) = "manual" THEN UNCHANGED <<due, redelivered>> ELSE RetrySoon
  /\ UNCHANGED <<now, plan, catchUp, known, list, inboxVars, cur, blocked, restoreVars,
                 answered, finished, failed, dropped, folded, rewound>>

Claimed(p, r, cause) == [p EXCEPT !.pending = r, !.cause = cause]

Claim ==
  /\ pc = "taken" /\ ~blocked /\ ~Stale(cur, held, plan.last)
  /\ plan' = Claimed(plan, Round, RunCause(cur)) /\ redelivered' = Round
  /\ pc' = "turn"
  /\ UNCHANGED <<now, due, catchUp, known, list, inboxVars, cur, blocked, restoreVars,
                 historyVars, upsets>>

TurnAnswered ==
  /\ pc = "turn" /\ pc' = "complete"
  /\ answered' = answered \cup {Round} /\ failed' = failed \ {Round}
  /\ UNCHANGED <<now, plan, schedulerVars, inboxVars, cur, blocked, restoreVars, finished,
                 unstarted, dropped, folded, rewound, upsets>>

TurnHitsLimit ==
  /\ pc = "turn" /\ (SlowWrites \/ cur \notin writing)
  /\ Upset
  /\ pc' = "mark" /\ blocked' = TRUE
  /\ UNCHANGED <<now, plan, schedulerVars, inboxVars, cur, restoreVars, historyVars>>

(* Any other failure leaves the mark, and a round nobody asked for by hand  *)
(* is redelivered after a while.                                            *)
TurnFails ==
  /\ pc = "turn" /\ Upset
  /\ pc' = "settle" /\ failed' = failed \cup {Round}
  /\ IF RunCause(cur) = "manual" THEN UNCHANGED <<due, redelivered>> ELSE RetrySoon
  /\ UNCHANGED <<now, plan, catchUp, known, list, inboxVars, cur, blocked, restoreVars,
                 answered, finished, unstarted, dropped, folded, rewound>>

\* mutant: a mark that cannot be written is passed over
MarkOrNot ==
  /\ pc = "mark" /\ pc' = "complete"
  /\ \/ rows' = rows \cup {cur} /\ marked' = marked \cup {cur} /\ UNCHANGED upsets
     \/ Upset /\ UNCHANGED <<rows, marked>>
  /\ UNCHANGED <<now, plan, schedulerVars, events, queue, deferred, writing, held, cur,
                 blocked, restoreVars, historyVars>>

(* The row of a round that met the limit is marked before the round is      *)
(* recorded as complete; when that fails it is not recorded.                *)
Mark ==
  /\ pc = "mark"
  /\ \/ /\ rows' = rows \cup {cur} /\ marked' = marked \cup {cur}
        /\ pc' = "complete" /\ UNCHANGED upsets
     \/ Upset /\ pc' = "settle" /\ UNCHANGED <<rows, marked>>
  /\ UNCHANGED <<now, plan, schedulerVars, events, queue, deferred, writing, held, cur,
                 blocked, restoreVars, historyVars>>

Completed(p, r, cause) ==
  IF p.pending # r THEN p
  ELSE [p EXCEPT !.pending = 0, !.cause = "schedule",
                 !.last = IF cause = "schedule" THEN r ELSE @]

Complete ==
  /\ pc = "complete" /\ pc' = "settle"
  /\ \/ /\ plan' = Completed(plan, Round, RunCause(cur))
        /\ finished' = IF Round \in answered THEN finished \cup {Round} ELSE finished
        /\ rewound' = rewound \cup ((plan'.last + 1)..plan.last)
        /\ UNCHANGED upsets
     \/ Upset /\ UNCHANGED <<plan, finished, rewound>>
  /\ UNCHANGED <<now, schedulerVars, inboxVars, cur, blocked, restoreVars, answered, failed,
                 unstarted, dropped, folded>>

(* #settleInboxEvent: held, folded into an equal tick that is, or forgotten *)
(* once its write has ended.                                                *)
FoldsIntoHeldTick == \E i \in DOMAIN deferred : SameTick(events[cur], deferred[i])

SettleHeld ==
  /\ pc = "settle" /\ blocked /\ ~FoldsIntoHeldTick
  /\ deferred' = Append(deferred, cur) /\ held' = held \cup {cur}
  /\ cur' = 0 /\ pc' = "wait"
  /\ UNCHANGED <<now, plan, schedulerVars, rows, marked, events, queue, writing, blocked,
                 restoreVars, historyVars, upsets>>

Forget ==
  /\ pc = "settle" /\ cur \notin writing /\ (blocked => FoldsIntoHeldTick)
  /\ folded' = IF blocked THEN folded \cup {Round} ELSE folded
  /\ held' = held \ {cur} /\ cur' = 0 /\ pc' = "wait"
  /\ \/ rows' = rows \ {cur} /\ marked' = marked \ {cur} /\ UNCHANGED upsets
     \/ Upset /\ UNCHANGED <<rows, marked>>
  /\ UNCHANGED <<now, plan, schedulerVars, events, queue, deferred, writing, blocked,
                 restoreVars, answered, finished, failed, unstarted, dropped,
                 rewound>>

-----------------------------------------------------------------------------
(* Restart                                                                 *)

Restart ==
  /\ Upset
  /\ due' = 0 /\ catchUp' = FALSE /\ redelivered' = 0 /\ known' = NotRead /\ list' = NotRead
  /\ queue' = <<>> /\ deferred' = <<>> /\ writing' = {} /\ held' = {}
  /\ cur' = 0 /\ pc' = "wait" /\ blocked' = FALSE
  /\ restore' = "claim" /\ todo' = {} /\ born' = Len(events)
  /\ UNCHANGED <<now, plan, rows, marked, events, historyVars>>

RestoreClaims ==
  /\ restore = "claim" /\ restore' = "deliver" /\ todo' = rows
  /\ UNCHANGED <<now, plan, schedulerVars, inboxVars, pumpVars, born, historyVars, upsets>>

(* The rows of earlier processes are delivered in the order of their times, *)
(* but for those whose round is complete, which are removed.                *)
RestoreDelivers ==
  LET old   == {id \in todo : id <= born}
      stale == {id \in old : Stale(id, marked, plan.last)}
      live  == old \ stale
      Earlier(a, b) == \/ events[a].round < events[b].round
                       \/ events[a].round = events[b].round /\ a < b
  IN
  /\ restore = "deliver" /\ restore' = "done" /\ todo' = {}
  /\ \E s \in [1..Cardinality(live) -> live] :
       /\ \A i, j \in DOMAIN s : i < j => Earlier(s[i], s[j])
       /\ queue' = queue \o s
  /\ held' = held \cup (live \cap marked)
  /\ rows' = rows \ stale /\ marked' = marked \ stale
  /\ dropped' = dropped \cup {events[id].round : id \in stale}
  /\ UNCHANGED <<now, plan, schedulerVars, events, deferred, writing, pumpVars, born,
                 answered, finished, failed, unstarted, folded, rewound, upsets>>

Time ==
  /\ now < MaxTime /\ now' = now + 1
  /\ UNCHANGED <<plan, schedulerVars, inboxVars, pumpVars, restoreVars, historyVars,
                 upsets>>

Next ==
  \/ Manual \/ RefreshReads \/ Seed \/ Tick
  \/ \E id \in Ids : WriteEnds(id)
  \/ Take \/ Release \/ ShortCircuit \/ Drop \/ ClaimFails \/ Claim
  \/ TurnAnswered \/ TurnHitsLimit \/ TurnFails \/ Mark \/ Complete
  \/ SettleHeld \/ Forget
  \/ Restart \/ RestoreClaims \/ RestoreDelivers
  \/ Time

Spec == Init /\ [][Next]_vars

-----------------------------------------------------------------------------
(* A round whose completion was recorded after its turn begins a turn again, *)
(* in this process or a later one, only where its copy was held by the limit *)
(* (what was held is trusted not to have run) or where the base of the grid  *)
(* has moved back behind it since; and nothing moves the base back but an    *)
(* older round that the limit had held.                                      *)
NeverRunsAgain ==
  [][ /\ pc # "turn" /\ pc' = "turn" /\ RunCause(cur) = "schedule" =>
           Round \notin finished \/ cur \in held \/ Round \in rewound
      /\ plan'.last < plan.last => cur \in held /\ plan'.last = Round ]_vars

(* The base of the grid is never a round that did not run and that nothing  *)
(* brings back: it was answered, or failed, or was folded, or its row keeps *)
(* the mark.                                                                *)
BaseHasRun ==
  plan.last # 0 =>
    \/ plan.last \in answered \cup failed \cup unstarted \cup folded
    \/ \E id \in rows \cap marked : events[id].round = plan.last

(* A round whose turn failed is not dropped as complete before it has been  *)
(* answered: it is redelivered until it is.                                 *)
FailedIsRetried == failed \cap dropped = {}
=============================================================================
