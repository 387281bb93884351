# Verification of alteroid

alteroid runs a *clone*: a deputy that reads a stream of events (messages of its
human, reports of the managers it delegates work to, external events, timers),
one turn of a language model at a time, and never loses one. This directory
holds TLA+ specifications of the parts on which that promise rests, TLC runs that
check them on small instances, and proofs that TLAPS checks for every instance.
Paths below are relative to the repository.

## 1. The system

```
 clients ── HTTP ──> daemon (apps/daemon) ── owns ──> Clone (packages/core/src/clone.ts)
                        │                               │  Inbox, CloneDelivery, pump
                        │                               ├─> stores (storage-fs, storage-pg)
                        └── Managers (manager.ts) ──────┴─> runner (apps/runner, runner.ts) ──> sessions
```

| part | state it keeps | operations | hard behaviour | what makes it correct |
|---|---|---|---|---|
| Inbox and delivery: `clone.ts` `#admit` .. `#pump` .. `#settleTurn` .. `#restoreUnreadPass`, `inbox.ts`, `clone-delivery.ts`, `inbox-backlog.ts`, `storage-fs/src/inbox.ts` | rows of the store; the queue; events held by the usage limit; running writes; the collapse index; marks of the restore pass | post, postPersisted, the pump's turn, hold, release, settle, forget, restore, remove, withdraw, stop | callbacks cut in at every await; a usage limit that closes and reopens; crashes; the restore pass against live posts | an event stored is read or removed on request, never twice at once; order is kept; nothing is stranded; stop ends |
| Approval answers: `answerApproval`, `#handleHumanAnswer`, `#reopenAnswerDeliveryAfterFailure`, `#reconcileUndeliveredAnswers` | the approval and its `answerDelivery` mark; permission grants; rows; `#handledHumanAnswerIds` | answer, withdraw, record the grant, put, mark, post, handle, reopen, reconcile | a sequence of four writes any of which may fail or be the last one before a crash; two copies of one answer | an answer is read at least once, its consent recorded exactly once |
| Store lock: `storage-fs/src/file-lock.ts`, `atomic.ts` | the lock file; a chain of promises in each process | withPathLock: queue, open, reclaim, run, release | several processes, a dead owner, clocks, failing system calls | updates exclude each other; calls end, in order |
| Managers and leases: `manager.ts`, `lease.ts`, `runner-roster.ts`, `resume-event-windows.ts` | the row of a delegation with its lease; records, sightings of runners, tracked generations, resumes and stops under way | claim, resume, record, send, abort, vacate, reattach, relocate, restore, handle closed events | a restarted daemon; runners replaced, drained, silent or dead; stops that cross resumes; late events of replaced sessions | one session works on a delegation; a lease that may be taken belongs to no live session; what was stopped stays stopped |
| Runner: `runner.ts`, `runner-protocol.ts`, `runner-outbox.ts`, `apps/runner` | sessions, fences, staged files | start, resume, send, stop, self-fence, drain, collect, acknowledge | a daemon that goes away and returns; crash between copy and unlink | commands under an older fence are refused; a file is neither lost nor sent for another report |
| Runner event stream: `apps/runner/src/app.ts`, `apps/daemon/src/runner-client.ts` | the numbered log of events and its cursor; the last number read | push, subscribe, write, trim, connect, read, give up | connections that die without a word, writes that return late, numbers that restart from 1 | the daemon reads each event once, in order, and none is skipped but for a named reason |
| Keys and usage: `token-rotator.ts`, `token-pool.ts`, `usage-wake.ts` | keys, cool-downs, timers | rotate, note a limit, wake | clocks, 429 racing success | a key that has recovered is tried; no busy loop |
| Scheduled rounds: `schedule.ts`, `schedule-run-transition.ts`, the timers of `clone.ts` | the row of a request with the mark of the round at work; the scheduler's maps; rows of timers, some marked as held | fire, catch up, redeliver, retry, claim, complete, mark, hold, restore | a restart between claim and completion, the usage limit in a round, the copies of one round | a round that was completed is not run again; the grid moves on only past rounds that ran |
| Tasks, peers, notices, conversations | open tasks, windows of notices | open, close, join | restarts | - |
| Daemon routes, CLI, web | SSE streams, caches | requests | slow readers | thin: they call the parts above |

The parts meet as follows. Managers, routes and timers call `Clone.post`
(fire and forget) or `postPersisted` (answered when the row is written). The
pump is one asynchronous loop; everything else runs between its awaits. The file
stores make every read-modify-write under `withPathLock`, so that the delivery
modules may take `put`, `remove` and `updateApproval` as atomic when they take
effect; when that is, relative to the caller's other steps, is modelled.

## 2. Modules

| module | what it is |
|---|---|
| `InboxContract` | abstract: where an event may be (posted, in memory, stored, finished, removed, gone) and which moves are allowed |
| `EventQueue`, `EventQueueProofs` | sequences of events: what occurs in one, what is taken out, in which order; lemmas for the proofs about the inbox and the rounds |
| `InboxDelivery` | the delivery of the clone, one action per step between awaits; implements `InboxContract` |
| `InboxDeliveryProofs`, `InboxPlacesProofs` | its theorems: types, the limit, rows that leave and the closed inbox; then where every event is, and the refinement |
| `FileLock`, `FileLockProofs` | the store lock and its theorems |
| `AnswerDelivery`, `AnswerDeliveryProofs` | answers to approvals, over a coarser inbox, and the theorems |
| `DelegationLease`, `DelegationLeaseProofs` | one delegation, its lease and the runners that may hold its session, and the theorems |
| `EventStream`, `EventStreamProofs` | the stream of events from a runner to the daemon, and the theorems |
| `ScheduledRounds`, `ScheduledRoundsProofs` | one standing request, the scheduler and the clone that runs its rounds, and the theorems |
| `MC*` | values of the constants for TLC |

### InboxDelivery

An event is a number, in the order of `at`; its *kind* stands for its type and
text: two reports are two events of equal text. `rows` is the store. `queue` is
`Inbox.#queue`, `deferred` is `#deferredUntilUnblocked`, `batch` and `pc` are the pump's locals and
where it is (`waiting` is `Inbox.next` without an event), `writing` are the puts of
`#remember`, `persisting` those of `postPersisted`, `rep` the collapse index,
`restore` and `todo` the restore pass. `usageBlocked` is `no`, `cooling` or `due`:
whether the limit is closed and whether its reset is still ahead with the same key.

| action | code |
|---|---|
| `Post`, `PostFolded`, `PostRowFolded`, `PostClosed`, `PostPersisted`, `Persisted`, `PersistRefused` | `#admit` with its branches, `#persistThenEnqueue`, `#persistThenSettleClosed` |
| `WriteEnds` | the end of `#persistUnread`'s put, or of its retries |
| `PumpNext`, `PumpCheck`, `PumpRelease`, `PumpShortCircuit`, `PumpRecovered`, `PumpStartTurn` | `#pump`, one action per piece without an await |
| `TurnAnswered`, `TurnHitsLimit`, `TurnFails`, `RateLimited`, `LimitAges` | the end of a turn, the limit's notice in the stream, the time |
| `SettleHeld`, `SettleForget`, `Forget` | `#settleTurn`, `#settleInboxEvent`, `#forget` |
| `ClaimPending`, `ClaimAbandoned`, `RegisterRepresentatives`, `RestoreLoop`, `RestoreRecord`, `RestoreEnds` | `#restoreUnread` and its pass; the loop has no await between rows that are not dropped, so nothing else runs in it |
| `RemoveRow`, `StopDelivery`, `Withdraw`, `WithdrawRemoves` | removal of a row by the backlog's routes, withdrawal of a message |
| `Stop`, `Close`, `Restart` | `stop()`, `Inbox.close`, a crash or exit followed by a start |

### AnswerDelivery

An answer is identified by its approval, because `updateApproval` accepts one and
the event's id is made of approval and time. Durable: `approval`, `delivery` (the
`answerDelivery` mark), `consented`, `grants`, `rows`. In memory: `call` is where
`answerApproval` is, `queued` and `held` count the copies of an answer, `handled` is
`#handledHumanAnswerIds`, `restore`, `claimed`, `todo` the restore pass and the
reconciliation. `Answer`, `Grant`, `Put`, `Mark`, `Post` are the writes of
`answerApproval` in their order; `Take` .. `Forget` the pump around
`#handleHumanAnswer` and `#settleTurn`; `Reconcile*` the steps of
`#reconcileUndeliveredAnswers`. The inbox is coarser than in `InboxDelivery`: no
order, no merging and no stop, which no property here is about. `consented`
stands for an answer that is the consent phrase to a permission request and came
from an account.

### FileLock

`lock` is the file (`None` when there is none), with the call that opened it, whether its payload is written and whether
it is older than `staleMs`; `prior` is the chain of promises of each process.
Every system call is an action of its own (`Open`, `WritePayload`, `Stat`, `Restat`,
`Unlink`, `Check`, `Remove`), the section is a read and a write of the guarded file
(`Read`, `Update`), and `Crash` ends a process anywhere.

### DelegationLease

`store` is the row of the job ledger and `job` the daemon's copy of it, which differ
between a claim and the next write. `image` is what else the record knows: the generation of
the session it tracks (`sessionGeneration`), whether a stop was confirmed
(`stopConfirmedAt`), and `absent`, nothing loaded yet after a restart. `resume` and
`halt` are the resume (`#resuming`) and the stop or vacate under way, with where they are.
`roster` is what the daemon remembers of each runner. On the runners' side, `proc` counts a
runner's processes, `cur` is the session in the one that answers, `old` the session in the
one that was replaced and drains, `fmem` the newest fence accepted, `contact` the age of
the last request. Times are ages, up to `Cap = Ttl + Margin`.

| action | code |
|---|---|
| `Reattach`, `Send`, over `Claim` | `#reattachOne`, `#reenterByResume`; `#claimForResume`, `judgeLease`, `grantLease` |
| `Issue`, `Reach`, `Answered`, `Listed`, `GiveUp`, `Declined`, `Record`, `Fold` | `#resume`, `#issueResume` and `#recordResumed` with their three looks at a stop, `RunnerHost.resume` with the comparison of fences, `#classifyReattachError`, `#settleStoppedAfterResume` |
| `Abort`, `Vacate`, `HaltStop`, `HaltGone`, `HaltUnsure` | `abort`, `vacate`, `#confirmStoppedAndReleaseLease`, `#reconfirmAfterMove` |
| `HandleClosed` | the closed event of a session through the window of a resume, the test of its generation and `#applyClosedToJob` |
| `Deliver`, `Align`, `Probe` | a message into an attached session, `#alignToTarget`, a heartbeat |
| `SelfFence`, `Finish`, `Swap`, `Drained`, `Die` | the ends of a session and of a runner's process |
| `Restart`, `Restore` | a daemon with nothing but the ledger, `#restoreJobs` |

`Assumed` is a set of *premises*: what the code takes for granted of its surroundings and
does not itself see to. Each is a guard on the actions that could break it.

| premise | what is assumed | where the code relies on it |
|---|---|---|
| `prompt` | a resume or a stop ends within one unit of the clock | a request that has timed out may still arrive |
| `heard` | a runner that requests reach is itself heard | requests renew the runner's watch, answers the daemon's |
| `noticed` | a replaced runner is asked nothing before the roster has noticed | `instanceId` comes with the heartbeat |
| `fresh` | a runner is replaced soon after the row was last written | the comment above `decideAfterSwap` says so of the drain |
| `opened` | after a restart the lease's holder answers before a claim | `lastSeenAt` is in memory |
| `apart` | no vacate and no closed event within a resume, no resume within a stop | the windows keep back the events of some resumes only |
| `latest` | a closed event met without a tracked generation is of the last session | the generation is in memory |
| `answered` | a resume that took is answered or listed, and a stop that crosses it is seen through | `GiveUp` leaves the row as it is |

With all eight, every property below holds. Without any one of them TLC finds
`AtMostOneSession` (`apart`, `fresh`, `heard`, `opened`, `prompt`) or the first half of `FreeMeansEnded`
(`answered`, `apart`, `latest`, `noticed`) violated, so that none is idle. The theorems about sessions have all
eight as their hypothesis; those about `FenceIsLedgered` and `LeaseSuccession` have none.

Left out: runners without names and two of one name (the verdicts `undecidable`,
`ambiguous`, `unheld`), writes of the row that fail, the automatic fold of a stop at the
end of a resume whose reason is an abort, and more than one restore per restart. `Send`
may resume a session that is attached, which is more than the code does. The runner's watch
and the host's drain are kept in time (`Tick`).

### EventStream

`nextSeq`, `written` and `kept` are the Outbox: its log is the run of numbers `kept ..
nextSeq - 1`, of which those up to `written` have been written. A connection has two ends,
because the daemon may have given up on one that the runner still writes to, or whose request
is still on its way: `stage`, `cursor`, `reached`, `claim` are the runner's end, `up` and `wire`
the network, `reading` the one that the daemon reads. `Push`, `Subscribe`,
`Hello`, `Write`, `Reach`, `WriteReturns`, `WriteFails`, `LoopEnds` are the Outbox and the handler of
`/events`, `Connect`, `Read`, `GiveUp` are `#pump`, `#stream` and `#read`; `Cut`,
`RequestLost` are the network; `RunnerRestarts` and `DaemonRestarts` forget everything on their
side. A write that returns and a write that reaches the other end are separate steps, in either
order.

`excused` names why an event need not arrive: it was written before the daemon's first
claim, has left the history by its limits, or was passed over by a claim that belonged to a
number of the last runner (`passed`). The last is a gap of the code: `#startCursor` tells such a claim
apart only when its number has not been given yet, so that a smaller one makes the new
runner begin behind it. The comment at `app.ts:286` describes the first case alone.

### ScheduledRounds

A round is the number of the event that first fired it, events are numbered in the order
of `at`, and `events` keeps each one's round, time and cause: the copies of a redelivered
round have new numbers and its time. `plan` is the row of the request: the mark of a claimed round
(`pendingRun`) and the base of the grid (`lastScheduledRunAt`). `due`, `catchUp`, `redelivered`, `known`
are the scheduler's maps and `list` a refresh between its read and what it does with it.
`marked` are the rows with `heldForUsage`, `held` the events that the clone knows it holds.
`Fire`, `FirstDue`, `RetrySoon` and `Tick` are the scheduler, `Drop`, `ClaimFails`, `Claim` are
`#claimScheduledRun`, `TurnAnswered` .. `Complete` are `#settleTimerRun`, `RestoreDelivers` the restore
pass with its verdict on complete rounds. The inbox is coarser than in
`InboxDelivery`: one kind of event, and no stop.

Three things are excused. `NeverRunsAgain` allows a copy that the limit has held: such a row
is exempt from the verdict on complete rounds, so that a round answered after the release,
whose row then could not be removed, runs once more at the next start, though
`clone-schedule-crash-restart.test.ts:104` states the opposite of rounds in general. It allows
a round that the base has moved back behind (`rewound`). `completeScheduledRunRow`
(`schedule-run-transition.ts:35`) writes `lastScheduledRunAt` whatever it was: when the limit
has held a round, a restart has caught up a newer one and that has been completed, completing
the older one moves the base back, and a copy of the newer one that is still about (a row whose
removal failed, or one that a refresh with a stale mark has posted again) is no longer judged
complete, against the comment at `clone.ts:4974`. The bounds of `schedule_rounds` do not reach
that last step (it needs three failures and a shorter grid), but they do reach the base moving back; the
proof found it. The property says besides that nothing but the completion of a held round
moves the base back. And
`SlowWrites` is false: were a row's first put, with its retries, to end after the put of the
mark, it would write over the mark, and `BaseHasRun` fails.

Left out: edits and withdrawal of the request, a failed `peekPending`, the phases of the
built-in jobs, daily and cron grids (one grid stands for all), the daily report.

## 3. Runs

Each run answers one question. Every property has a mutant, a plausible bug of
the code, that the run finds.

| run | question | bounds |
|---|---|---|
| `inbox_kinds` | when the limit closes, is retried and reopens while `stop` cuts in, is anything stranded, overtaken, delivered twice or pushed into a closed inbox; do ticks pile up? | 2 events, all kinds |
| `inbox_crash` | what do a crash anywhere, a failed store operation and a removal do to rows and events; is an erased event ever read; is `InboxContract` implemented? | 2 events, 1 restart, 1 fault, requests about the first |
| `inbox_live` | does `stop` end, is every row's event read? | 2 events, no restart |
| `inbox_representative` | (violated) is an event being read ever a representative? | 2 reports |
| `lock_faults` | exclusion, updates, order and the end of calls, with processes that die, system calls that fail and sections that outlast `staleMs` | 2 + 1 calls in 2 processes, 2 faults |
| `lock_reclaim` | (violated) exclusion when two processes reclaim one lock | 3 processes |
| `answer_faults` | are the answer and its consent kept, granted once and read once per life, and read in the end, when operations and turns fail, the limit closes and processes die? | 1 answer, 2 restarts, 2 faults |
| `answer_race` | (violated) is an answer whose turn failed kept for the next start? | 1 answer |
| `lease_safe` | does one session at most work on the delegation; what do released, expired and stopped mean for live sessions; how do leases follow each other? | 2 runners, 2 fences, 2 sessions, 2 upsets, every term one unit |
| `stream_faults` | is every event read once, in order and none skipped; what may leave the history; does everything arrive? | 2 connections, 3 events, a history of 2, 2 processes of each side, 2 upsets |
| `schedule_rounds` | is a completed round run again; does the base of the grid pass a round that did not run? | 3 events, 4 units of time (two points of the grid), 2 failures or restarts |
| `schedule_retried` | (violated) is a round whose turn failed redelivered until it is answered? | 3 events, 3 units of time, 3 failures |

*Why the bounds suffice.* The races of the inbox are between one event's own steps
(its write, its turn, its removal, its restoration) and one other event that
wakes, folds into, merges with or overtakes it; a pair of events shows each. What is held is
released as a whole, so that two held events show every order. One restart
shows every state a crash leaves behind, as memory is empty afterwards; `answer_faults` has a second one because
reconciliation is itself interrupted. For the lock, the interesting pairs are two
calls in a process and two processes, either of which may leave a stale lock.
For the lease, two upsets make a fault fall into the consequences of another; seven of the eight premises, when
dropped, are refuted within these bounds, and the eighth (`opened`) is with three fences and one upset, bounds
within which nothing is refuted when all eight are assumed. In the stream, an event longer than the others makes
both limits of the history bite, two connections show superseding, and a third adds only a
second superseded one. A round needs three events for its life: itself, its
redelivery and one more round of the grid; two upsets put a restart, a failure or a limit into the consequences of another.
`CHECK_DEADLOCK FALSE` is there because all of these systems may stop: the bounds
run out, the daemon stops, or nobody posts.

*What the violated runs show.*

- `lock_reclaim`: the comment at `file-lock.ts:51` argues that two processes may
  both unlink a stale lock because the next `open(wx)` decides; the slower unlink
  removes the winner's fresh lock. This is why the proofs of exclusion have one process that reclaims
  (`OneReclaimer`), and why `lock_faults` has two processes.
- `inbox_representative`: `#registerRestoredRepresentatives` registers rows the
  pump has already taken, which the comment at `clone.ts:2182` says must not happen.
- `answer_race`: the reconciliation marks delivered an answer whose turn has
  failed and reopened it a moment before. `answer_faults` therefore lets turns fail
  only once the restore pass is over and no other copy of the answer waits
  (`TurnsFail = "alone"`), and neither the put nor the reopening fail (`MostFaults`):
  within those limits `AnswerIsKept` holds, outside of them it does not: after a put
  that failed, the turn marks the answer delivered while its row is not yet written.
- `schedule_retried`: a round that the limit held is recorded as complete. When it later runs and
  fails for another reason, its retry is a new event without the mark, and is dropped as
  complete; the comment at `clone.ts:4663` says that it is redelivered until it succeeds.

## 4. Fairness

`Spec` has none; safety is checked without it. `FairSpec` of `InboxDelivery` is weakly
fair for the pump, the restore pass, the end of each write, each half-done removal
and `Close`: the event loop runs every ready continuation, store operations
answer or exhaust their retries, and a turn ends, for which the code has a
watchdog. Posting, stopping, removing and the reopening of the limit are not
fair: nobody is obliged to do them. `AnswerDelivery` adds strong fairness of
`Take(a)`: its queue has no order, and the code's queue is first in, first out.
`AnswersAreRead` asks nothing while the limit is closed, which need never reopen.
`FileLock` is weakly fair for each call's own steps and its deadline, and not for
a crash. `EventStream` is weakly fair for `Connect` (the pump connects again for ever),
`Read`, the handler's steps but for a failing write, and the giving up of a connection that has
ended, for which the daemon has a watchdog; not for pushes, cuts and restarts.
`DelegationLease` and `ScheduledRounds` state no liveness: whether a delegation comes back depends on runners
that nobody owes.

## 5. Proofs

For all values of the constants, under the assumptions named in the modules:

- `InboxTypeCorrect`, `LockTypeCorrect`: the type invariants. The first needs that a
  batch is never empty while the pump is in a turn and that only the distillation has its kind (`Typed`).
- `HeldWaitForLimit`: an event is held only while the limit is closed.
  Not inductive alone: a turn that has met the limit must keep it closed until it
  is settled, and no event is held while a turn runs that began with an open limit (`HeldInv`).
- `RowsLeaveDone`: a row leaves the store only with its event concluded or its removal
  asked for; needs that the events being settled without deferral are concluded (`DoneInv`).
- `ClosedIsNotPushed`: no path pushes into a closed inbox.
- `TurnsAreTaken`: the calls of one process run one at a time and in their order. The
  invariant `Chain` says that a call's predecessor is older, that nobody has two waiting successors and that whoever is not last has one.
- `SectionsExclude`, `UpdatesAreKept`, `SectionsKeepTheirLock`, from `Calm => Locking`: as long as no system call has
  failed and no section has outlasted `staleMs` (`Calm`), the lock
  of a running section is its own, a reclaimer's stale lock belongs to the dead, and
  a section that has read has seen every update. They hold under
  `OneReclaimer`: beside a process that may die there is one other. `lock_reclaim` shows that it is needed.
- `ReadOnce`, `NothingStranded`, `ErasedIsGone`, `OneTickHeld` and the action properties
  `DeletedRowsStayDeleted`, `OrderIsKept`, `FinishedNotQueuedAgain`, all from one invariant about
  the places of an event (`PlacesInv`). The pipeline (held events, batch, queue) has no event
  twice. The restore pass queues a row only when nothing posted it in this life, so what the pass has
  yet to do and the pipeline are disjoint but for what is noted as posted. A row that has no
  event in the pipeline is ahead of the pass, or its removal is under way. What a removal has reached
  is in no place at all, its put included. `EventQueueProofs` says what
  the contents and the order of a queue become when it is joined, cut, appended to, inserted into
  or searched; every step of the pump is one of these.
- `InboxKeepsContract`: the refinement of `InboxContract`. For each action, each event's place
  moves as the contract allows or stays; that a crash loses only what is not stored and a removal
  never takes what is being read follows from the same invariant.
- `ScheduleTypes`, `RoundsRunOnce`, `BaseNeverLost`. `RunsInv`: a round that runs has the mark and lies past
  the base, unless it was held; a recorded round lies at or before the base or was rewound. `BaseInv`: an event is in line once, the put
  of a row ends before its mark is written, and what is forgotten with the mark has been answered, has failed, or was
  folded; it needs `~SlowWrites`, without which TLC refutes it.
- `AnswerTypes`: at most two copies of an answer wait or are held at once, because in one life `answerApproval`
  posts it once and the restore pass queues it once, from its row or by the reconciliation (`CopiesInv`).
- `GrantsAreSingle`, `AnswersAreReadOnce`, `ConsentsAreKept`: unconditional. `GrantInv` keeps
  apart the life that took an answer, in which `answerApproval` may grant, and later ones, in which the
  reconciliation may. `HandledInv`: what is handled is what this life has answered for,
  and the answer of the turn that runs. `ConsentInv`: every state past the grant (a row, a
  copy, a mark) has it.
- `AnswersAreKept`, under `Careful` (the put and the reopening do not fail, a turn fails only when it has the last
  copy). `KeptInv` says that every copy that could still be marked delivered has a
  row or is concluded, and that an answer whose turn failed is nowhere else and pending before its row goes.
  `answer_race` shows that the second half is needed.
- `FencesAreLedgered`: whatever is assumed, no runner has a fence that the ledger has not. The invariant
  follows a fence from the row through the resume to the runner, including the daemon's copy,
  which is never ahead of the row in its fence. `LeasesSucceed`: in the ledger a lease changes hands only under a newer fence.
- `OneSession`, `FreeLeaseEnded`, `StopIsFinal`, under all the premises (`Assumed = Premise`), from one invariant (`Sound`).
  Whoever works is the runner that the lease names, in one process (`Holder`). A draining process is older than
  the one that the roster may know (`Processes`), and its drain outruns both what the roster counts since it noticed and
  the age of the lease (`Draining`); a runner with a session was heard within `Ttl`, or has just been
  contacted under a lease of age 0 (`Watched`). So the two verdicts that infer an end from ages
  infer it rightly (`FreeEnds`, the lemma behind every claim and every confirmed stop).
  A session has the last generation and a closed event of that generation is true (`Generations`), which
  makes `HandleClosed` release rightly. Across a resume: nobody else works, a released lease
  means that the resume will find the stop (`Resuming`, `Released`), and a stop looks where the
  session is (`Halting`, `Stopped`). The terms enter only through `Drain <= Ttl` and `1 <= Margin`.
- `ReadOnceInOrder`, `NoneSkipped`, `LeavesWritten`, `ReplaysAreKept`, for any connections, limits and lengths of
  events. What trimming removes is a lemma of its own (`LeastExists` and those
  after it). The order rests on an invariant that relates what a daemon has read, its claim, what is
  on the wire and the cursors behind it, for every connection; that nothing is skipped adds that each of those
  has no gap but an excused one.
- `TypesHold` of both modules.

Proving changed two models. `NoRowComesBack` had a bullet in the wrong column and said less than was meant; it now says it,
and holds. In `ScheduledRounds` the number of a round that had been folded when it was posted could be given
again, which weakened `BaseHasRun`; only what is folded into a held tick is excused now. `rewound` is the third change, above.

Only model-checked: all liveness (`StopEnds`, `RowsAreRead`, `CallsEnd`,
`AnswersAreRead`, `EventsArrive`), which needs fairness and ENABLED. Every invariant and every action
property of a passing run is the statement of a theorem, some under the hypotheses named above.
Induction over data is beyond the provers; the modules have no recursive operators.

## 6. Not modelled

- In the delivery: notices of the token pool (merged before they are posted), the wait for a manager's report to settle, the journal.
  Timers that are stale, and their mark `heldForUsage`, are in `ScheduledRounds` alone. A row's age is no state of the model.
- A second call of `stop()` while the first waits.
- ENOENT on the lock's directory (`mkdir` and retry).
- Of the managers: how a delegation starts, reports, questions and confirmations, messages beyond the resume they
  may cause; of a runner: its turns and tools.
- The texts of prompts, notices and journal entries, everywhere.
- The parts that `PROJECT.json` lists as `not_modelled`, each with its reason.

## 7. Plan

1. Done: inbox delivery, store lock, answers, the lease of a delegation, the event stream, scheduled rounds.
2. `RunnerOutbox`, `HeldMessages`: files and messages kept across an unreachable
   peer; abstract specification: each is delivered at most once for a report and
   not lost.
3. `ManagerSession`: questions, confirmations and reports of one manager's session, over
   `DelegationLease` and reading from `EventStream`.
4. `TokenRotation`: keys, cool-downs and the wake timer; composed with the limit of
   `InboxDelivery` (its `LimitAges` and `RateLimited`).
5. Tasks, and the edits and withdrawal of a standing request.
6. Proofs: for each theorem about sessions, the premises that it needs rather than all of them.
