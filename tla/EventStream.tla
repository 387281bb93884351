----------------------------- MODULE EventStream -----------------------------
(***************************************************************************)
(* How the events of a runner reach the daemon, over connections that die. *)
(*                                                                         *)
(* apps/runner/src/app.ts: the Outbox numbers events and keeps those that  *)
(* are not written, and a history of those that are; the handler of        *)
(* /events writes from its cursor on.  apps/daemon/src/runner-client.ts:   *)
(* the pump connects again whenever a connection ends, claiming the last   *)
(* number it has read (Last-Event-ID).  Both sides lose it all when their  *)
(* process ends, and the runner then numbers from 1 again.                 *)
(*                                                                         *)
(* The log of the Outbox is a run of numbers, kept .. nextSeq - 1, and its *)
(* sent part is kept .. written.  A connection has two ends: the daemon    *)
(* may have given up on one the runner still writes to, or is asked for.   *)
(***************************************************************************)
EXTENDS Integers, Sequences, FiniteSets

CONSTANTS
  Conns,         \* connections that may exist at a time, a set of numbers
  None,          \* no connection, no claim
  SENT_HISTORY_LIMIT,
  SENT_HISTORY_MAX_CHARS,
  Chars,         \* how long the body of the event of each number is
  MaxSeq,        \* bound: events of one runner
  MaxRunner, MaxDaemon,  \* bound: processes of the runner, and of the daemon
  MaxUpset       \* bound: connections lost, writes past their deadline

ASSUME EventStreamAssumption ==
  /\ Conns \subseteq Nat /\ None \notin Nat
  /\ SENT_HISTORY_LIMIT \in Nat \ {0} /\ SENT_HISTORY_MAX_CHARS \in Nat
  /\ MaxSeq \in Nat /\ Chars \in [1..MaxSeq -> Nat]
  /\ MaxRunner \in Nat \ {0} /\ MaxDaemon \in Nat \ {0} /\ MaxUpset \in Nat

ASSUME NoneIsNoEvent == None \notin [runner : Nat, seq : Nat]

VARIABLES
  (* the Outbox of the runner's process *)
  runner,     \* the number of that process
  nextSeq, written,
  kept,       \* the number of the first event in the log
  current,    \* the connection subscribed
  (* connections: the runner's end, the wire, the daemon's end *)
  stage,      \* where the handler is: "free" (none), "sent" (a request on its
              \* way), "hello", "idle" or "writing"
  cursor,     \* the next number to write
  reached,    \* whether what is being written has reached the daemon's end
  up,         \* whether bytes still reach a daemon that reads them
  wire,       \* events that have reached the daemon's end and wait to be read
  claim,      \* the Last-Event-ID of the request, with the runner it came from
  (* the daemon's process *)
  daemon,     \* the number of that process
  reading,    \* the connection #stream reads
  lastEventId,   \* the last number read, with the runner it came from
  firstIdSeen,
  (* bound and history *)
  upsets,
  got,        \* what this daemon has read, in order
  given,      \* numbers of this runner whose write has returned, or read by a daemon
  passed,     \* numbers of this runner at or below a claim of another runner's number
  excused     \* events this daemon will not get, for a reason the code gives

outboxVars == <<nextSeq, written, kept>>
endVars    == <<cursor, reached, claim>>
daemonVars == <<daemon, reading, lastEventId, firstIdSeen, got>>
vars == <<runner, outboxVars, current, stage, endVars, up, wire, daemonVars, upsets, given,
          passed, excused>>

Events == [runner : 1..MaxRunner, seq : 1..MaxSeq]
Event(r, s) == [runner |-> r, seq |-> s]
Claims == Events \cup {None}

TypeOK ==
  /\ runner \in 1..MaxRunner /\ daemon \in 1..MaxDaemon /\ upsets \in 0..MaxUpset
  /\ nextSeq \in 1..(MaxSeq + 1) /\ written \in 0..MaxSeq /\ written < nextSeq
  /\ kept \in 1..(MaxSeq + 1) /\ kept <= nextSeq
  /\ current \in Conns \cup {None} /\ reading \in Conns \cup {None}
  /\ stage \in [Conns -> {"free", "sent", "hello", "idle", "writing"}]
  /\ cursor \in [Conns -> 1..(MaxSeq + 1)] /\ reached \in [Conns -> BOOLEAN]
  /\ up \in [Conns -> BOOLEAN] /\ wire \in [Conns -> Seq(Events)]
  /\ claim \in [Conns -> Claims] /\ lastEventId \in Claims /\ firstIdSeen \in BOOLEAN
  /\ got \in Seq(Events) /\ given \subseteq 1..MaxSeq /\ passed \subseteq 1..MaxSeq
  /\ excused \subseteq Events

Init ==
  /\ runner = 1 /\ nextSeq = 1 /\ written = 0 /\ kept = 1 /\ current = None
  /\ stage = [c \in Conns |-> "free"] /\ cursor = [c \in Conns |-> 1]
  /\ reached = [c \in Conns |-> FALSE] /\ up = [c \in Conns |-> FALSE]
  /\ wire = [c \in Conns |-> <<>>] /\ claim = [c \in Conns |-> None]
  /\ daemon = 1 /\ reading = None /\ lastEventId = None /\ firstIdSeen = FALSE
  /\ upsets = 0 /\ got = <<>> /\ given = {} /\ passed = {} /\ excused = {}

-----------------------------------------------------------------------------
(* The Outbox. *)

Upset == upsets < MaxUpset /\ upsets' = upsets + 1
Calm  == UNCHANGED upsets

Push ==
  /\ nextSeq <= MaxSeq /\ nextSeq' = nextSeq + 1
  /\ UNCHANGED <<runner, written, kept, current, stage, endVars, up, wire, daemonVars, upsets,
                 given, passed, excused>>

Superseded(c) == current # c

\* mutant: only the very number of the cursor is looked up
PeekExact(c) == IF cursor[c] < kept THEN nextSeq ELSE cursor[c]

(* What peek returns: the first event of the log at or after the cursor.     *)
Peek(c) == IF cursor[c] < kept THEN kept ELSE cursor[c]

CharsThrough[n \in 0..MaxSeq] == IF n = 0 THEN 0 ELSE CharsThrough[n - 1] + Chars[n]

(* Whether the history first .. last is over one of its limits.              *)
Over(first, last) ==
  \/ last - first + 1 > SENT_HISTORY_LIMIT
  \/ /\ CharsThrough[last] - CharsThrough[first - 1] > SENT_HISTORY_MAX_CHARS
     /\ last > first

(* #trim drops the oldest of the history until it is within its limits.      *)
Trimmed(first, last) ==
  CHOOSE k \in first..(last + 1) :
    ~Over(k, last) /\ \A j \in first..(k - 1) : Over(j, last)

\* mutant: the number after the one written is taken for written
WroteNext(seq) ==
  /\ written' = IF seq >= written THEN seq + 1 ELSE written
  /\ kept' = Trimmed(kept, seq)
  /\ UNCHANGED nextSeq

(* #markWritten and #trim.                                                   *)
Wrote(seq) ==
  /\ written' = IF seq > written THEN seq ELSE written
  /\ kept' = Trimmed(kept, written')
  /\ UNCHANGED nextSeq

\* mutant: the write of a connection that was replaced counts
ReturnedAnyway(c) == Wrote(cursor[c])

Returned(c) == IF Superseded(c) THEN UNCHANGED outboxVars ELSE Wrote(cursor[c])

\* mutant: the event claimed is written again
StartAtClaim(l) ==
  IF l = None THEN written + 1 ELSE IF l.seq >= nextSeq THEN kept ELSE l.seq

\* mutant: what is written is taken for delivered, whatever is claimed
StartAfterWritten(l) ==
  IF l = None \/ l.seq <= written THEN written + 1
  ELSE IF l.seq >= nextSeq THEN kept ELSE l.seq + 1

StartCursor(l) ==
  IF l = None THEN written + 1 ELSE IF l.seq >= nextSeq THEN kept ELSE l.seq + 1

-----------------------------------------------------------------------------
(* The handler of /events. *)

EndOf(c) ==   \* detach; the cursor is dropped with the connection
  /\ stage' = [stage EXCEPT ![c] = "free"]
  /\ cursor' = [cursor EXCEPT ![c] = 1] /\ reached' = [reached EXCEPT ![c] = FALSE]
  /\ current' = IF Superseded(c) THEN current ELSE None

(* A number of another runner that this one has used as well.                *)
StaleClaim(l) == l # None /\ l.runner # runner /\ l.seq < nextSeq
PassedBy(l) == IF StaleClaim(l) THEN 1..l.seq ELSE {}

(* What a connection with this claim does not bring, for a reason: without a *)
(* claim what is written already, otherwise what has left the history, and   *)
(* what a stale claim passes over, while nothing of this runner is read.     *)
Excuses(l) ==
  LET lost == given \cup passed
      gone == IF l = None THEN lost ELSE (1..(kept - 1)) \cap lost
      over == IF \A i \in 1..Len(got) : got[i].runner # runner THEN PassedBy(l) ELSE {}
  IN  {Event(runner, s) : s \in gone \cup over}

Subscribe(c) ==   \* and the connection it replaces, if any, is superseded
  /\ stage[c] = "sent" /\ stage' = [stage EXCEPT ![c] = "hello"]
  /\ current' = c /\ cursor' = [cursor EXCEPT ![c] = StartCursor(claim[c])]
  /\ claim' = [claim EXCEPT ![c] = None]
  /\ passed' = passed \cup PassedBy(claim[c])
  /\ excused' = IF reading = c THEN excused \cup Excuses(claim[c]) ELSE excused
  /\ UNCHANGED <<runner, outboxVars, reached, up, wire, daemonVars, upsets, given>>

Hello(c) ==
  /\ stage[c] = "hello"
  /\ stage' = [stage EXCEPT ![c] = "idle"]
  /\ UNCHANGED <<runner, outboxVars, current, endVars, up, wire, daemonVars, upsets, given,
                 passed, excused>>

Write(c) ==   \* writeSSE of what peek returns
  /\ stage[c] = "idle" /\ ~Superseded(c) /\ Peek(c) < nextSeq
  /\ stage' = [stage EXCEPT ![c] = "writing"]
  /\ cursor' = [cursor EXCEPT ![c] = Peek(c)]
  /\ UNCHANGED <<runner, outboxVars, current, reached, claim, up, wire, daemonVars, upsets, given,
                 passed, excused>>

Reach(c) ==
  /\ stage[c] = "writing" /\ up[c] /\ ~reached[c]
  /\ reached' = [reached EXCEPT ![c] = TRUE]
  /\ wire' = [wire EXCEPT ![c] = Append(@, Event(runner, cursor[c]))]
  /\ UNCHANGED <<runner, outboxVars, current, stage, cursor, claim, up, daemonVars, upsets,
                 given, passed, excused>>

WriteReturns(c) ==   \* a write to a dead connection returns without an error
  /\ stage[c] = "writing" /\ (reached[c] \/ ~up[c])
  /\ given' = IF Superseded(c) THEN given ELSE given \cup {cursor[c]}
  /\ Returned(c)
  /\ IF Superseded(c) THEN EndOf(c)
     ELSE /\ stage' = [stage EXCEPT ![c] = "idle"] /\ UNCHANGED current
          /\ cursor' = [cursor EXCEPT ![c] = @ + 1] /\ reached' = [reached EXCEPT ![c] = FALSE]
  /\ UNCHANGED <<runner, claim, up, wire, daemonVars, upsets, passed, excused>>

\* mutant: the cursor of the Outbox moves although the write has failed
FailedAsWritten(c) ==
  /\ stage[c] \in {"hello", "writing"} /\ EndOf(c)
  /\ IF Superseded(c) \/ ~up[c] THEN Calm ELSE Upset
  /\ written' = IF stage[c] = "writing" /\ ~Superseded(c) /\ cursor[c] > written
                THEN cursor[c] ELSE written
  /\ UNCHANGED <<runner, nextSeq, kept, claim, up, wire, daemonVars, given, passed, excused>>

WriteFails(c) ==   \* past its deadline, or thrown; what it wrote may have reached
  /\ stage[c] \in {"hello", "writing"} /\ EndOf(c)
  /\ IF Superseded(c) \/ ~up[c] THEN Calm ELSE Upset
  /\ UNCHANGED <<runner, outboxVars, claim, up, wire, daemonVars, given, passed, excused>>

LoopEnds(c) ==   \* superseded, or the runner sees that the other end is closed
  /\ stage[c] = "idle" /\ (Superseded(c) \/ ~up[c])
  /\ EndOf(c)
  /\ UNCHANGED <<runner, outboxVars, claim, up, wire, daemonVars, upsets, given, passed,
                 excused>>

-----------------------------------------------------------------------------
(* The network and the daemon. *)

Cut(c) ==   \* nobody is told; a request on its way may arrive all the same
  /\ up[c] /\ up' = [up EXCEPT ![c] = FALSE] /\ wire' = [wire EXCEPT ![c] = <<>>]
  /\ Upset
  /\ UNCHANGED <<runner, outboxVars, current, stage, endVars, daemonVars, given, passed,
                 excused>>

RequestLost(c) ==
  /\ stage[c] = "sent" /\ ~up[c] /\ stage' = [stage EXCEPT ![c] = "free"]
  /\ claim' = [claim EXCEPT ![c] = None]
  /\ UNCHANGED <<runner, outboxVars, current, cursor, reached, up, wire, daemonVars, upsets, given,
                 passed, excused>>

FreeConns == {c \in Conns : stage[c] = "free"}

Connect ==   \* #stream
  /\ reading = None /\ FreeConns # {}
  /\ LET c == CHOOSE f \in FreeConns : \A g \in FreeConns : f <= g IN
     /\ reading' = c /\ stage' = [stage EXCEPT ![c] = "sent"]
     /\ claim' = [claim EXCEPT ![c] = lastEventId]
     /\ up' = [up EXCEPT ![c] = TRUE] /\ wire' = [wire EXCEPT ![c] = <<>>]
  /\ firstIdSeen' = FALSE
  /\ UNCHANGED <<runner, outboxVars, current, cursor, reached, daemon, lastEventId, got,
                 upsets, given, passed, excused>>

(* The first number of a connection replaces the last one, whatever it is.   *)
LastId(e) ==
  IF ~firstIdSeen \/ lastEventId = None \/ e.seq > lastEventId.seq THEN e ELSE lastEventId

Read ==   \* #read, up to the handler, whose failure drops the event
  /\ reading # None /\ wire[reading] # <<>>
  /\ LET e == Head(wire[reading]) IN
     /\ got' = Append(got, e) /\ lastEventId' = LastId(e)
     /\ given' = IF e.runner = runner THEN given \cup {e.seq} ELSE given
  /\ firstIdSeen' = TRUE /\ wire' = [wire EXCEPT ![reading] = Tail(@)]
  /\ UNCHANGED <<runner, outboxVars, current, stage, endVars, up, daemon, reading, upsets,
                 passed, excused>>

(* The connection ended, or the watchdog has seen no byte, not even a        *)
(* heartbeat, for too long; or it only seems so to a daemon that was busy.   *)
Ended(c) == ~up[c] \/ (stage[c] = "free" /\ wire[c] = <<>>)

GiveUp ==
  /\ reading # None
  /\ IF Ended(reading) THEN Calm ELSE Upset
  /\ up' = [up EXCEPT ![reading] = FALSE] /\ wire' = [wire EXCEPT ![reading] = <<>>]
  /\ reading' = None
  /\ UNCHANGED <<runner, outboxVars, current, stage, endVars, daemon, lastEventId, firstIdSeen,
                 got, given, passed, excused>>

-----------------------------------------------------------------------------
(* Processes end: the Outbox of the runner is lost, and the claim of the     *)
(* daemon; what has reached the daemon's end is still read.                  *)

RunnerRestarts ==
  /\ runner < MaxRunner /\ runner' = runner + 1
  /\ nextSeq' = 1 /\ written' = 0 /\ kept' = 1 /\ current' = None
  /\ stage' = [c \in Conns |-> "free"] /\ cursor' = [c \in Conns |-> 1]
  /\ reached' = [c \in Conns |-> FALSE] /\ claim' = [c \in Conns |-> None]
  /\ given' = {} /\ passed' = {}
  /\ UNCHANGED <<up, wire, daemonVars, upsets, excused>>

DaemonRestarts ==
  /\ daemon < MaxDaemon /\ daemon' = daemon + 1
  /\ reading' = None /\ lastEventId' = None /\ firstIdSeen' = FALSE
  /\ up' = [c \in Conns |-> FALSE] /\ wire' = [c \in Conns |-> <<>>]
  /\ got' = <<>> /\ excused' = {}
  /\ UNCHANGED <<runner, outboxVars, current, stage, endVars, upsets, given, passed>>

Handler(c) == Hello(c) \/ Write(c) \/ Reach(c) \/ WriteReturns(c) \/ WriteFails(c) \/ LoopEnds(c)

Next ==
  \/ Push \/ Connect \/ Read \/ GiveUp \/ RunnerRestarts \/ DaemonRestarts
  \/ \E c \in Conns : Subscribe(c) \/ Handler(c) \/ Cut(c) \/ RequestLost(c)

Spec == Init /\ [][Next]_vars

(* The pump connects again for ever, a connection that works brings what is  *)
(* written to it, and the silence of one that does not is seen.              *)
Fairness ==
  /\ WF_vars(Connect) /\ WF_vars(Read) /\ WF_vars(reading # None /\ Ended(reading) /\ GiveUp)
  /\ \A c \in Conns :
       WF_vars(Subscribe(c)) /\ WF_vars(RequestLost(c))
       /\ WF_vars(Hello(c) \/ Write(c) \/ Reach(c) \/ WriteReturns(c) \/ LoopEnds(c))

FairSpec == Spec /\ Fairness

-----------------------------------------------------------------------------
(* Properties. *)

(* A daemon reads no event twice and none after a later one of its runner,   *)
(* although connections are replaced under a write that returns late, and    *)
(* what was written is written again.                                        *)
OnceInOrder ==
  \A i, j \in 1..Len(got) :
    i < j => /\ got[i].runner <= got[j].runner
             /\ got[i].runner = got[j].runner => got[i].seq < got[j].seq

(* A daemon that has read an event has read every earlier one of its runner, *)
(* but for those lost for a reason the code gives: written before its first  *)
(* claim, gone from the history, or passed over by the number of another     *)
(* runner.                                                                   *)
NothingSkipped ==
  \A j \in 1..Len(got) : \A s \in 1..(got[j].seq - 1) :
    LET e == Event(got[j].runner, s) IN
      e \in excused \/ \E i \in 1..(j - 1) : got[i] = e

(* Only what was written leaves the history: what left it was given to a     *)
(* connection, or a daemon claimed to have it.                               *)
OnlyWrittenLeaves == 1..(kept - 1) \subseteq given \cup passed

(* "No condition is needed to spare what is being read again": what leaves   *)
(* the history lies behind the cursor of the connection being written to.    *)
ReplayIsKept ==
  [][kept' > kept => current' # None /\ kept' <= cursor'[current']]_vars

(* In the last processes every event reaches the daemon, or was written to   *)
(* a connection that lost it before the first claim, left the history, or    *)
(* was passed over.                                                          *)
Arrived(e) == e \in excused \/ \E i \in 1..Len(got) : got[i] = e

EventsArrive ==
  []<>(runner = MaxRunner /\ daemon = MaxDaemon
         => \A s \in 1..(nextSeq - 1) : Arrived(Event(runner, s)))
=============================================================================
