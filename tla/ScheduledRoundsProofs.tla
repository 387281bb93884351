----------------------- MODULE ScheduledRoundsProofs -----------------------
(***************************************************************************)
(* Proofs about ScheduledRounds, for any grid, number of events and        *)
(* upsets: its types, that a round recorded as complete runs again only    *)
(* where its copy was held or the base has moved back behind it, and that  *)
(* the base of the grid is never a round that was lost, as long as the row *)
(* of a round is written before its turn meets the limit.                  *)
(***************************************************************************)
EXTENDS ScheduledRounds, EventQueueProofs, FiniteSetTheorems

USE GridAssumption
USE DEF schedulerVars, inboxVars, pumpVars, restoreVars, historyVars, Upset

-----------------------------------------------------------------------------
(* The type invariant, with what it leans on: whatever names an event names  *)
(* one that was posted, and whatever names a round names its first event.    *)

N == Len(events)

First(r) == r \in 1..N /\ events[r].round = r

\* the copies of a round agree on whether a human asked for it
Asked(id) == events[id].cause = "manual"

Copies == \A id \in 1..N : First(events[id].round) /\ (Asked(id) <=> Asked(events[id].round))

Genuine(p) ==
  /\ p.pending # 0 => First(p.pending) /\ (p.cause = "manual" <=> Asked(p.pending))
  /\ p.last # 0 => p.last \in 1..N

Named ==
  /\ rows \cup writing \cup held \cup todo \cup Range(queue) \cup Range(deferred) \subseteq 1..N
  /\ cur <= N /\ born <= N /\ redelivered <= N
  /\ Copies /\ Genuine(plan) /\ Genuine(known) /\ Genuine(list)

Typed == TypeOK /\ Named

\* the place of every event on its way to a turn
Line == deferred \o (IF cur = 0 THEN <<>> ELSE <<cur>>) \o queue

LEMMA GridStep ==
  ASSUME NEW t \in Nat
  PROVE  NextAt(t) \in Nat /\ t < NextAt(t) /\ NextAt(t) <= t + Interval
<1> DEFINE q == t \div Interval
<1>1. q \in Nat /\ t % Interval \in 0..(Interval - 1) /\ t = Interval * q + (t % Interval)
  OBVIOUS
<1>2. NextAt(t) = Interval * q + Interval
  BY <1>1 DEF NextAt
<1> HIDE DEF q
<1> QED
  BY <1>1, <1>2

Event == [round : Ids, at : 0..MaxTime, cause : Cause]

(* What the other lemmas need of the types.                                  *)
LEMMA Places ==
  ASSUME Typed
  PROVE  /\ N \in 0..MaxEvents /\ N \in Nat /\ 1..N \subseteq Ids /\ 1..N = DOMAIN events
         /\ \A id \in 1..N : events[id] \in Event /\ events[id].round \in 1..N
         /\ cur \in 0..N /\ (pc # "wait" => cur \in 1..N)
<1>1. events \in Seq(Event) /\ N <= MaxEvents
  BY DEF Typed, TypeOK, N, Event
<1>2. N \in Nat /\ DOMAIN events = 1..N /\ \A id \in 1..N : events[id] \in Event
  BY <1>1, LenProperties, ElementOfSeq DEF N
<1>3. \A id \in 1..N : events[id].round \in 1..N
  BY <1>2 DEF Typed, Named, Copies, First
<1>4. cur \in 0..N /\ (pc # "wait" => cur \in 1..N)
  BY <1>2 DEF Typed, Named, TypeOK
<1> QED
  BY <1>1, <1>2, <1>3, <1>4 DEF Ids

LEMMA Pointers ==
  ASSUME Typed
  PROVE  /\ now \in 0..MaxTime /\ now \in Nat
         /\ cur \in Nat /\ born \in Nat /\ redelivered \in Nat
         /\ cur <= N /\ born <= N /\ redelivered <= N
  BY DEF Typed, TypeOK, Named

(* Names stay good while no event is added.                                  *)
LEMMA SameNames ==
  ASSUME UNCHANGED events
  PROVE  /\ N' = N /\ \A r : (First(r)' <=> First(r)) /\ (Asked(r)' <=> Asked(r))
         /\ (Copies => Copies') /\ \A p : Genuine(p) => Genuine(p)'
  BY DEF N, First, Asked, Copies, Genuine

(* A posted event is a new round, or a copy of a round under its own name.   *)
LEMMA PostNames ==
  ASSUME Typed, NEW e \in Event, e.round \in 1..(N + 1), N < MaxEvents, Post(e),
         e.round = N + 1 \/ (First(e.round) /\ (e.cause = "manual" <=> Asked(e.round)))
  PROVE  /\ events' \in Seq(Event) /\ N' \in N..MaxEvents /\ N' \in Nat
         /\ queue' \in Seq(Ids) /\ Range(queue') \subseteq 1..N' /\ writing' \subseteq 1..N'
         /\ \A id \in 1..N : events'[id] = events[id]
         /\ \A r : First(r) => First(r)' /\ (Asked(r)' <=> Asked(r))
         /\ Copies' /\ \A p : Genuine(p) => Genuine(p)'
<1>0. /\ N \in Nat /\ N \in 0..MaxEvents /\ events \in Seq(Event) /\ queue \in Seq(Ids)
      /\ writing \subseteq 1..N /\ Range(queue) \subseteq 1..N
      /\ \A id \in 1..N : First(events[id].round) /\ (Asked(id) <=> Asked(events[id].round))
  BY Places DEF Typed, TypeOK, Named, Copies, Event
<1>1. CASE UNCHANGED <<events, queue, writing>>
  BY <1>0, <1>1, SameNames DEF N, Typed, Named
<1>2. CASE /\ events' = Append(events, e) /\ queue' = Append(queue, N + 1)
           /\ writing' = writing \cup {N + 1}
  <2>1. /\ events' \in Seq(Event) /\ N' = N + 1 /\ events'[N + 1] = e
        /\ \A id \in 1..N : events'[id] = events[id]
    BY <1>0, <1>2, AppendProperties DEF N
  <2>2. N + 1 \in Ids
    BY <1>0 DEF Ids
  <2>3. queue' \in Seq(Ids) /\ Range(queue') = Range(queue) \cup {N + 1}
    BY <1>0, <1>2, <2>2, AppendContents
  <2>4. \A id \in 1..N : id \in 1..N' /\ id # N + 1
    BY <1>0, <2>1
  <2>5. N' \in N..MaxEvents /\ N' \in Nat /\ N + 1 \in 1..N'
    BY <1>0, <2>1
  <2>6. Range(queue') \subseteq 1..N' /\ writing' \subseteq 1..N'
    BY <1>0, <1>2, <2>3, <2>4, <2>5
  <2>7. ASSUME NEW r, First(r) PROVE First(r)' /\ (Asked(r)' <=> Asked(r))
    BY <2>1, <2>4, <2>7 DEF First, Asked
  <2>8. ASSUME NEW p, Genuine(p) PROVE Genuine(p)'
    BY <2>4, <2>7, <2>8 DEF Genuine
  <2>9. ASSUME NEW id \in 1..N'
        PROVE  First(events[id].round)' /\ (Asked(id)' <=> Asked(events[id].round)')
    <3>1. CASE id \in 1..N
      <4>1. PICK r : r = events[id].round
        OBVIOUS
      <4>2. First(r) /\ (Asked(id) <=> Asked(r)) /\ events'[id].round = r
        BY <1>0, <2>1, <3>1, <4>1
      <4>3. First(r)' /\ (Asked(r)' <=> Asked(r)) /\ (Asked(id)' <=> Asked(id))
        BY <2>1, <2>7, <3>1, <4>2 DEF Asked
      <4> QED
        BY <4>2, <4>3 DEF First, Asked
    <3>2. CASE id = N + 1
      <4>1. CASE e.round = N + 1
        BY <2>1, <2>5, <3>2, <4>1 DEF First, Asked
      <4>2. CASE e.round # N + 1
        <5>1. First(e.round)' /\ (Asked(e.round)' <=> Asked(e.round))
          BY <2>7, <4>2
        <5> QED
          BY <2>1, <3>2, <4>2, <5>1 DEF First, Asked
      <4> QED
        BY <4>1, <4>2
    <3>3. id \in 1..N \/ id = N + 1
      BY <1>0, <2>1
    <3> QED
      BY <3>1, <3>2, <3>3
  <2> QED
    BY <2>1, <2>3, <2>5, <2>6, <2>7, <2>8, <2>9 DEF Copies
<1> QED
  BY <1>1, <1>2 DEF Post, N

LEMMA TypedInit == Init => Typed
<1> SUFFICES ASSUME Init PROVE Typed
  OBVIOUS
<1>1. /\ N = 0 /\ queue \in Seq(Ids) /\ deferred \in Seq(Ids) /\ events \in Seq(Event)
      /\ Range(queue) = {} /\ Range(deferred) = {}
  BY EmptyContents DEF Init, N
<1>2. plan \in Plan
  BY DEF Init, Plan
<1>3. now \in 0..MaxTime /\ due \in 0..(MaxTime + Interval)
  BY DEF Init
<1>4. /\ known \in Plan \cup {NotRead} /\ list \in Plan \cup {NotRead}
      /\ cur \in 0..MaxEvents /\ born \in 0..MaxEvents /\ redelivered \in 0..MaxEvents
  BY DEF Init
<1>5. TypeOK
  <2>1. {known, list} \subseteq Plan \cup {NotRead} /\ Len(events) <= MaxEvents
    BY <1>1, <1>4 DEF N
  <2>2. (cur = 0) = (pc = "wait")
    BY DEF Init
  <2> QED
    BY <1>1, <1>2, <1>3, <1>4, <2>1, <2>2 DEF Init, TypeOK, Event
<1>6. Genuine(plan) /\ Genuine(known) /\ Genuine(list) /\ Copies
  BY <1>1 DEF Init, Genuine, NotRead, Copies
<1>7. Named
  BY <1>1, <1>6 DEF Init, Named
<1> QED
  BY <1>5, <1>7 DEF Typed

(* The scheduler.                                                            *)
LEMMA FireTypes ==
  ASSUME Typed, NEW p \in Plan, Genuine(p), NEW was, N < MaxEvents, Fire(p, was)
  PROVE  \E e \in Event :
           /\ Post(e) /\ e.round \in 1..(N + 1) /\ redelivered' \in {p.pending, was}
           /\ e.round = N + 1 \/ (First(e.round) /\ (e.cause = "manual" <=> Asked(e.round)))
<1>0. N \in Nat /\ N + 1 \in Ids /\ now \in 0..MaxTime
      /\ \A id \in 1..N : id \in 1..(N + 1) /\ events[id] \in Event
  BY Places, Pointers DEF Ids
<1>1. CASE p.pending # 0 /\ was # p.pending
  <2> DEFINE e == [round |-> p.pending, at |-> events[p.pending].at, cause |-> p.cause]
  <2>1. First(p.pending) /\ p.pending \in 1..N /\ (p.cause = "manual" <=> Asked(p.pending))
        /\ p.cause \in Cause
    BY <1>1 DEF Genuine, First, Plan, Cause
  <2>2. e \in Event
    BY <1>0, <2>1, Places DEF Event
  <2>3. Post(e) /\ redelivered' = p.pending
    BY <1>1 DEF Fire
  <2>4. e.round \in 1..(N + 1) /\ First(e.round) /\ (e.cause = "manual" <=> Asked(e.round))
    BY <1>0, <2>1
  <2> QED
    BY <2>2, <2>3, <2>4
<1>2. CASE ~(p.pending # 0 /\ was # p.pending)
  <2>1. PICK c \in Cause : Post(Fired(c)) /\ redelivered' = was
    BY <1>2 DEF Fire, Cause
  <2>2. Fired(c) \in Event /\ Fired(c).round = N + 1 /\ N + 1 \in 1..(N + 1)
    BY <1>0 DEF Fired, Event, N
  <2> QED
    BY <2>1, <2>2
<1> QED
  BY <1>1, <1>2

LEMMA SchedulerTypes ==
  ASSUME Typed, Manual \/ RefreshReads \/ Seed \/ Tick
  PROVE  Typed'
<1>0. N \in 0..MaxEvents /\ N \in Nat /\ now \in Nat /\ now \in 0..MaxTime
  BY Places, Pointers
<1>1. NextAt(now) \in 0..(MaxTime + Interval) /\ now \in 0..(MaxTime + Interval)
  BY <1>0, GridStep
<1>2. CASE Manual
  <2>1. Fired("manual") \in Event /\ Fired("manual").round = N + 1 /\ N + 1 \in 1..(N + 1)
        /\ N < MaxEvents
    BY <1>0, <1>2 DEF Manual, Fired, Event, N, Ids, Cause
  <2>2. /\ events' \in Seq(Event) /\ N' \in N..MaxEvents /\ N' \in Nat
        /\ queue' \in Seq(Ids) /\ Range(queue') \subseteq 1..N' /\ writing' \subseteq 1..N'
        /\ Copies' /\ \A p : Genuine(p) => Genuine(p)'
    BY <1>2, <2>1, PostNames DEF Manual
  <2>3. 1..N \subseteq 1..N' /\ 1..N' \subseteq Ids /\ N' <= MaxEvents
    BY <1>0, <2>2 DEF Ids
  <2>4. TypeOK'
    BY <1>2, <2>2, <2>3 DEF Manual, Typed, TypeOK, Event, N
  <2>5. Named'
    <3>1. Genuine(plan)' /\ Genuine(known)' /\ Genuine(list)'
      BY <1>2, <2>2 DEF Manual, Typed, Named, Genuine
    <3>2. cur' <= N' /\ born' <= N' /\ redelivered' <= N'
      <4>1. UNCHANGED <<cur, born, redelivered>>
        BY <1>2 DEF Manual
      <4> QED
        BY <1>0, <2>2, <4>1, Pointers
    <3> QED
      BY <1>2, <2>2, <2>3, <3>1, <3>2 DEF Manual, Typed, Named
  <2> QED
    BY <2>4, <2>5 DEF Typed
<1>3. CASE RefreshReads
  <2>1. TypeOK'
    BY <1>3 DEF RefreshReads, Typed, TypeOK
  <2>2. Named'
    BY <1>3, SameNames DEF RefreshReads, Typed, Named
  <2> QED
    BY <2>1, <2>2 DEF Typed
<1>4. CASE Seed
  <2>1. FirstDue(list).at \in {now, NextAt(now)} /\ FirstDue(list).catchUp \in BOOLEAN
    BY DEF FirstDue
  <2>2. TypeOK'
    BY <1>1, <1>4, <2>1 DEF Seed, Typed, TypeOK
  <2>3. Genuine(known)' /\ Genuine(list)' /\ Genuine(plan)'
    BY <1>4, SameNames DEF Seed, Typed, Named, Genuine, NotRead
  <2>4. Named'
    BY <1>4, <2>3, SameNames DEF Seed, Typed, Named
  <2> QED
    BY <2>2, <2>4 DEF Typed
<1>5. CASE Tick
  <2> DEFINE was == IF list # NotRead /\ list.pending = 0 THEN 0 ELSE redelivered
  <2>1. PICK p : p = known'
    OBVIOUS
  <2>2. p \in Plan /\ Genuine(p)
    BY <1>5, <2>1 DEF Tick, Typed, TypeOK, Named
  <2>3. was \in 0..MaxEvents /\ was <= N
    BY <1>0 DEF Typed, TypeOK, Named
  <2>4. /\ UNCHANGED <<now, plan, rows, marked, deferred, held, cur, pc, blocked, restore>>
        /\ UNCHANGED <<todo, born, answered, finished>> /\ list' = NotRead
    BY <1>5 DEF Tick
  <2>5. ASSUME due <= now PROVE Typed'
    <3>1. N < MaxEvents /\ Fire(p, was) /\ due' = NextAt(now) /\ catchUp' = FALSE
      BY <1>5, <2>1, <2>5 DEF Tick, N
    <3> HIDE DEF was
    <3>2. PICK e \in Event :
            /\ Post(e) /\ e.round \in 1..(N + 1) /\ redelivered' \in {p.pending, was}
            /\ e.round = N + 1 \/ (First(e.round) /\ (e.cause = "manual" <=> Asked(e.round)))
      BY <2>2, <3>1, FireTypes
    <3>3. /\ events' \in Seq(Event) /\ N' \in N..MaxEvents /\ N' \in Nat
          /\ queue' \in Seq(Ids) /\ Range(queue') \subseteq 1..N' /\ writing' \subseteq 1..N'
          /\ Copies' /\ \A x : Genuine(x) => Genuine(x)'
      BY <3>1, <3>2, PostNames
    <3>4. 1..N \subseteq 1..N' /\ 1..N' \subseteq Ids /\ N' <= MaxEvents
      BY <1>0, <3>3 DEF Ids
    <3>5. redelivered' \in 0..MaxEvents /\ redelivered' <= N'
      <4>1. p.pending \in 0..MaxEvents /\ p.pending <= N
        <5>1. p.pending \in 0..MaxEvents
          BY <2>2 DEF Plan
        <5>2. p.pending = 0 \/ p.pending \in 1..N
          BY <2>2 DEF Genuine, First
        <5> QED
          BY <1>0, <5>1, <5>2
      <4>2. redelivered' \in {p.pending, was} /\ N' \in N..MaxEvents
        BY <3>2, <3>3
      <4> QED
        BY <1>0, <2>3, <4>1, <4>2
    <3>6. TypeOK'
      <4>1. {known, list}' \subseteq Plan \cup {NotRead} /\ Len(events') <= MaxEvents
        BY <2>1, <2>2, <2>4, <3>4 DEF N
      <4> QED
        BY <1>1, <2>4, <3>1, <3>3, <3>4, <3>5, <4>1 DEF Typed, TypeOK, Event
    <3>7. Genuine(plan)' /\ Genuine(known)' /\ Genuine(list)'
      BY <2>1, <2>2, <2>4, <3>3 DEF Typed, Named, Genuine, NotRead
    <3>8. cur' <= N' /\ born' <= N'
      BY <1>0, <2>4, <3>3, Pointers
    <3>9. Named'
      BY <2>4, <3>3, <3>4, <3>5, <3>7, <3>8 DEF Typed, Named
    <3> QED
      BY <3>6, <3>9 DEF Typed
  <2>6. ASSUME ~(due <= now) PROVE Typed'
    <3>1. UNCHANGED <<due, catchUp, events, queue, writing>> /\ redelivered' = was
      BY <1>5, <2>6 DEF Tick
    <3> HIDE DEF was
    <3>2. {known, list}' \subseteq Plan \cup {NotRead}
      BY <2>1, <2>2, <2>4
    <3>3. TypeOK'
      BY <2>3, <2>4, <3>1, <3>2 DEF Typed, TypeOK
    <3>4. Genuine(plan)' /\ Genuine(known)' /\ Genuine(list)'
      BY <2>1, <2>2, <2>4, <3>1, SameNames DEF Typed, Named, Genuine, NotRead
    <3>5. Named'
      BY <2>3, <2>4, <3>1, <3>4, SameNames DEF Typed, Named
    <3> QED
      BY <3>3, <3>5 DEF Typed
  <2> QED
    BY <2>5, <2>6
<1> QED
  BY <1>2, <1>3, <1>4, <1>5

(* The pump and the store: no event is added.                                *)
LEMMA StoreTypes ==
  ASSUME Typed, \E id \in Ids : WriteEnds(id)
  PROVE  Typed'
<1>1. PICK id \in Ids : WriteEnds(id)
  OBVIOUS
<1>2. TypeOK'
  BY <1>1 DEF WriteEnds, Typed, TypeOK
<1>3. Named'
  BY <1>1, SameNames DEF WriteEnds, Typed, Named
<1> QED
  BY <1>2, <1>3 DEF Typed

LEMMA TakeTypes ==
  ASSUME Typed, Take \/ Release \/ SettleHeld
  PROVE  Typed'
<1>0. queue \in Seq(Ids) /\ deferred \in Seq(Ids) /\ UNCHANGED events
  BY DEF Typed, TypeOK, Take, Release, SettleHeld
<1>1. CASE Take
  <2>1. Head(queue) \in Ids /\ Tail(queue) \in Seq(Ids)
        /\ Range(queue) = {Head(queue)} \cup Range(Tail(queue))
    BY <1>0, <1>1, TailContents DEF Take
  <2>2. cur' \in 0..MaxEvents /\ cur' # 0 /\ pc' = "taken" /\ cur' \in 1..N
    BY <1>1, <2>1 DEF Take, Ids, Typed, Named
  <2>3. TypeOK'
    BY <1>1, <2>1, <2>2 DEF Take, Typed, TypeOK
  <2>4. Named'
    BY <1>0, <1>1, <2>1, <2>2, SameNames DEF Take, Typed, Named
  <2> QED
    BY <2>3, <2>4 DEF Typed
<1>2. CASE Release
  <2> DEFINE c == <<cur>>
  <2>1. cur \in 1..N /\ cur \in Ids /\ c \in Seq(Ids) /\ Range(c) = {cur}
    BY <1>2, Places, SingleContents DEF Release
  <2>0. /\ queue' = deferred \o c \o queue /\ deferred' = <<>> /\ blocked' = FALSE
        /\ cur' = 0 /\ pc' = "wait"
        /\ UNCHANGED <<now, plan, schedulerVars, rows, marked, events, writing, held,
                       restoreVars, historyVars, upsets>>
    BY <1>2 DEF Release
  <2> HIDE DEF c
  <2>2. /\ deferred \o c \o queue \in Seq(Ids)
        /\ Range(deferred \o c \o queue) = Range(deferred) \cup Range(c) \cup Range(queue)
    BY <1>0, <2>1, ThreeContents
  <2>3. queue' \in Seq(Ids) /\ Range(queue') = Range(deferred) \cup {cur} \cup Range(queue)
    BY <2>0, <2>1, <2>2
  <2>4. deferred' \in Seq(Ids) /\ Range(deferred') = {}
    BY <2>0, EmptyContents
  <2>7. /\ blocked' = FALSE /\ cur' = 0 /\ pc' = "wait" /\ UNCHANGED <<now, plan, rows, marked>>
        /\ UNCHANGED <<due, catchUp, redelivered, known, list, events, writing, held>>
        /\ UNCHANGED <<restore, todo, born, answered, finished>>
    BY <2>0
  <2>8. cur' \in 0..MaxEvents /\ (cur' = 0) = (pc' = "wait")
    BY <2>7
  <2>5. TypeOK'
    BY <2>7, <2>8, <2>3, <2>4 DEF Typed, TypeOK
  <2>6. Named'
    BY <2>7, <2>1, <2>3, <2>4, SameNames, Places DEF Typed, Named
  <2> QED
    BY <2>5, <2>6 DEF Typed
<1>3. CASE SettleHeld
  <2>1. cur \in 1..N /\ cur \in Ids
    BY <1>3, Places DEF SettleHeld
  <2>2. deferred' \in Seq(Ids) /\ Range(deferred') = Range(deferred) \cup {cur}
    BY <1>0, <1>3, <2>1, AppendContents DEF SettleHeld
  <2>5. /\ cur' = 0 /\ pc' = "wait" /\ held' = held \cup {cur}
        /\ blocked' = blocked /\ UNCHANGED <<now, plan, rows, marked>>
        /\ UNCHANGED <<due, catchUp, redelivered, known, list, events, queue, writing>>
        /\ UNCHANGED <<restore, todo, born, answered, finished>>
    BY <1>3 DEF SettleHeld
  <2>6. cur' \in 0..MaxEvents /\ (cur' = 0) = (pc' = "wait")
    BY <2>5
  <2>3. TypeOK'
    BY <2>1, <2>2, <2>5, <2>6 DEF Typed, TypeOK
  <2>4. Named'
    BY <1>0, <1>3, <2>1, <2>2, SameNames, Places DEF SettleHeld, Typed, Named
  <2> QED
    BY <2>3, <2>4 DEF Typed
<1> QED
  BY <1>1, <1>2, <1>3

LEMMA PumpTypes ==
  ASSUME Typed, \/ ShortCircuit \/ Drop \/ ClaimFails \/ Claim \/ TurnAnswered
                \/ TurnHitsLimit \/ TurnFails \/ Mark \/ Complete \/ Forget
  PROVE  Typed'
<1>0. /\ cur \in 1..N /\ cur \in Ids /\ cur # 0 /\ pc # "wait"
      /\ events[cur].round \in 1..N /\ events[cur].round \in Ids /\ UNCHANGED events
  BY Places DEF ShortCircuit, Drop, ClaimFails, Claim, TurnAnswered, TurnHitsLimit,
     TurnFails, Mark, Complete, Forget
<1>1. CASE ShortCircuit \/ Drop \/ TurnAnswered \/ TurnHitsLimit \/ Mark
  <2>1. /\ UNCHANGED <<now, plan, schedulerVars, events, queue, deferred, writing, held>>
        /\ UNCHANGED <<cur, restoreVars>> /\ pc' \in {"settle", "complete", "mark"}
        /\ blocked' \in BOOLEAN /\ finished' = finished /\ answered \subseteq answered'
    BY <1>1 DEF ShortCircuit, Drop, TurnAnswered, TurnHitsLimit, Mark, Typed, TypeOK
  <2>2. rows' \subseteq rows \cup {cur} /\ marked' \subseteq rows'
    BY <1>1 DEF ShortCircuit, Drop, TurnAnswered, TurnHitsLimit, Mark, Typed, TypeOK
  <2>3. TypeOK'
    BY <1>0, <2>1, <2>2 DEF Typed, TypeOK
  <2>4. Named'
    BY <1>0, <2>1, <2>2, SameNames DEF Typed, Named
  <2> QED
    BY <2>3, <2>4 DEF Typed
<1>2. CASE ClaimFails \/ TurnFails
  <2>1. /\ UNCHANGED <<now, plan, catchUp, known, list, inboxVars, cur, blocked, restoreVars>>
        /\ UNCHANGED <<finished, answered>> /\ pc' = "settle"
        /\ UNCHANGED <<due, redelivered>> \/ RetrySoon
    BY <1>2 DEF ClaimFails, TurnFails
  <2>2. due' \in 0..(MaxTime + Interval) /\ (redelivered' = redelivered \/ redelivered' = 0)
    <3>1. due \in 0..(MaxTime + Interval) /\ now \in Nat
      BY DEF Typed, TypeOK
    <3>2. CASE UNCHANGED <<due, redelivered>>
      BY <3>1, <3>2
    <3>3. CASE RetrySoon
      BY <3>1, <3>3 DEF RetrySoon
    <3> QED
      BY <2>1, <3>2, <3>3
  <2>3. redelivered' \in 0..MaxEvents /\ redelivered' <= N
    <3>1. redelivered \in 0..MaxEvents /\ 0 \in 0..MaxEvents
      BY GridAssumption DEF Typed, TypeOK
    <3>2. N \in Nat /\ redelivered <= N
      BY Places, Pointers
    <3> QED
      BY <2>2, <3>1, <3>2
  <2>6. /\ UNCHANGED <<now, plan, catchUp, known, list, cur, blocked, finished, answered>>
        /\ UNCHANGED <<rows, marked, events, queue, deferred, writing, held>>
        /\ UNCHANGED <<restore, todo, born>>
    BY <2>1
  <2>7. (cur' = 0) = (pc' = "wait") /\ pc' = "settle"
    BY <1>0, <2>1
  <2>4. TypeOK'
    BY <2>2, <2>3, <2>6, <2>7 DEF Typed, TypeOK
  <2>5. Named'
    BY <1>0, <2>1, <2>3, SameNames DEF Typed, Named
  <2> QED
    BY <2>4, <2>5 DEF Typed
<1>3. CASE Claim
  <2>1. RunCause(cur) \in {"schedule", "manual"} /\ (RunCause(cur) = "manual" <=> Asked(cur))
    BY DEF RunCause, Asked
  <2>2. plan' \in Plan /\ plan'.pending = Round /\ plan'.cause = RunCause(cur)
        /\ plan'.last = plan.last
    <3>1. plan' = [plan EXCEPT !.pending = Round, !.cause = RunCause(cur)] /\ plan \in Plan
      BY <1>3 DEF Claim, Claimed, Typed, TypeOK
    <3>2. Round \in 0..MaxEvents
      BY <1>0 DEF Round, Ids
    <3> QED
      BY <2>1, <3>1, <3>2 DEF Plan
  <2>3. First(Round) /\ (Asked(cur) <=> Asked(Round))
    BY <1>0 DEF Round, Typed, Named, Copies
  <2>4. Genuine(plan)'
    BY <1>0, <2>1, <2>2, <2>3, SameNames DEF Genuine, Typed, Named
  <2>5. redelivered' \in 0..MaxEvents /\ redelivered' <= N
    BY <1>0, <1>3, Places DEF Claim, Round, Ids
  <2>6. TypeOK'
    BY <1>0, <1>3, <2>2, <2>5 DEF Claim, Typed, TypeOK
  <2>7. Named'
    BY <1>0, <1>3, <2>4, <2>5, SameNames DEF Claim, Typed, Named
  <2> QED
    BY <2>6, <2>7 DEF Typed
<1>4. CASE Complete
  <2>1. plan' = plan \/ plan' = Completed(plan, Round, RunCause(cur))
    BY <1>4 DEF Complete
  <2>2. plan' \in Plan /\ (plan' = plan \/ plan'.pending = 0)
        /\ plan'.last \in {plan.last, Round}
    <3>1. Round \in 0..MaxEvents
      BY <1>0 DEF Round, Ids
    <3>2. plan \in Plan
      BY DEF Typed, TypeOK
    <3>3. CASE plan' = plan
      BY <3>2, <3>3
    <3>4. CASE plan' # plan
      <4>1. PICK l : l = IF RunCause(cur) = "schedule" THEN Round ELSE plan.last
        OBVIOUS
      <4>2. l \in 0..MaxEvents /\ l \in {plan.last, Round}
        BY <3>1, <3>2, <4>1 DEF Plan
      <4>3. plan' = [plan EXCEPT !.pending = 0, !.cause = "schedule", !.last = l]
        BY <2>1, <3>4, <4>1 DEF Completed
      <4>4. plan' = [pending |-> 0, cause |-> "schedule", last |-> l]
        BY <3>2, <4>3 DEF Plan
      <4> QED
        BY <4>2, <4>4 DEF Plan
    <3> QED
      BY <3>3, <3>4
  <2>3. Genuine(plan)'
    BY <1>0, <2>2, SameNames DEF Genuine, Typed, Named, Round
  <2>4. finished' \subseteq answered'
    BY <1>4 DEF Complete, Typed, TypeOK
  <2>5. TypeOK'
    BY <1>0, <1>4, <2>2, <2>4 DEF Complete, Typed, TypeOK
  <2>6. Named'
    BY <1>0, <1>4, <2>3, SameNames DEF Complete, Typed, Named
  <2> QED
    BY <2>5, <2>6 DEF Typed
<1>5. CASE Forget
  <2>1. rows' \subseteq rows /\ marked' \subseteq rows' /\ held' \subseteq held
    BY <1>5 DEF Forget, Typed, TypeOK
  <2>2. TypeOK'
    BY <1>5, <2>1 DEF Forget, Typed, TypeOK
  <2>3. Named'
    BY <1>0, <1>5, <2>1, SameNames, Places DEF Forget, Typed, Named
  <2> QED
    BY <2>2, <2>3 DEF Typed
<1> QED
  BY <1>1, <1>2, <1>3, <1>4, <1>5

(* Restart and time.                                                         *)
LEMMA RestoredRows ==
  ASSUME Typed, RestoreDelivers
  PROVE  \E s \in Seq(Ids), old \in SUBSET Ids, stale \in SUBSET Ids :
           /\ old = {id \in todo : id <= born} /\ stale = {id \in old : Stale(id, marked, plan.last)}
           /\ Range(s) \subseteq old \ stale /\ Once(s)
           /\ queue' = queue \o s /\ restore' = "done" /\ todo' = {}
           /\ held' = held \cup ((old \ stale) \cap marked)
           /\ rows' = rows \ stale /\ marked' = marked \ stale
           /\ dropped' = dropped \cup {events[id].round : id \in stale}
           /\ UNCHANGED <<now, plan, schedulerVars, events, deferred, writing, pumpVars, born>>
           /\ UNCHANGED <<answered, finished, failed, unstarted, folded, rewound, upsets>>
<1> DEFINE old   == {id \in todo : id <= born}
           stale == {id \in old : Stale(id, marked, plan.last)}
           live  == old \ stale
           Earlier(a, b) == \/ events[a].round < events[b].round
                            \/ events[a].round = events[b].round /\ a < b
<1>1. PICK s \in [1..Cardinality(live) -> live] :
        /\ \A i, j \in DOMAIN s : i < j => Earlier(s[i], s[j])
        /\ queue' = queue \o s
  BY DEF RestoreDelivers
<1>2. N \in Nat /\ todo \subseteq 1..N /\ 1..N \subseteq Ids /\ live \subseteq 1..N
  BY Places DEF Typed, Named
<1>3. Cardinality(live) \in Nat
  <2>1. IsFiniteSet(1..N)
    BY <1>2, FS_Interval
  <2>2. IsFiniteSet(live)
    BY <1>2, <2>1, FS_Subset
  <2> QED
    BY <2>2, FS_CardinalityType
<1>4. \A a \in live, b \in live : Earlier(a, b) => a # b
  <2> TAKE a \in live, b \in live
  <2>1. a \in 1..N
    BY <1>2
  <2>2. events[a].round \in Nat /\ a \in Nat
    BY <1>2, <2>1, Places
  <2>3. ~(events[a].round < events[a].round) /\ ~(a < a)
    BY <2>2
  <2> QED
    BY <2>3
<1>5. restore' = "done" /\ todo' = {} /\ held' = held \cup (live \cap marked)
      /\ rows' = rows \ stale /\ marked' = marked \ stale
      /\ dropped' = dropped \cup {events[id].round : id \in stale}
  BY DEF RestoreDelivers
<1>6. /\ UNCHANGED <<now, plan, schedulerVars, events, deferred, writing, pumpVars, born>>
      /\ UNCHANGED <<answered, finished, failed, unstarted, folded, rewound, upsets>>
  BY DEF RestoreDelivers
<1> HIDE DEF live, Earlier
<1>7. s \in Seq(live) /\ DOMAIN s = 1..Cardinality(live)
  BY <1>1, <1>3
<1>8. \A e \in Range(s) : e \in live
  BY <1>7, Contents
<1>9. Once(s)
  <2> SUFFICES ASSUME NEW i \in DOMAIN s, NEW j \in DOMAIN s, i # j PROVE s[i] # s[j]
    BY DEF Once
  <2>1. i < j \/ j < i
    BY <1>3, <1>7
  <2>2. s[i] \in live /\ s[j] \in live
    BY <1>7
  <2> QED
    BY <1>1, <1>4, <2>1, <2>2
<1>10. s \in Seq(Ids)
  <2>1. live \subseteq Ids
    BY <1>2
  <2>2. PICK n \in Nat : n = Cardinality(live)
    BY <1>3
  <2>3. s \in [1..n -> Ids]
    BY <1>1, <2>1, <2>2
  <2> QED
    BY <2>3
<1>11. old \in SUBSET Ids /\ stale \in SUBSET Ids
  BY <1>2
<1> QED
  BY <1>1, <1>5, <1>6, <1>8, <1>9, <1>10, <1>11 DEF live

LEMMA RestartTypes ==
  ASSUME Typed, Restart \/ RestoreClaims \/ RestoreDelivers \/ Time
  PROVE  Typed'
<1>0. UNCHANGED events /\ N \in 0..MaxEvents
  BY Places DEF Restart, RestoreClaims, RestoreDelivers, Time
<1>1. CASE Restart
  <2>1. /\ queue' \in Seq(Ids) /\ deferred' \in Seq(Ids)
        /\ Range(queue') = {} /\ Range(deferred') = {}
    BY <1>1, EmptyContents DEF Restart
  <2>2. cur' \in 0..MaxEvents /\ (cur' = 0) = (pc' = "wait") /\ born' \in 0..MaxEvents
        /\ due' \in 0..(MaxTime + Interval)
    BY <1>0, <1>1 DEF Restart, N
  <2>3. TypeOK'
    BY <1>1, <2>1, <2>2 DEF Restart, Typed, TypeOK
  <2>4. Genuine(plan)' /\ Genuine(known)' /\ Genuine(list)'
    BY <1>0, <1>1, SameNames DEF Restart, Typed, Named, Genuine, NotRead
  <2>5. cur' <= N' /\ born' <= N' /\ redelivered' <= N'
    BY <1>0, <1>1 DEF Restart, N
  <2>6. Named'
    BY <1>0, <1>1, <2>1, <2>4, <2>5, SameNames DEF Restart, Typed, Named
  <2> QED
    BY <2>3, <2>6 DEF Typed
<1>2. CASE RestoreClaims
  <2>1. TypeOK'
    BY <1>2 DEF RestoreClaims, Typed, TypeOK
  <2>2. Named'
    BY <1>0, <1>2, SameNames DEF RestoreClaims, Typed, Named
  <2> QED
    BY <2>1, <2>2 DEF Typed
<1>3. CASE RestoreDelivers
  <2>1. PICK s \in Seq(Ids), old \in SUBSET Ids, stale \in SUBSET Ids :
          /\ old = {id \in todo : id <= born} /\ Range(s) \subseteq old \ stale
          /\ queue' = queue \o s /\ restore' = "done" /\ todo' = {}
          /\ held' = held \cup ((old \ stale) \cap marked)
          /\ rows' = rows \ stale /\ marked' = marked \ stale
    BY <1>3, RestoredRows
  <2>2. /\ UNCHANGED <<now, plan, schedulerVars, events, deferred, writing, pumpVars, born>>
        /\ UNCHANGED <<answered, finished>>
    BY <1>3 DEF RestoreDelivers
  <2>3. queue \in Seq(Ids) /\ queue' \in Seq(Ids) /\ Range(queue') = Range(queue) \cup Range(s)
    BY <2>1, ConcatContents DEF Typed, TypeOK
  <2>4. old \subseteq todo /\ todo \subseteq 1..N /\ todo \subseteq Ids
    BY <2>1 DEF Typed, TypeOK, Named
  <2>5. TypeOK'
    BY <2>1, <2>2, <2>3, <2>4 DEF Typed, TypeOK
  <2>6. Named'
    BY <1>0, <2>1, <2>2, <2>3, <2>4, SameNames DEF Typed, Named
  <2> QED
    BY <2>5, <2>6 DEF Typed
<1>4. CASE Time
  <2>1. TypeOK'
    BY <1>4 DEF Time, Typed, TypeOK
  <2>2. Named'
    BY <1>0, <1>4, SameNames DEF Time, Typed, Named
  <2> QED
    BY <2>1, <2>2 DEF Typed
<1> QED
  BY <1>1, <1>2, <1>3, <1>4

LEMMA TypedStep == Typed /\ [Next]_vars => Typed'
<1> SUFFICES ASSUME Typed, [Next]_vars PROVE Typed'
  OBVIOUS
<1>1. CASE Next
  BY <1>1, SchedulerTypes, StoreTypes, TakeTypes, PumpTypes, RestartTypes DEF Next
<1>2. CASE UNCHANGED vars
  <2>1. TypeOK'
    BY <1>2 DEF vars, Typed, TypeOK
  <2>2. Named'
    BY <1>2, SameNames DEF vars, Typed, Named
  <2> QED
    BY <2>1, <2>2 DEF Typed
<1> QED
  BY <1>1, <1>2

THEOREM AlwaysTyped == Spec => []Typed
  BY TypedInit, TypedStep, PTL DEF Spec

(* Every variable stays in its range, for any grid and any bounds: the next  *)
(* point of the grid never lies more than one interval past the horizon, a   *)
(* mark and a base name a round that was fired, and a completion that is     *)
(* recorded follows an answer.                                               *)
THEOREM ScheduleTypes == Spec => []TypeOK
  BY AlwaysTyped, PTL DEF Typed

-----------------------------------------------------------------------------
(* A round that runs has the mark, and lies past the base unless it was held. *)
Marked ==
  pc \in {"turn", "mark", "complete"} =>
    /\ plan.pending = Round /\ plan.cause = RunCause(cur)
    /\ ~Asked(cur) => cur \in held \/ Round > plan.last

Recorded ==
  \A r \in finished : First(r) /\ (~Asked(r) => r <= plan.last \/ r \in rewound)

RunsInv == Marked /\ Recorded

(* What a step posts is an event as PostNames wants it.                      *)
LEMMA PostedEvent ==
  ASSUME Typed, Manual \/ Tick
  PROVE  \/ UNCHANGED <<events, queue, writing>>
         \/ \E e \in Event :
              /\ Post(e) /\ N < MaxEvents /\ e.round \in 1..(N + 1)
              /\ e.round = N + 1 \/ (First(e.round) /\ (e.cause = "manual" <=> Asked(e.round)))
<1>0. N \in Nat /\ N + 1 \in 1..(N + 1) /\ now \in 0..MaxTime /\ MaxEvents \in Nat
  BY Places, Pointers
<1>1. CASE Manual
  <2>1. N < MaxEvents /\ Post(Fired("manual"))
    BY <1>1 DEF Manual, N
  <2>2. Fired("manual") \in Event /\ Fired("manual").round = N + 1
    BY <1>0, <2>1 DEF Fired, Event, N, Ids, Cause
  <2> QED
    BY <1>0, <2>1, <2>2
<1>2. CASE Tick /\ due <= now
  <2>1. PICK p, was : p = known' /\ Fire(p, was) /\ N < MaxEvents
    BY <1>2 DEF Tick, N
  <2>2. p \in Plan /\ Genuine(p)
    BY <1>2, <2>1 DEF Tick, Typed, TypeOK, Named
  <2> QED
    BY <2>1, <2>2, FireTypes
<1>3. CASE Tick /\ ~(due <= now)
  BY <1>3 DEF Tick
<1> QED
  BY <1>1, <1>2, <1>3

(* An event keeps what it says, whatever happens.                            *)
LEMMA NamesKept ==
  ASSUME Typed, Next
  PROVE  /\ \A id \in 1..N : id \in 1..N' /\ events'[id] = events[id]
         /\ \A r : First(r) => First(r)' /\ (Asked(r)' <=> Asked(r))
<1>1. CASE UNCHANGED events
  BY <1>1, SameNames
<1>2. ASSUME NEW e \in Event, Post(e), N < MaxEvents, e.round \in 1..(N + 1),
             e.round = N + 1 \/ (First(e.round) /\ (e.cause = "manual" <=> Asked(e.round)))
      PROVE  /\ \A id \in 1..N : id \in 1..N' /\ events'[id] = events[id]
             /\ \A r : First(r) => First(r)' /\ (Asked(r)' <=> Asked(r))
  <2>1. /\ N' \in N..MaxEvents /\ N' \in Nat /\ \A id \in 1..N : events'[id] = events[id]
        /\ \A r : First(r) => First(r)' /\ (Asked(r)' <=> Asked(r))
    BY <1>2, PostNames
  <2>2. N \in Nat
    BY Places
  <2> QED
    BY <2>1, <2>2
<1>3. CASE Manual \/ Tick
  BY <1>1, <1>2, <1>3, PostedEvent
<1>4. CASE ~(Manual \/ Tick)
  BY <1>1, <1>4 DEF Next, RefreshReads, Seed, WriteEnds, Take, Release, ShortCircuit, Drop,
     ClaimFails, Claim, TurnAnswered, TurnHitsLimit, TurnFails, Mark, Complete, SettleHeld,
     Forget, Restart, RestoreClaims, RestoreDelivers, Time
<1> QED
  BY <1>3, <1>4

Running == {"turn", "mark", "complete"}

(* All that a step may do to the round that runs, other than begin it or     *)
(* record it.                                                                *)
LEMMA RunKept ==
  ASSUME Next, ~Claim, ~Complete
  PROVE  /\ UNCHANGED <<plan, finished, rewound>>
         /\ pc' \in Running => pc \in Running /\ cur' = cur /\ held \subseteq held'
         /\ pc' = "turn" => pc = "turn"
<1>1. CASE Manual \/ RefreshReads \/ Seed \/ Tick \/ \E id \in Ids : WriteEnds(id)
  BY <1>1 DEF Manual, RefreshReads, Seed, Tick, WriteEnds
<1>2. CASE Take \/ Release \/ SettleHeld \/ Forget
  BY <1>2 DEF Take, Release, SettleHeld, Forget, Running
<1>3. CASE ShortCircuit \/ Drop \/ ClaimFails \/ TurnAnswered \/ TurnHitsLimit \/ TurnFails \/ Mark
  BY <1>3 DEF ShortCircuit, Drop, ClaimFails, TurnAnswered, TurnHitsLimit, TurnFails, Mark, Running
<1>4. CASE Restart \/ RestoreClaims \/ RestoreDelivers \/ Time
  BY <1>4 DEF Restart, RestoreClaims, RestoreDelivers, Time, Running
<1> QED
  BY <1>1, <1>2, <1>3, <1>4 DEF Next

(* Recording a round moves the base to it, or leaves the base alone.         *)
LEMMA CompleteMoves ==
  ASSUME Typed, RunsInv, Complete
  PROVE  /\ plan'.last \in {plan.last, Round}
         /\ finished' # finished /\ ~Asked(cur) => plan'.last = Round
         /\ plan'.last < plan.last => cur \in held /\ plan'.last = Round
         /\ rewound' = rewound \cup ((plan'.last + 1)..plan.last) \/ plan' = plan
         /\ rewound \subseteq rewound' /\ finished' \subseteq finished \cup {Round}
<1>0. /\ plan.pending = Round /\ plan.cause = RunCause(cur) /\ plan \in Plan /\ plan.last \in Nat
      /\ ~Asked(cur) => cur \in held \/ Round > plan.last
      /\ Round \in Nat /\ (RunCause(cur) = "schedule" <=> ~Asked(cur))
  <2>1. plan \in Plan /\ plan.last \in Nat
    BY DEF Typed, TypeOK, Plan
  <2>2. cur \in 1..N /\ N \in Nat /\ events[cur].round \in 1..N
    BY Places DEF Complete
  <2> QED
    BY <2>1, <2>2 DEF Complete, RunsInv, Marked, Round, RunCause, Asked
<1>1. CASE UNCHANGED <<plan, finished, rewound>>
  BY <1>0, <1>1
<1>2. CASE /\ plan' = Completed(plan, Round, RunCause(cur))
           /\ finished' = IF Round \in answered THEN finished \cup {Round} ELSE finished
           /\ rewound' = rewound \cup ((plan'.last + 1)..plan.last)
  <2>1. PICK l : l = IF RunCause(cur) = "schedule" THEN Round ELSE plan.last
    OBVIOUS
  <2>2. plan' = [plan EXCEPT !.pending = 0, !.cause = "schedule", !.last = l]
    BY <1>0, <1>2, <2>1 DEF Completed
  <2>3. plan'.last = l
    BY <1>0, <2>2 DEF Plan
  <2> QED
    BY <1>0, <1>2, <2>1, <2>3
<1> QED
  BY <1>1, <1>2 DEF Complete

LEMMA RunsInit == Init => RunsInv
  BY DEF Init, RunsInv, Marked, Recorded

LEMMA RunsStep == Typed /\ Typed' /\ RunsInv /\ [Next]_vars => RunsInv'
<1> SUFFICES ASSUME Typed, Typed', RunsInv, [Next]_vars PROVE RunsInv'
  OBVIOUS
<1>1. CASE UNCHANGED vars
  BY <1>1 DEF vars, RunsInv, Marked, Recorded, First, Asked, N, Round, RunCause
<1>2. CASE Next /\ ~Claim /\ ~Complete
  <2>1. /\ UNCHANGED <<plan, finished, rewound>>
        /\ pc' \in Running => pc \in Running /\ cur' = cur /\ held \subseteq held'
    BY <1>2, RunKept
  <2>2. /\ \A id \in 1..N : events'[id] = events[id]
        /\ \A r : First(r) => First(r)' /\ (Asked(r)' <=> Asked(r))
    BY <1>2, NamesKept
  <2>3. Recorded'
    BY <2>1, <2>2 DEF RunsInv, Recorded
  <2>4. Marked'
    <3> SUFFICES ASSUME pc' \in Running PROVE Marked'
      BY DEF Marked, Running
    <3>1. cur \in 1..N /\ events'[cur] = events[cur] /\ cur' = cur /\ pc \in Running
      BY <2>1, <2>2, Places DEF Running
    <3>2. Round' = Round /\ RunCause(cur)' = RunCause(cur) /\ (Asked(cur)' <=> Asked(cur))
      BY <3>1 DEF Round, RunCause, Asked
    <3> QED
      BY <2>1, <3>1, <3>2 DEF RunsInv, Marked, Running
  <2> QED
    BY <2>3, <2>4 DEF RunsInv
<1>3. CASE Claim
  <2>1. /\ UNCHANGED <<events, cur, held, finished, rewound>>
        /\ plan' = [plan EXCEPT !.pending = Round, !.cause = RunCause(cur)]
        /\ ~Stale(cur, held, plan.last) /\ pc = "taken" /\ plan \in Plan
    BY <1>3 DEF Claim, Claimed, Typed, TypeOK
  <2>2. plan'.pending = Round /\ plan'.cause = RunCause(cur) /\ plan'.last = plan.last
    BY <2>1 DEF Plan
  <2>3. Round \in Nat /\ plan.last \in Nat
    <3>1. cur \in 1..N /\ N \in Nat /\ events[cur].round \in 1..N
      BY <2>1, Places
    <3> QED
      BY <2>1, <3>1 DEF Round, Plan
  <2>4. ~Asked(cur) => cur \in held \/ Round > plan.last
    BY <2>1, <2>3 DEF Stale, Asked, Round
  <2>5. Marked'
    BY <2>1, <2>2, <2>4 DEF Marked, Round, RunCause, Asked
  <2>6. Recorded'
    BY <2>1, <2>2, SameNames DEF RunsInv, Recorded
  <2> QED
    BY <2>5, <2>6 DEF RunsInv
<1>4. CASE Complete
  <2>1. pc' = "settle" /\ UNCHANGED events
    BY <1>4 DEF Complete
  <2>2. /\ plan'.last \in {plan.last, Round}
        /\ finished' # finished /\ ~Asked(cur) => plan'.last = Round
        /\ rewound' = rewound \cup ((plan'.last + 1)..plan.last) \/ plan' = plan
        /\ rewound \subseteq rewound' /\ finished' \subseteq finished \cup {Round}
    BY <1>4, CompleteMoves
  <2>3. First(Round) /\ (Asked(cur) <=> Asked(Round))
    BY <1>4, Places DEF Complete, Round, Typed, Named, Copies
  <2>4. Recorded'
    <3> SUFFICES ASSUME NEW r \in finished'
                 PROVE  First(r) /\ (~Asked(r) => r <= plan'.last \/ r \in rewound')
      BY <2>1, SameNames DEF Recorded
    <3>0. plan.last \in Nat /\ plan'.last \in Nat /\ N \in Nat
      <4>1. plan \in Plan /\ plan' \in Plan
        BY DEF Typed, TypeOK
      <4> QED
        BY <4>1, Places DEF Plan
    <3>1. CASE r \in finished
      <4>1. First(r) /\ (~Asked(r) => r <= plan.last \/ r \in rewound) /\ (First(r) => r \in Nat)
        BY <3>0, <3>1 DEF RunsInv, Recorded, First
      <4> QED
        BY <2>2, <3>0, <4>1
    <3>2. CASE r \notin finished
      <4>1. r = Round /\ finished' # finished
        BY <2>2, <3>2
      <4> QED
        BY <2>2, <2>3, <3>0, <4>1
    <3> QED
      BY <3>1, <3>2
  <2>5. Marked'
    BY <2>1 DEF Marked
  <2> QED
    BY <2>4, <2>5 DEF RunsInv
<1> QED
  BY <1>1, <1>2, <1>3, <1>4

THEOREM AlwaysRuns == Spec => [](Typed /\ RunsInv)
<1>1. Init => Typed /\ RunsInv
  BY TypedInit, RunsInit
<1>2. Typed /\ RunsInv /\ [Next]_vars => (Typed /\ RunsInv)'
  BY TypedStep, RunsStep
<1> QED
  BY <1>1, <1>2, PTL DEF Spec

LEMMA RunsOnce ==
  ASSUME Typed, RunsInv, Next
  PROVE  /\ pc # "turn" /\ pc' = "turn" /\ RunCause(cur) = "schedule" =>
              Round \notin finished \/ cur \in held \/ Round \in rewound
         /\ plan'.last < plan.last => cur \in held /\ plan'.last = Round
<1>0. plan.last \in Nat
  BY DEF Typed, TypeOK, Plan
<1>1. CASE ~Claim /\ ~Complete
  <2>1. UNCHANGED plan /\ (pc' = "turn" => pc = "turn")
    BY <1>1, RunKept
  <2> QED
    BY <1>0, <2>1
<1>2. CASE Claim
  <2>1. plan'.last = plan.last
    BY <1>2 DEF Claim, Claimed, Plan, Typed, TypeOK
  <2>2. cur \in 1..N /\ N \in Nat /\ events[cur].round \in 1..N
        /\ ~Stale(cur, held, plan.last)
    BY <1>2, Places DEF Claim
  <2>3. ASSUME RunCause(cur) = "schedule", Round \in finished, cur \notin held
        PROVE  Round \in rewound
    <3>1. ~Asked(cur) /\ Asked(Round) = Asked(cur)
      BY <2>2, <2>3 DEF RunCause, Asked, Round, Typed, Named, Copies
    <3>2. Round <= plan.last \/ Round \in rewound
      BY <2>3, <3>1 DEF RunsInv, Recorded
    <3>3. ~(Round <= plan.last)
      BY <2>2, <2>3, <3>1 DEF Stale, Asked, Round
    <3> QED
      BY <3>2, <3>3
  <2> QED
    BY <1>0, <2>1, <2>3
<1>3. CASE Complete
  <2>1. pc' = "settle" /\ (plan'.last < plan.last => cur \in held /\ plan'.last = Round)
    BY <1>3, CompleteMoves DEF Complete
  <2> QED
    BY <2>1
<1> QED
  BY <1>1, <1>2, <1>3

(* completedTimerRoundVerdict keeps a recorded round from running again, for *)
(* any number of copies, restarts and failures, but where the limit had held *)
(* its copy or the base has moved back behind it; and only the completion of *)
(* a held round moves the base back.                                         *)
THEOREM RoundsRunOnce == Spec => NeverRunsAgain
<1>1. Typed /\ RunsInv /\ [Next]_vars =>
        [ /\ pc # "turn" /\ pc' = "turn" /\ RunCause(cur) = "schedule" =>
               Round \notin finished \/ cur \in held \/ Round \in rewound
          /\ plan'.last < plan.last => cur \in held /\ plan'.last = Round ]_vars
  BY RunsOnce
<1> QED
  BY <1>1, AlwaysRuns, PTL DEF Spec, NeverRunsAgain

-----------------------------------------------------------------------------
Excused(r) == r \in answered \cup failed \cup unstarted \cup folded

\* an event is in line once, and an old one only after the restore pass
InLine ==
  /\ Once(Line)
  /\ restore # "done" => Range(Line) \cap (1..born) = {}

\* the put of a marked row has ended, and its event is known to have been held
MarksLast ==
  /\ marked \cap writing = {}
  /\ marked \cap (Range(queue) \cup Range(deferred)) \subseteq held
  /\ pc = "taken" /\ cur \in marked => cur \in held

\* why the event at hand may be recorded as complete, or forgotten
Settles ==
  /\ pc = "mark" => blocked /\ cur \notin writing
  /\ pc = "complete" => Round \in answered \/ (blocked /\ cur \in marked)
  /\ pc = "settle" /\ ~blocked /\ cur \in marked => Excused(Round)

BaseInv == InLine /\ MarksLast /\ Settles /\ BaseHasRun

\* the parts of Line
Apart ==
  /\ Once(deferred) /\ Once(queue) /\ Range(deferred) \cap Range(queue) = {}
  /\ cur \notin Range(deferred) \cup Range(queue)

LEMMA LineParts ==
  ASSUME NEW d \in Seq(Ids), NEW q \in Seq(Ids), NEW x \in 0..MaxEvents
  PROVE  LET l == d \o (IF x = 0 THEN <<>> ELSE <<x>>) \o q IN
         /\ Range(l) = Range(d) \cup ({x} \ {0}) \cup Range(q)
         /\ Once(l) <=> /\ Once(d) /\ Once(q) /\ Range(d) \cap Range(q) = {}
                        /\ x \notin Range(d) \cup Range(q)
<1> DEFINE c == IF x = 0 THEN <<>> ELSE <<x>>
<1>1. c \in Seq(Ids) /\ Range(c) = {x} \ {0} /\ Once(c)
  <2>1. CASE x = 0
    BY <2>1, EmptyContents
  <2>2. CASE x # 0
    BY <2>2, SingleContents DEF Ids
  <2> QED
    BY <2>1, <2>2
<1>2. 0 \notin Range(d) \cup Range(q)
  <2>1. Range(d) \subseteq Ids /\ Range(q) \subseteq Ids
    BY Contents
  <2> QED
    BY <2>1 DEF Ids
<1> HIDE DEF c
<1>3. /\ Range(d \o c \o q) = Range(d) \cup Range(c) \cup Range(q)
      /\ Once(d \o c \o q) <=> /\ Once(d) /\ Once(c) /\ Once(q)
                        /\ Range(d) \cap Range(c) = {} /\ Range(d) \cap Range(q) = {}
                        /\ Range(c) \cap Range(q) = {}
  BY <1>1, ThreeContents
<1>4. /\ Range(d \o c \o q) = Range(d) \cup ({x} \ {0}) \cup Range(q)
      /\ Once(d \o c \o q) <=> /\ Once(d) /\ Once(q) /\ Range(d) \cap Range(q) = {}
                               /\ x \notin Range(d) \cup Range(q)
  BY <1>1, <1>2, <1>3
<1> QED
  BY <1>4 DEF c

(* Where the events of the inbox are, as sets.                               *)
Sorted ==
  /\ Apart
  /\ restore # "done" =>
       (Range(deferred) \cup ({cur} \ {0}) \cup Range(queue)) \cap (1..born) = {}

LEMMA InLineSorted ==
  /\ Typed  => (InLine <=> Sorted)
  /\ Typed' => (InLine' <=> Sorted')
<1>1. Typed => queue \in Seq(Ids) /\ deferred \in Seq(Ids) /\ cur \in 0..MaxEvents
  BY DEF Typed, TypeOK
<1>2. Typed' => queue' \in Seq(Ids) /\ deferred' \in Seq(Ids) /\ cur' \in 0..MaxEvents
  BY DEF Typed, TypeOK
<1>3. Typed => (InLine <=> Sorted)
  BY <1>1, LineParts DEF InLine, Sorted, Apart, Line
<1>4. Typed' => (InLine' <=> Sorted')
  BY <1>2, LineParts DEF InLine, Sorted, Apart, Line
<1> QED
  BY <1>3, <1>4

LEMMA BaseInit == Init => BaseInv
<1> SUFFICES ASSUME Init PROVE BaseInv
  OBVIOUS
<1>1. queue = <<>> /\ deferred = <<>> /\ cur = 0 /\ Typed
  BY TypedInit DEF Init
<1>2. Sorted
  BY <1>1, EmptyContents DEF Sorted, Apart
<1>3. InLine
  BY <1>1, <1>2, InLineSorted
<1> QED
  BY <1>3 DEF Init, BaseInv, MarksLast, Settles, BaseHasRun

(* Every step keeps the reasons a round is excused by.                       *)
LEMMA ExcusesKept ==
  ASSUME Next
  PROVE  \A r : Excused(r) => Excused(r)'
<1>1. CASE Manual \/ RefreshReads \/ Seed \/ Tick \/ \E id \in Ids : WriteEnds(id)
  BY <1>1 DEF Manual, RefreshReads, Seed, Tick, WriteEnds, Excused
<1>2. CASE Take \/ Release \/ SettleHeld \/ Forget
  BY <1>2 DEF Take, Release, SettleHeld, Forget, Excused
<1>3. CASE ShortCircuit \/ Drop \/ ClaimFails \/ Claim \/ TurnAnswered
  BY <1>3 DEF ShortCircuit, Drop, ClaimFails, Claim, TurnAnswered, Excused
<1>4. CASE TurnHitsLimit \/ TurnFails \/ Mark \/ Complete
  BY <1>4 DEF TurnHitsLimit, TurnFails, Mark, Complete, Excused
<1>5. CASE Restart \/ RestoreClaims \/ RestoreDelivers \/ Time
  BY <1>5 DEF Restart, RestoreClaims, RestoreDelivers, Time, Excused
<1> QED
  BY <1>1, <1>2, <1>3, <1>4, <1>5 DEF Next

(* A base that stays has run as long as no marked row of it goes away.       *)
LEMMA BaseKept ==
  ASSUME Typed, Next, BaseHasRun, plan'.last = plan.last, marked \subseteq rows,
         marked \cap rows \subseteq marked' \cap rows'
  PROVE  BaseHasRun'
<1>1. rows \subseteq 1..N
  BY DEF Typed, Named
<1>2. \A id \in 1..N : events'[id] = events[id]
  BY NamesKept
<1>3. \A r : Excused(r) => Excused(r)'
  BY ExcusesKept
<1> QED
  BY <1>1, <1>2, <1>3 DEF BaseHasRun, Excused

LEMMA PostKeepsBase ==
  ASSUME Typed, Typed', BaseInv, Manual \/ Tick
  PROVE  BaseInv'
<1>0. /\ UNCHANGED <<plan, rows, marked, deferred, held, cur, pc, blocked, restore, born>>
      /\ UNCHANGED <<answered, failed, unstarted, folded>> /\ Next
  BY DEF Manual, Tick, Next
<1>1. \A id \in 1..N : events'[id] = events[id]
  BY <1>0, NamesKept
<1>2. /\ N \in Nat /\ rows \subseteq 1..N /\ born \in Nat /\ born <= N /\ marked \subseteq rows
      /\ Range(queue) \subseteq 1..N /\ Range(deferred) \subseteq 1..N /\ cur \in 0..N
      /\ (pc # "wait" => cur \in 1..N) /\ queue \in Seq(Ids)
  BY Places, Pointers DEF Typed, TypeOK, Named
<1>3. \/ UNCHANGED <<queue, writing>>
      \/ queue' = Append(queue, N + 1) /\ writing' = writing \cup {N + 1} /\ N + 1 \in Ids
  <2>1. CASE UNCHANGED <<events, queue, writing>>
    BY <2>1
  <2>2. CASE \E e : Post(e) /\ N < MaxEvents
    <3>1. N + 1 \in Ids
      BY <1>2, <2>2 DEF Ids
    <3>2. PICK e : Post(e)
      BY <2>2
    <3>3. \/ UNCHANGED <<events, queue, writing>>
          \/ queue' = Append(queue, Len(events) + 1) /\ writing' = writing \cup {Len(events) + 1}
      BY ONLY <3>2 DEF Post
    <3> QED
      BY <3>1, <3>3 DEF N
  <2> QED
    BY <2>1, <2>2, PostedEvent
<1>4. N + 1 \notin 1..N /\ N + 1 \notin 1..born /\ N + 1 # cur
  BY <1>2
<1>5. Sorted
  BY InLineSorted DEF BaseInv
<1>6. Sorted' /\ MarksLast' /\ (cur \notin writing /\ cur \in 1..N => cur \notin writing')
  <2>1. CASE UNCHANGED <<queue, writing>>
    BY <1>0, <1>5, <2>1 DEF BaseInv, MarksLast, Sorted, Apart
  <2>2. CASE queue' = Append(queue, N + 1) /\ writing' = writing \cup {N + 1} /\ N + 1 \in Ids
    <3>1. Range(queue') = Range(queue) \cup {N + 1} /\ Once(queue')
      BY <1>2, <1>4, <1>5, <2>2, AppendContents DEF Sorted, Apart
    <3>2. Sorted'
      BY <1>0, <1>2, <1>4, <1>5, <3>1 DEF Sorted, Apart
    <3>3. MarksLast'
      BY <1>0, <1>2, <1>4, <2>2, <3>1 DEF BaseInv, MarksLast
    <3> QED
      BY <1>4, <2>2, <3>2, <3>3
  <2> QED
    BY <1>3, <2>1, <2>2
<1>7. Settles'
  <2>1. pc # "wait" => Round' = Round /\ cur \in 1..N
    BY <1>0, <1>1, <1>2 DEF Round
  <2> QED
    BY <1>0, <1>6, <2>1 DEF BaseInv, Settles, Excused
<1>8. BaseHasRun'
  BY <1>0, <1>2, BaseKept DEF BaseInv
<1>9. InLine'
  BY <1>6, InLineSorted
<1> QED
  BY <1>6, <1>7, <1>8, <1>9 DEF BaseInv

(* Steps that move no event.                                                 *)
LEMMA StillKeepsBase ==
  ASSUME ~SlowWrites, Typed, Typed', BaseInv,
         \/ RefreshReads \/ Seed \/ (\E id \in Ids : WriteEnds(id)) \/ RestoreClaims \/ Time
         \/ ShortCircuit \/ Drop \/ ClaimFails \/ Claim \/ TurnAnswered \/ TurnHitsLimit
         \/ TurnFails \/ Mark \/ Complete
  PROVE  BaseInv'
<1>0. /\ UNCHANGED <<events, queue, deferred, held, cur, born>> /\ Next
      /\ writing' \subseteq writing /\ (restore' # "done" => restore # "done")
      /\ \A r : Excused(r) => Excused(r)'
  <2>1. UNCHANGED <<events, queue, deferred, held, cur, born>> /\ Next
    BY DEF RefreshReads, Seed, WriteEnds, RestoreClaims, Time, ShortCircuit, Drop, ClaimFails,
       Claim, TurnAnswered, TurnHitsLimit, TurnFails, Mark, Complete, Next
  <2>2. writing' \subseteq writing /\ (restore' # "done" => restore # "done")
    BY DEF RefreshReads, Seed, WriteEnds, RestoreClaims, Time, ShortCircuit, Drop, ClaimFails,
       Claim, TurnAnswered, TurnHitsLimit, TurnFails, Mark, Complete
  <2> QED
    BY <2>1, <2>2, ExcusesKept
<1>1. Sorted' /\ InLine'
  <2>1. Sorted'
    BY <1>0, InLineSorted DEF BaseInv, Sorted, Apart
  <2> QED
    BY <2>1, InLineSorted
<1>2. /\ marked \subseteq rows /\ (pc # "wait" => cur \in 1..N)
      /\ (pc # "wait" => cur \notin Range(queue) \cup Range(deferred))
      /\ marked \cap writing = {} /\ marked \cap (Range(queue) \cup Range(deferred)) \subseteq held
      /\ pc = "taken" /\ cur \in marked => cur \in held
  BY InLineSorted, Places DEF BaseInv, Sorted, MarksLast, Apart, Typed, TypeOK
<1>3. /\ pc = "mark" => blocked /\ cur \notin writing
      /\ pc = "complete" => Round \in answered \/ (blocked /\ cur \in marked)
      /\ pc = "settle" /\ ~blocked /\ cur \in marked => Excused(Round)
  BY DEF BaseInv, Settles
<1>4. Round' = Round
  BY <1>0 DEF Round
<1>5. CASE RefreshReads \/ Seed \/ RestoreClaims \/ Time
  <2>1. UNCHANGED <<plan, rows, marked, writing, pc, blocked, answered, failed, unstarted, folded>>
    BY <1>5 DEF RefreshReads, Seed, RestoreClaims, Time
  <2>2. MarksLast' /\ Settles'
    BY <1>0, <1>2, <1>3, <1>4, <2>1 DEF MarksLast, Settles
  <2>3. BaseHasRun'
    BY <1>0, <1>2, <2>1, BaseKept DEF BaseInv
  <2> QED
    BY <1>1, <2>2, <2>3 DEF BaseInv
<1>6. CASE \E id \in Ids : WriteEnds(id)
  <2>1. /\ UNCHANGED <<plan, pc, blocked, answered>>
        /\ rows \subseteq rows' /\ marked' = marked
    BY <1>2, <1>6 DEF WriteEnds
  <2>2. MarksLast' /\ Settles'
    BY <1>0, <1>2, <1>3, <1>4, <2>1 DEF MarksLast, Settles
  <2>3. BaseHasRun'
    BY <1>0, <1>2, <2>1, BaseKept DEF BaseInv
  <2> QED
    BY <1>1, <2>2, <2>3 DEF BaseInv
<1>7. CASE ShortCircuit \/ Drop \/ ClaimFails \/ Claim \/ TurnAnswered \/ TurnHitsLimit \/ TurnFails
  <2>1. UNCHANGED <<rows, marked, writing>> /\ plan'.last = plan.last
    <3>1. UNCHANGED <<rows, marked, writing>> /\ (UNCHANGED plan \/ Claim)
      BY <1>7 DEF ShortCircuit, Drop, ClaimFails, Claim, TurnAnswered, TurnHitsLimit, TurnFails
    <3>2. Claim => plan'.last = plan.last
      BY DEF Claim, Claimed, Plan, Typed, TypeOK
    <3> QED
      BY <3>1, <3>2
  <2>2. pc' # "taken" /\ pc # "wait"
    BY <1>7 DEF ShortCircuit, Drop, ClaimFails, Claim, TurnAnswered, TurnHitsLimit, TurnFails
  <2>3. MarksLast'
    BY <1>0, <1>2, <2>1, <2>2 DEF MarksLast
  <2>4. pc' = "mark" => blocked' /\ cur \notin writing
    BY <1>7 DEF ShortCircuit, Drop, ClaimFails, Claim, TurnAnswered, TurnHitsLimit, TurnFails
  <2>5. pc' = "complete" => Round \in answered'
    BY <1>7 DEF ShortCircuit, Drop, ClaimFails, Claim, TurnAnswered, TurnHitsLimit, TurnFails
  <2>6. pc' = "settle" /\ ~blocked' /\ cur \in marked => Excused(Round)'
    <3>1. CASE ShortCircuit \/ Claim \/ TurnAnswered \/ TurnHitsLimit
      BY <3>1 DEF ShortCircuit, Claim, TurnAnswered, TurnHitsLimit
    <3>2. CASE Drop
      BY <1>2, <3>2 DEF Drop, Stale
    <3>3. CASE ClaimFails \/ TurnFails
      BY <1>4, <3>3 DEF ClaimFails, TurnFails, Excused
    <3> QED
      BY <1>7, <3>1, <3>2, <3>3
  <2>7. Settles'
    BY <1>0, <1>4, <2>1, <2>4, <2>5, <2>6 DEF Settles
  <2>8. BaseHasRun'
    BY <1>0, <1>2, <2>1, BaseKept DEF BaseInv
  <2> QED
    BY <1>1, <2>3, <2>7, <2>8 DEF BaseInv
<1>8. CASE Mark
  <2>1. /\ UNCHANGED <<plan, writing, blocked>> /\ pc = "mark" /\ pc' \in {"complete", "settle"}
        /\ rows \subseteq rows' /\ marked \subseteq marked' /\ marked' \subseteq marked \cup {cur}
        /\ pc' = "complete" => cur \in marked'
    BY <1>8 DEF Mark
  <2>2. MarksLast'
    BY <1>0, <1>2, <1>3, <2>1 DEF MarksLast
  <2>3. Settles'
    BY <1>0, <1>3, <2>1 DEF Settles
  <2>4. BaseHasRun'
    BY <1>0, <1>2, <2>1, BaseKept DEF BaseInv
  <2> QED
    BY <1>1, <2>2, <2>3, <2>4 DEF BaseInv
<1>9. CASE Complete
  <2>1. /\ UNCHANGED <<rows, marked, writing, blocked, answered>> /\ pc = "complete" /\ pc' = "settle"
        /\ plan' = plan \/ plan' = Completed(plan, Round, RunCause(cur))
    BY <1>9 DEF Complete
  <2>2. plan'.last = plan.last \/ plan'.last = Round
    BY <2>1 DEF Completed, Plan, Typed, TypeOK
  <2>3. MarksLast'
    BY <1>0, <1>2, <2>1 DEF MarksLast
  <2>4. Round \in answered \/ (blocked /\ cur \in marked)
    BY <1>3, <2>1
  <2>5. Settles'
    BY <1>0, <1>4, <2>1, <2>4 DEF Settles, Excused
  <2>6. CASE plan'.last = plan.last
    BY <1>0, <1>1, <1>2, <2>1, <2>3, <2>5, <2>6, BaseKept DEF BaseInv
  <2>7. CASE plan'.last = Round
    <3>1. Round \in answered' \/ (cur \in rows' \cap marked' /\ events'[cur].round = Round)
      BY <1>0, <1>2, <2>1, <2>4 DEF Round
    <3>2. BaseHasRun'
      BY <2>7, <3>1 DEF BaseHasRun
    <3> QED
      BY <1>1, <2>3, <2>5, <3>2 DEF BaseInv
  <2> QED
    BY <2>2, <2>6, <2>7
<1> QED
  BY <1>5, <1>6, <1>7, <1>8, <1>9

(* Steps that move events between the queue, the pump and what is held.      *)
LEMMA MoveKeepsBase ==
  ASSUME Typed, Typed', BaseInv, Take \/ Release \/ SettleHeld \/ Forget
  PROVE  BaseInv'
<1>0. UNCHANGED <<plan, events, writing, born, restore>> /\ Next
      /\ \A r : Excused(r) => Excused(r)'
  <2>1. UNCHANGED <<plan, events, writing, born, restore>> /\ Next
    BY DEF Take, Release, SettleHeld, Forget, Next
  <2> QED
    BY <2>1, ExcusesKept
<1>1. /\ queue \in Seq(Ids) /\ deferred \in Seq(Ids) /\ marked \subseteq rows
      /\ cur \in 0..MaxEvents /\ (cur = 0) = (pc = "wait") /\ (pc # "wait" => cur \in Ids)
  BY Places DEF Typed, TypeOK, Ids
<1>2. Sorted /\ MarksLast /\ Settles /\ BaseHasRun
  BY InLineSorted DEF BaseInv
<1>3. CASE Take
  <2>1. /\ cur = 0 /\ cur' = Head(queue) /\ pc' = "taken" /\ UNCHANGED <<rows, marked, deferred, held>>
        /\ queue' = Tail(queue) /\ queue # <<>>
    BY <1>1, <1>3 DEF Take
  <2>2. /\ Range(queue) = {Head(queue)} \cup Range(queue') /\ Head(queue) \in Ids
        /\ Once(queue) <=> Once(queue') /\ Head(queue) \notin Range(queue')
    BY <1>1, <2>1, TailContents
  <2>3. Sorted'
    BY <1>0, <1>2, <2>1, <2>2 DEF Sorted, Apart, Ids
  <2>4. MarksLast' /\ Settles'
    BY <1>0, <1>2, <2>1, <2>2 DEF MarksLast, Settles
  <2>5. BaseHasRun'
    BY <1>0, <1>1, <1>2, <2>1, BaseKept
  <2> QED
    BY <2>3, <2>4, <2>5, InLineSorted DEF BaseInv
<1>4. CASE Release
  <2>1. /\ cur' = 0 /\ pc' = "wait" /\ pc = "taken" /\ UNCHANGED <<rows, marked, held>>
        /\ deferred' = <<>> /\ queue' = deferred \o <<cur>> \o queue /\ cur \in Ids
    BY <1>1, <1>4 DEF Release
  <2> DEFINE c == <<cur>>
  <2>2. c \in Seq(Ids) /\ Range(c) = {cur} /\ Once(c)
    BY <2>1, SingleContents
  <2>3. queue' = deferred \o c \o queue
    BY <2>1
  <2> HIDE DEF c
  <2>4. /\ Range(deferred \o c \o queue) = Range(deferred) \cup Range(c) \cup Range(queue)
        /\ Once(deferred \o c \o queue) <=>
             /\ Once(deferred) /\ Once(c) /\ Once(queue)
             /\ Range(deferred) \cap Range(c) = {} /\ Range(deferred) \cap Range(queue) = {}
             /\ Range(c) \cap Range(queue) = {}
    BY <1>1, <2>2, ThreeContents
  <2>5. Range(queue') = Range(deferred) \cup {cur} \cup Range(queue) /\ Once(queue')
    BY <1>2, <2>1, <2>2, <2>3, <2>4 DEF Sorted, Apart
  <2>6. Range(deferred') = {} /\ Once(deferred')
    BY <2>1, EmptyContents
  <2>7. 0 \notin Range(queue')
    <3>1. Range(deferred) \subseteq Ids /\ Range(queue) \subseteq Ids
      BY <1>1, Contents
    <3>2. 0 \notin Ids
      BY DEF Ids
    <3> QED
      BY <2>1, <2>5, <3>1, <3>2
  <2>8. Sorted'
    BY <1>0, <1>2, <2>1, <2>5, <2>6, <2>7 DEF Sorted, Apart
  <2>9. MarksLast' /\ Settles'
    BY <1>0, <1>2, <2>1, <2>5, <2>6 DEF MarksLast, Settles
  <2>10. BaseHasRun'
    BY <1>0, <1>1, <1>2, <2>1, BaseKept
  <2> QED
    BY <2>8, <2>9, <2>10, InLineSorted DEF BaseInv
<1>5. CASE SettleHeld
  <2>1. /\ cur' = 0 /\ pc' = "wait" /\ UNCHANGED <<rows, marked, queue>> /\ held' = held \cup {cur}
        /\ deferred' = Append(deferred, cur) /\ cur \in Ids /\ cur # 0
    BY <1>1, <1>5 DEF SettleHeld
  <2>2. /\ Range(deferred') = Range(deferred) \cup {cur}
        /\ Once(deferred') <=> Once(deferred) /\ cur \notin Range(deferred)
    BY <1>1, <2>1, AppendContents
  <2>3. 0 \notin Range(deferred') /\ 0 \notin Range(queue)
    <3>1. Range(deferred) \subseteq Ids /\ Range(queue) \subseteq Ids
      BY <1>1, Contents
    <3>2. 0 \notin Ids
      BY DEF Ids
    <3> QED
      BY <2>1, <2>2, <3>1, <3>2
  <2>4. Sorted'
    BY <1>0, <1>2, <2>1, <2>2, <2>3 DEF Sorted, Apart
  <2>5. MarksLast' /\ Settles'
    BY <1>0, <1>2, <2>1, <2>2 DEF MarksLast, Settles
  <2>6. BaseHasRun'
    BY <1>0, <1>1, <1>2, <2>1, BaseKept
  <2> QED
    BY <2>4, <2>5, <2>6, InLineSorted DEF BaseInv
<1>6. CASE Forget
  <2>1. /\ cur' = 0 /\ pc' = "wait" /\ pc = "settle" /\ UNCHANGED <<queue, deferred, blocked>>
        /\ held' = held \ {cur} /\ rows \ {cur} \subseteq rows'
        /\ marked \ {cur} \subseteq marked' /\ marked' \subseteq marked
        /\ blocked => Round \in folded'
    BY <1>6 DEF Forget
  <2>2. 0 \notin Range(deferred) /\ 0 \notin Range(queue)
    <3>1. Range(deferred) \subseteq Ids /\ Range(queue) \subseteq Ids
      BY <1>1, Contents
    <3>2. 0 \notin Ids
      BY DEF Ids
    <3> QED
      BY <3>1, <3>2
  <2>3. Sorted'
    BY <1>0, <1>2, <2>1, <2>2 DEF Sorted, Apart
  <2>4. MarksLast'
    BY <1>0, <1>2, <2>1 DEF MarksLast, Sorted, Apart
  <2>5. Settles'
    BY <2>1 DEF Settles
  <2>6. PICK r : r = Round
    OBVIOUS
  <2>7. BaseHasRun'
    <3>1. r \in folded' => Excused(r)'
      BY DEF Excused
    <3>2. cur \in marked => Excused(r)'
      BY <1>0, <1>2, <2>1, <2>6, <3>1 DEF Settles
    <3>3. CASE plan.last = 0 \/ Excused(plan.last)
      BY <1>0, <3>3 DEF BaseHasRun, Excused
    <3>4. CASE ~(plan.last = 0 \/ Excused(plan.last))
      <4>1. PICK id \in rows \cap marked : events[id].round = plan.last
        BY <1>2, <3>4 DEF BaseHasRun, Excused
      <4>2. CASE id = cur
        BY <1>0, <2>6, <3>2, <4>1, <4>2 DEF BaseHasRun, Excused, Round
      <4>3. CASE id # cur
        BY <1>0, <2>1, <4>1, <4>3 DEF BaseHasRun
      <4> QED
        BY <4>2, <4>3
    <3> QED
      BY <3>3, <3>4
  <2> QED
    BY <2>3, <2>4, <2>5, <2>7, InLineSorted DEF BaseInv
<1> QED
  BY <1>3, <1>4, <1>5, <1>6

LEMMA RestartKeepsBase ==
  ASSUME Typed, Typed', BaseInv, Restart \/ RestoreDelivers
  PROVE  BaseInv'
<1>0. UNCHANGED <<plan, events>> /\ Next
  BY DEF Restart, RestoreDelivers, Next
<1>1. marked \subseteq rows /\ queue \in Seq(Ids)
  BY DEF Typed, TypeOK
<1>2. Sorted /\ MarksLast /\ Settles /\ BaseHasRun
  BY InLineSorted DEF BaseInv
<1>3. CASE Restart
  <2>1. /\ cur' = 0 /\ pc' = "wait" /\ UNCHANGED <<rows, marked>> /\ queue' = <<>>
        /\ deferred' = <<>> /\ writing' = {}
    BY <1>3 DEF Restart
  <2>2. Sorted' /\ MarksLast' /\ Settles'
    BY <2>1, EmptyContents DEF Sorted, Apart, MarksLast, Settles
  <2>3. BaseHasRun'
    BY <1>0, <1>1, <1>2, <2>1, BaseKept
  <2> QED
    BY <2>2, <2>3, InLineSorted DEF BaseInv
<1>4. CASE RestoreDelivers
  <2>1. PICK s \in Seq(Ids), old \in SUBSET Ids, stale \in SUBSET Ids :
          /\ old = {id \in todo : id <= born} /\ stale = {id \in old : Stale(id, marked, plan.last)}
          /\ Range(s) \subseteq old \ stale /\ Once(s)
          /\ queue' = queue \o s /\ restore' = "done"
          /\ held' = held \cup ((old \ stale) \cap marked)
          /\ rows' = rows \ stale /\ marked' = marked \ stale
    BY <1>4, RestoredRows
  <2>2. UNCHANGED <<deferred, writing, cur, pc, blocked, born, answered, failed, unstarted, folded>>
        /\ restore = "deliver"
    BY <1>4 DEF RestoreDelivers
  <2>3. marked' = marked /\ marked \subseteq rows'
    BY <1>1, <2>1 DEF Stale
  <2>4. /\ Range(queue') = Range(queue) \cup Range(s)
        /\ Once(queue') <=> Once(queue) /\ Once(s) /\ Range(queue) \cap Range(s) = {}
    BY <1>1, <2>1, ConcatContents
  <2>5. old \subseteq 1..born
    <3>1. todo \subseteq 1..N /\ N \in Nat /\ born \in Nat
      BY Places, Pointers DEF Typed, Named
    <3>2. \A id \in 1..N : id <= born => id \in 1..born
      BY <3>1
    <3>3. old \subseteq todo /\ \A id \in old : id <= born
      BY <2>1
    <3> QED
      BY <3>1, <3>2, <3>3
  <2>6. Range(s) \cap (Range(deferred) \cup ({cur} \ {0}) \cup Range(queue)) = {} /\ 0 \notin Range(s)
    <3>1. 0 \notin 1..born
      OBVIOUS
    <3> QED
      BY <1>2, <2>1, <2>2, <2>5, <3>1 DEF Sorted
  <2>7. Sorted'
    BY <1>2, <2>1, <2>2, <2>4, <2>6 DEF Sorted, Apart
  <2>8. MarksLast'
    BY <1>2, <2>1, <2>2, <2>3, <2>4 DEF MarksLast
  <2>9. Settles'
    BY <1>0, <1>2, <2>2, <2>3 DEF Settles, Excused, Round
  <2>10. BaseHasRun'
    BY <1>0, <1>1, <1>2, <2>3, BaseKept
  <2> QED
    BY <2>7, <2>8, <2>9, <2>10, InLineSorted DEF BaseInv
<1> QED
  BY <1>3, <1>4

LEMMA BaseStep == ~SlowWrites /\ Typed /\ Typed' /\ BaseInv /\ [Next]_vars => BaseInv'
<1> SUFFICES ASSUME ~SlowWrites, Typed, Typed', BaseInv, [Next]_vars PROVE BaseInv'
  OBVIOUS
<1>1. CASE Next
  BY <1>1, PostKeepsBase, StillKeepsBase, MoveKeepsBase, RestartKeepsBase DEF Next
<1>2. CASE UNCHANGED vars
  <2>1. /\ Sorted' /\ MarksLast' /\ Settles' /\ BaseHasRun'
    <3>1. Sorted /\ MarksLast /\ Settles /\ BaseHasRun
      BY InLineSorted DEF BaseInv
    <3>2. Sorted'
      BY <1>2, <3>1 DEF vars, Sorted, Apart
    <3>3. MarksLast' /\ Settles'
      BY <1>2, <3>1 DEF vars, MarksLast, Settles, Excused, Round
    <3>4. BaseHasRun'
      BY <1>2, <3>1 DEF vars, BaseHasRun
    <3> QED
      BY <3>2, <3>3, <3>4
  <2> QED
    BY <2>1, InLineSorted DEF BaseInv
<1> QED
  BY <1>1, <1>2

(* The base of the grid is never a round that did not run and that nothing   *)
(* brings back, for any number of rounds, restarts and failed writes, as     *)
(* long as no turn meets the limit before the row of its event is written:   *)
(* then the mark of a held round is the last write to its row.               *)
THEOREM BaseNeverLost == ~SlowWrites => (Spec => []BaseHasRun)
<1> SUFFICES ASSUME ~SlowWrites PROVE Spec => []BaseHasRun
  OBVIOUS
<1>1. Init => Typed /\ BaseInv
  BY TypedInit, BaseInit
<1>2. Typed /\ BaseInv /\ [Next]_vars => (Typed /\ BaseInv)'
  BY TypedStep, BaseStep
<1>3. Typed /\ BaseInv => BaseHasRun
  BY DEF BaseInv
<1> QED
  BY <1>1, <1>2, <1>3, PTL DEF Spec
=============================================================================
