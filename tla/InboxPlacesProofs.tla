------------------------- MODULE InboxPlacesProofs -------------------------
(***************************************************************************)
(* Where the events of InboxDelivery are: proofs that none is in two       *)
(* places, none is stranded, none comes back once it is gone, none         *)
(* overtakes another, and that the delivery implements InboxContract; for  *)
(* any number of events, restarts and faults.                              *)
(***************************************************************************)
EXTENDS InboxDeliveryProofs

-----------------------------------------------------------------------------
(* What a step does to the events on their way to a turn: the held ones, the *)
(* batch and the queue, read as one sequence.                                *)

InHand == Range(Pipeline)

\* whoever stays, stays in order
Follows(p, q) ==
  \A e, f : Before(p, e, f) /\ e \in Range(q) /\ f \in Range(q) => Before(q, e, f)

(* The same, of the state: where an event is that is in hand.                *)
LEMMA PipelineContents ==
  ASSUME Typed
  PROVE  /\ Pipeline \in Seq(Ids)
         /\ InHand = Range(deferred) \cup Range(batch) \cup Range(queue)
         /\ InHand \subseteq Ids
         /\ Once(Pipeline) <=>
              /\ Once(deferred) /\ Once(batch) /\ Once(queue)
              /\ Range(deferred) \cap Range(batch) = {}
              /\ Range(deferred) \cap Range(queue) = {}
              /\ Range(batch) \cap Range(queue) = {}
         /\ \A e, f : Before(Pipeline, e, f) <=>
              \/ Before(deferred, e, f) \/ Before(batch, e, f) \/ Before(queue, e, f)
              \/ (e \in Range(deferred) /\ f \in Range(batch) \cup Range(queue))
              \/ (e \in Range(batch) /\ f \in Range(queue))
         /\ \A e : InPipeline(e) <=> e \in InHand
<1>1. deferred \in Seq(Ids) /\ batch \in Seq(Ids) /\ queue \in Seq(Ids)
  BY DEF Typed, TypeOK
<1>2. /\ Pipeline \in Seq(Ids)
      /\ InHand = Range(deferred) \cup Range(batch) \cup Range(queue)
      /\ Once(Pipeline) <=>
           /\ Once(deferred) /\ Once(batch) /\ Once(queue)
           /\ Range(deferred) \cap Range(batch) = {}
           /\ Range(deferred) \cap Range(queue) = {}
           /\ Range(batch) \cap Range(queue) = {}
      /\ \A e, f : Before(Pipeline, e, f) <=>
           \/ Before(deferred, e, f) \/ Before(batch, e, f) \/ Before(queue, e, f)
           \/ (e \in Range(deferred) /\ f \in Range(batch) \cup Range(queue))
           \/ (e \in Range(batch) /\ f \in Range(queue))
  BY <1>1, ThreeContents DEF Pipeline, InHand
<1>3. /\ \A e : OccursIn(deferred, e) <=> e \in Range(deferred)
      /\ \A e : OccursIn(batch, e) <=> e \in Range(batch)
      /\ \A e : OccursIn(queue, e) <=> e \in Range(queue)
  BY <1>1, Contents
<1>4. \A e : InPipeline(e) <=> e \in InHand
  BY <1>2, <1>3 DEF InPipeline
<1>5. InHand \subseteq Ids
  BY <1>2, Contents DEF InHand
<1> QED
  BY <1>2, <1>4, <1>5

(* A new event: the pump is woken with it, or it joins the queue.            *)
LEMMA PushPlaces ==
  ASSUME Typed, Typed', Once(Pipeline), NEW e \in Ids, e \notin InHand,
         NEW jumps, Push(e, jumps), UNCHANGED deferred
  PROVE  /\ Once(Pipeline)' /\ InHand' = InHand \cup {e}
         /\ Follows(Pipeline, Pipeline')
         /\ \/ Range(batch') = Range(batch)
            \/ (Range(batch) = {} /\ Range(batch') = {e})
<1>1. /\ InHand = Range(deferred) \cup Range(batch) \cup Range(queue)
      /\ Once(deferred) /\ Once(batch) /\ Once(queue)
      /\ Range(deferred) \cap Range(batch) = {}
      /\ Range(deferred) \cap Range(queue) = {}
      /\ Range(batch) \cap Range(queue) = {}
  BY PipelineContents
<1>2. \A x, y : Before(Pipeline, x, y) <=>
        \/ Before(deferred, x, y) \/ Before(batch, x, y) \/ Before(queue, x, y)
        \/ (x \in Range(deferred) /\ y \in Range(batch) \cup Range(queue))
        \/ (x \in Range(batch) /\ y \in Range(queue))
  BY PipelineContents
<1>3. /\ InHand' = Range(deferred') \cup Range(batch') \cup Range(queue')
      /\ Once(Pipeline)' <=>
           /\ Once(deferred') /\ Once(batch') /\ Once(queue')
           /\ Range(deferred') \cap Range(batch') = {}
           /\ Range(deferred') \cap Range(queue') = {}
           /\ Range(batch') \cap Range(queue') = {}
      /\ \A x, y : Before(Pipeline', x, y) <=>
           \/ Before(deferred', x, y) \/ Before(batch', x, y) \/ Before(queue', x, y)
           \/ (x \in Range(deferred') /\ y \in Range(batch') \cup Range(queue'))
           \/ (x \in Range(batch') /\ y \in Range(queue'))
  <2>1. deferred' \in Seq(Ids) /\ batch' \in Seq(Ids) /\ queue' \in Seq(Ids)
    BY DEF Typed, TypeOK
  <2> QED
    BY <2>1, ThreeContents DEF Pipeline, InHand
<1>4. queue \in Seq(Ids) /\ (pc = "waiting" => batch = <<>>)
  BY DEF Typed, TypeOK
<1>5. CASE pc = "waiting"
  <2>1. batch' = <<e>> /\ queue' = queue
    BY <1>5 DEF Push
  <2>2. Range(batch') = {e} /\ Once(batch') /\ \A x, y : ~Before(batch', x, y)
    BY <2>1, SingleContents
  <2>3. Range(batch) = {} /\ \A x, y : ~Before(batch, x, y)
    BY <1>4, <1>5, EmptyContents
  <2>4. Once(Pipeline)' /\ InHand' = InHand \cup {e}
    BY <1>1, <1>3, <2>1, <2>2, <2>3
  <2>5. Follows(Pipeline, Pipeline')
    BY <1>2, <1>3, <2>1, <2>2, <2>3 DEF Follows
  <2> QED
    BY <2>2, <2>3, <2>4, <2>5
<1>6. CASE pc # "waiting"
  <2>1. PICK at \in 0..Len(queue) : queue' = InsertAt(queue, at + 1, e) /\ batch' = batch
    BY <1>6 DEF Push
  <2>2. /\ Range(queue') = Range(queue) \cup {e} /\ Once(queue')
        /\ \A x, y : Before(queue, x, y) => Before(queue', x, y)
    BY <1>1, <1>4, <2>1, InsertContents
  <2>3. Once(Pipeline)' /\ InHand' = InHand \cup {e}
    BY <1>1, <1>3, <2>1, <2>2
  <2>4. Follows(Pipeline, Pipeline')
    BY <1>2, <1>3, <2>1, <2>2 DEF Follows
  <2> QED
    BY <2>1, <2>3, <2>4
<1> QED
  BY <1>5, <1>6

(* The next state's places, read as those of this one are.                   *)
LEMMA PlacesNext ==
  ASSUME Typed'
  PROVE  /\ InHand' = Range(deferred') \cup Range(batch') \cup Range(queue')
         /\ Once(Pipeline)' <=>
              /\ Once(deferred') /\ Once(batch') /\ Once(queue')
              /\ Range(deferred') \cap Range(batch') = {}
              /\ Range(deferred') \cap Range(queue') = {}
              /\ Range(batch') \cap Range(queue') = {}
         /\ \A x, y : Before(Pipeline', x, y) <=>
              \/ Before(deferred', x, y) \/ Before(batch', x, y) \/ Before(queue', x, y)
              \/ (x \in Range(deferred') /\ y \in Range(batch') \cup Range(queue'))
              \/ (x \in Range(batch') /\ y \in Range(queue'))
         /\ \A x : InPipeline(x)' <=> x \in InHand'
<1>1. deferred' \in Seq(Ids) /\ batch' \in Seq(Ids) /\ queue' \in Seq(Ids)
  BY DEF Typed, TypeOK
<1>2. /\ \A e : OccursIn(deferred', e) <=> e \in Range(deferred')
      /\ \A e : OccursIn(batch', e) <=> e \in Range(batch')
      /\ \A e : OccursIn(queue', e) <=> e \in Range(queue')
  BY <1>1, Contents
<1>3. /\ InHand' = Range(deferred') \cup Range(batch') \cup Range(queue')
      /\ Once(Pipeline)' <=>
           /\ Once(deferred') /\ Once(batch') /\ Once(queue')
           /\ Range(deferred') \cap Range(batch') = {}
           /\ Range(deferred') \cap Range(queue') = {}
           /\ Range(batch') \cap Range(queue') = {}
      /\ \A x, y : Before(Pipeline', x, y) <=>
           \/ Before(deferred', x, y) \/ Before(batch', x, y) \/ Before(queue', x, y)
           \/ (x \in Range(deferred') /\ y \in Range(batch') \cup Range(queue'))
           \/ (x \in Range(batch') /\ y \in Range(queue'))
  BY <1>1, ThreeContents DEF Pipeline, InHand
<1> QED
  BY <1>2, <1>3 DEF InPipeline

(* The pump takes an event, puts the held ones back in front, merges others  *)
(* into the batch or holds one: none is lost and none overtakes another.     *)
LEMMA MovePlaces ==
  ASSUME Typed, Typed', Once(Pipeline),
         PumpNext \/ PumpRelease \/ PumpStartTurn \/ SettleHeld
  PROVE  /\ Once(Pipeline)' /\ InHand' = InHand
         /\ Follows(Pipeline, Pipeline')
<1>1. /\ InHand = Range(deferred) \cup Range(batch) \cup Range(queue)
      /\ Once(deferred) /\ Once(batch) /\ Once(queue)
      /\ Range(deferred) \cap Range(batch) = {}
      /\ Range(deferred) \cap Range(queue) = {}
      /\ Range(batch) \cap Range(queue) = {}
  BY PipelineContents
<1>2. \A x, y : Before(Pipeline, x, y) <=>
        \/ Before(deferred, x, y) \/ Before(batch, x, y) \/ Before(queue, x, y)
        \/ (x \in Range(deferred) /\ y \in Range(batch) \cup Range(queue))
        \/ (x \in Range(batch) /\ y \in Range(queue))
  BY PipelineContents
<1>3. /\ deferred \in Seq(Ids) /\ batch \in Seq(Ids) /\ queue \in Seq(Ids)
      /\ (pc = "next" => batch = <<>>) /\ (pc = "settle" => batch # <<>>)
  BY DEF Typed, TypeOK
<1>4. CASE Pipeline' = Pipeline
  BY <1>4 DEF InHand, Follows
<1>5. CASE PumpNext
  <2>1. CASE queue = <<>>
    BY <1>4, <1>5, <2>1 DEF PumpNext, Pipeline
  <2>2. CASE queue # <<>>
    <3>1. /\ deferred' = deferred /\ batch = <<>> /\ batch' = <<Head(queue)>>
          /\ queue' = Tail(queue)
      BY <1>3, <1>5, <2>2 DEF PumpNext
    <3>2. /\ Range(batch) = {} /\ Range(batch') = {Head(queue)} /\ Once(batch')
          /\ \A x, y : ~Before(batch, x, y) /\ ~Before(batch', x, y)
      BY <3>1, EmptyContents, SingleContents
    <3>3. /\ Range(queue) = {Head(queue)} \cup Range(queue')
          /\ Once(queue') /\ Head(queue) \notin Range(queue')
          /\ \A x, y : Before(queue, x, y)
               <=> Before(queue', x, y) \/ (x = Head(queue) /\ y \in Range(queue'))
      BY <1>1, <1>3, <2>2, <3>1, TailContents
    <3>4. Once(Pipeline)' /\ InHand' = InHand
      BY <1>1, <3>1, <3>2, <3>3, PlacesNext
    <3>5. \A x, y : Before(Pipeline, x, y) => Before(Pipeline', x, y)
      BY <1>2, <3>1, <3>2, <3>3, PlacesNext
    <3> QED
      BY <3>4, <3>5 DEF Follows
  <2> QED
    BY <2>1, <2>2
<1>6. CASE PumpRelease
  <2>1. deferred' = <<>> /\ batch' = <<>> /\ queue' = Pipeline /\ Pipeline \in Seq(Ids)
    BY <1>6, PipelineContents DEF PumpRelease, Released, Pipeline
  <2>2. Pipeline' = (<<>> \o <<>>) \o queue'
    BY <2>1 DEF Pipeline
  <2>3. <<>> \in Seq(Ids) /\ <<>> \o <<>> = <<>>
    BY ConcatEmptySeq
  <2>4. <<>> \o Pipeline = Pipeline
    BY <2>1, ConcatEmptySeq
  <2> QED
    BY <1>4, <2>1, <2>2, <2>3, <2>4
<1>7. CASE PumpStartTurn
  <2>1. PICK n \in 0..Len(queue) : /\ batch' = batch \o SubSeq(queue, 1, n)
                                   /\ queue' = SubSeq(queue, n + 1, Len(queue))
                                   /\ deferred' = deferred
    BY <1>7 DEF PumpStartTurn
  <2> DEFINE a == SubSeq(queue, 1, n)
  <2>2. a \in Seq(Ids) /\ queue' \in Seq(Ids) /\ queue = a \o queue'
    BY <1>3, <2>1, CutContents
  <2> HIDE DEF a
  <2>3. /\ Range(queue) = Range(a) \cup Range(queue')
        /\ Once(a) /\ Once(queue') /\ Range(a) \cap Range(queue') = {}
        /\ \A x, y : Before(queue, x, y) <=>
             \/ Before(a, x, y) \/ Before(queue', x, y)
             \/ (x \in Range(a) /\ y \in Range(queue'))
    BY <1>1, <2>2, ConcatContents
  <2>4. batch' = batch \o a
    BY <2>1 DEF a
  <2>5. /\ Range(batch') = Range(batch) \cup Range(a)
        /\ Once(batch') <=> Once(batch) /\ Once(a) /\ Range(batch) \cap Range(a) = {}
        /\ \A x, y : Before(batch', x, y) <=>
             \/ Before(batch, x, y) \/ Before(a, x, y)
             \/ (x \in Range(batch) /\ y \in Range(a))
    BY <1>3, <2>2, <2>4, ConcatContents
  <2>6. Once(Pipeline)' /\ InHand' = InHand
    BY <1>1, <2>1, <2>3, <2>5, PlacesNext
  <2>7. \A x, y : Before(Pipeline, x, y) => Before(Pipeline', x, y)
    BY <1>2, <2>1, <2>3, <2>5, PlacesNext
  <2> QED
    BY <2>6, <2>7 DEF Follows
<1>8. CASE SettleHeld
  <2> DEFINE h == Head(batch)
  <2>1. /\ deferred' = Append(deferred, h) /\ batch' = Tail(batch) /\ queue' = queue
        /\ batch # <<>>
    BY <1>3, <1>8 DEF SettleHeld, Settled
  <2>2. /\ h \in Ids /\ Range(batch) = {h} \cup Range(batch')
        /\ Once(batch') /\ h \notin Range(batch')
        /\ \A x, y : Before(batch, x, y)
             <=> Before(batch', x, y) \/ (x = h /\ y \in Range(batch'))
    BY <1>1, <1>3, <2>1, TailContents
  <2>3. /\ Range(deferred') = Range(deferred) \cup {h}
        /\ Once(deferred') <=> Once(deferred) /\ h \notin Range(deferred)
        /\ \A x, y : Before(deferred', x, y)
             <=> Before(deferred, x, y) \/ (x \in Range(deferred) /\ y = h)
    BY <1>3, <2>1, <2>2, AppendContents
  <2> HIDE DEF h
  <2>4. Once(Pipeline)' /\ InHand' = InHand
    BY <1>1, <2>1, <2>2, <2>3, PlacesNext
  <2>5. \A x, y : Before(Pipeline, x, y) => Before(Pipeline', x, y)
    BY <1>2, <2>1, <2>2, <2>3, PlacesNext
  <2> QED
    BY <2>4, <2>5 DEF Follows
<1> QED
  BY <1>5, <1>6, <1>7, <1>8

(* One event is settled for good.                                            *)
LEMMA SettledPlaces ==
  ASSUME Typed, Typed', Once(Pipeline), pc \in {"settle", "forget"},
         batch' = Tail(batch), UNCHANGED <<deferred, queue>>
  PROVE  /\ Once(Pipeline)' /\ InHand' = InHand \ {Head(batch)}
         /\ Range(batch') = Range(batch) \ {Head(batch)} /\ Head(batch) \in Range(batch)
         /\ Follows(Pipeline, Pipeline')
<1>1. /\ InHand = Range(deferred) \cup Range(batch) \cup Range(queue)
      /\ Once(deferred) /\ Once(batch) /\ Once(queue)
      /\ Range(deferred) \cap Range(batch) = {}
      /\ Range(deferred) \cap Range(queue) = {}
      /\ Range(batch) \cap Range(queue) = {}
  BY PipelineContents
<1>2. \A x, y : Before(Pipeline, x, y) <=>
        \/ Before(deferred, x, y) \/ Before(batch, x, y) \/ Before(queue, x, y)
        \/ (x \in Range(deferred) /\ y \in Range(batch) \cup Range(queue))
        \/ (x \in Range(batch) /\ y \in Range(queue))
  BY PipelineContents
<1>3. batch \in Seq(Ids) /\ batch # <<>>
  BY DEF Typed, TypeOK
<1>4. /\ Range(batch) = {Head(batch)} \cup Range(batch')
      /\ Once(batch') /\ Head(batch) \notin Range(batch')
      /\ \A x, y : Before(batch, x, y)
           <=> Before(batch', x, y) \/ (x = Head(batch) /\ y \in Range(batch'))
  BY <1>1, <1>3, TailContents
<1>5. Once(Pipeline)' /\ InHand' = InHand \ {Head(batch)}
  BY <1>1, <1>4, PlacesNext
<1>6. ASSUME NEW x, NEW y, Before(Pipeline, x, y), x # Head(batch), y # Head(batch)
      PROVE  Before(Pipeline', x, y)
  BY <1>2, <1>4, <1>6, PlacesNext
<1>7. Follows(Pipeline, Pipeline')
  BY <1>5, <1>6 DEF Follows, InHand
<1> QED
  BY <1>4, <1>5, <1>7

(* The delivery of one event is stopped.                                     *)
LEMMA DropPlaces ==
  ASSUME Typed, Typed', Once(Pipeline), NEW e \in Events, StopDelivery(e)
  PROVE  /\ Once(Pipeline)' /\ Follows(Pipeline, Pipeline')
         /\ InHand' = IF e \in Range(batch) THEN InHand ELSE InHand \ {e}
         /\ OccursIn(batch, e) <=> e \in Range(batch)
<1>1. /\ InHand = Range(deferred) \cup Range(batch) \cup Range(queue)
      /\ Once(deferred) /\ Once(batch) /\ Once(queue)
      /\ Range(deferred) \cap Range(batch) = {}
      /\ Range(deferred) \cap Range(queue) = {}
      /\ Range(batch) \cap Range(queue) = {}
  BY PipelineContents
<1>2. \A x, y : Before(Pipeline, x, y) <=>
        \/ Before(deferred, x, y) \/ Before(batch, x, y) \/ Before(queue, x, y)
        \/ (x \in Range(deferred) /\ y \in Range(batch) \cup Range(queue))
        \/ (x \in Range(batch) /\ y \in Range(queue))
  BY PipelineContents
<1>3. deferred \in Seq(Ids) /\ batch \in Seq(Ids) /\ queue \in Seq(Ids)
  BY DEF Typed, TypeOK
<1>4. queue' = Without(queue, e) /\ deferred' = Without(deferred, e) /\ batch' = batch
  BY DEF StopDelivery
<1>5. /\ Range(queue') = Range(queue) \ {e} /\ Once(queue')
      /\ \A x, y : Before(queue, x, y) /\ x # e /\ y # e => Before(queue', x, y)
  BY <1>1, <1>3, <1>4, WithoutContents
<1>6. /\ Range(deferred') = Range(deferred) \ {e} /\ Once(deferred')
      /\ \A x, y : Before(deferred, x, y) /\ x # e /\ y # e => Before(deferred', x, y)
  BY <1>1, <1>3, <1>4, WithoutContents
<1>7. /\ Once(Pipeline)'
      /\ InHand' = IF e \in Range(batch) THEN InHand ELSE InHand \ {e}
  BY <1>1, <1>4, <1>5, <1>6, PlacesNext
<1>8. CASE e \in Range(batch)
  <2>1. e \notin Range(deferred) /\ e \notin Range(queue)
    BY <1>1, <1>8
  <2>2. ~OccursIn(deferred, e) /\ ~OccursIn(queue, e)
    BY <1>3, <2>1, Contents
  <2>3. Pipeline' = Pipeline
    BY <1>4, <2>2 DEF Without, Pipeline
  <2> QED
    BY <1>3, <1>7, <1>8, <2>3, Contents DEF Follows
<1>9. CASE e \notin Range(batch)
  <2>1. ASSUME NEW x, NEW y, Before(Pipeline, x, y), x # e, y # e
        PROVE  Before(Pipeline', x, y)
    BY <1>2, <1>4, <1>5, <1>6, <2>1, PlacesNext
  <2>2. Follows(Pipeline, Pipeline')
    BY <1>7, <1>9, <2>1 DEF Follows, InHand
  <2> QED
    BY <1>3, <1>7, <1>9, <2>2, Contents
<1> QED
  BY <1>8, <1>9

-----------------------------------------------------------------------------
(* The inductive invariant: which places an event may be in at once.         *)

\* only what was posted is anywhere
Known ==
  /\ InHand \ {Distill} \subseteq 1..posted
  /\ rows \cup writing \cup persisting \cup Range(todo) \subseteq 1..posted
  /\ concluded \cup refused \cup removed \subseteq 1..posted
  /\ postedBeforeRestored \cup withdrawing \cup droppedWhileRestoring \subseteq 1..posted

\* an event is written once; one that waits for its write is nowhere else
WrittenOnce ==
  /\ rows \cap (writing \cup persisting) = {} /\ writing \cap persisting = {}
  /\ persisting \cap (InHand \cup concluded \cup withdrawing) = {}
  /\ Range(todo) \cap (writing \cup persisting) = {}
  /\ writing \subseteq unread

\* what was removed has no row and gets none; what was stopped is not in hand
GoneForGood ==
  /\ (erased \cup removing \cup droppedWhileRestoring)
        \cap (rows \cup writing \cup persisting) = {}
  /\ erased \cup removing \subseteq removed
  /\ erased \cap InHand = {}
  /\ erased \cap Range(todo) \subseteq postedBeforeRestored \cup droppedWhileRestoring

\* a turn may end before the row of its event is written: the batch waits for it
SlowWrite ==
  \A e \in writing \cap concluded :
    /\ e \in Range(batch) /\ pc \in {"settle", "forget"}
    /\ defer => pc = "forget" /\ e = Head(batch)

\* a claimed row that is in hand as well was posted in this life
RestoredOnce ==
  /\ Once(todo)
  /\ restore \in {"claim", "done"} => todo = <<>>
  /\ restore = "done" => postedBeforeRestored = {} /\ droppedWhileRestoring = {}
  /\ Range(todo) \cap InHand \subseteq postedBeforeRestored
  /\ restore = "claim" /\ ~Closed =>
       (InHand \cap rows) \cup writing \cup persisting \subseteq postedBeforeRestored

\* the first process has nothing to restore but what it posted itself
FirstLife ==
  restarts = 0 /\ ~Closed =>
    /\ restore = "claim" => rows \subseteq postedBeforeRestored
    /\ Range(todo) \subseteq postedBeforeRestored

\* why a claimed row may be gone
Claimed ==
  /\ Range(todo) \ postedBeforeRestored \subseteq rows \cup removed
  /\ Range(todo) \subseteq rows \cup concluded \cup erased \cup removing \cup InHand

\* while the inbox is open, who looks after a row or a write
Kept ==
  ~Closed =>
    /\ writing \subseteq InHand \cup concluded
    /\ postedBeforeRestored \cap rows \subseteq InHand \cup concluded \cup refused
    /\ restore # "claim" =>
         rows \subseteq InHand \cup concluded \cup refused \cup Range(todo)

\* the distillation is asked for once
LastWord == stage = "up" => Distill \notin InHand

PlacesInv ==
  /\ Once(Pipeline) /\ Known /\ WrittenOnce /\ GoneForGood /\ SlowWrite /\ RestoredOnce
  /\ FirstLife /\ Claimed /\ Kept /\ LastWord

LEMMA PlacesInit == Init => PlacesInv
<1> SUFFICES ASSUME Init PROVE PlacesInv
  OBVIOUS
<1>1. /\ rows = {} /\ writing = {} /\ persisting = {} /\ concluded = {} /\ refused = {}
      /\ removed = {} /\ erased = {} /\ removing = {} /\ withdrawing = {}
      /\ postedBeforeRestored = {} /\ droppedWhileRestoring = {} /\ unread = {}
      /\ todo = <<>> /\ restore = "claim" /\ batch = <<>> /\ queue = <<>>
      /\ deferred = <<>>
  BY DEF Init
<1>2. InHand = {} /\ Once(Pipeline)
  <2>1. Typed
    BY TypedInit
  <2> QED
    BY <1>1, <2>1, EmptyContents, PipelineContents
<1>3. Range(todo) = {} /\ Once(todo)
  BY <1>1, EmptyContents
<1> QED
  BY <1>1, <1>2, <1>3 DEF PlacesInv, Known, WrittenOnce, GoneForGood, SlowWrite,
     RestoredOnce, FirstLife, Claimed, Kept, LastWord

(* The settling of a batch is not disturbed from outside the pump.           *)
LEMMA SlowWriteCalm ==
  ASSUME SlowWrite, writing' \cap concluded' \subseteq writing \cap concluded,
         \/ UNCHANGED <<pc, batch, defer>>
         \/ pc \notin {"settle", "forget"}
  PROVE  SlowWrite'
  BY DEF SlowWrite

(* Steps that move no event, or only from one place of the pump to another.  *)
LEMMA StillInv ==
  ASSUME PlacesInv, Once(Pipeline)', InHand' = InHand, SlowWrite',
         UNCHANGED <<rows, posted, writing, unread, persisting, todo,
                     postedBeforeRestored, droppedWhileRestoring, removing, withdrawing,
                     restarts, concluded, refused, removed, erased>>,
         restore' = "claim" <=> restore = "claim", restore' = "done" <=> restore = "done",
         Closed' <=> Closed, stage' = "up" => stage = "up"
  PROVE  PlacesInv'
<1>1. Known' /\ WrittenOnce' /\ GoneForGood'
  BY DEF PlacesInv, Known, WrittenOnce, GoneForGood
<1>2. RestoredOnce' /\ FirstLife'
  BY DEF PlacesInv, RestoredOnce, FirstLife
<1>3. Claimed' /\ Kept' /\ LastWord'
  BY DEF PlacesInv, Claimed, Kept, LastWord
<1> QED
  BY <1>1, <1>2, <1>3 DEF PlacesInv

(* What an event posted now may bring about: it is queued (hs), written      *)
(* behind the queue (ws) or before it is queued (ps), and noted as not       *)
(* having to be restored (bs).                                               *)
LEMMA ArriveInv ==
  ASSUME Typed, PlacesInv, Once(Pipeline)', SlowWrite',
         NEW e \in Events, e = posted + 1, posted' = e,
         NEW hs \in SUBSET {e}, NEW ws \in SUBSET {e}, NEW ps \in SUBSET {e},
         NEW bs \in SUBSET {e},
         InHand' = InHand \cup hs, writing' = writing \cup ws, unread' = unread \cup ws,
         persisting' = persisting \cup ps,
         postedBeforeRestored' = postedBeforeRestored \cup bs,
         ps \cap (hs \cup ws) = {},
         ~Closed => ws \subseteq hs,
         ~Closed /\ restore # "done" => ws \cup ps \subseteq bs,
         restore = "done" => bs = {},
         UNCHANGED <<rows, todo, stage, restore, droppedWhileRestoring, removing,
                     withdrawing, restarts, concluded, refused, removed, erased>>
  PROVE  PlacesInv'
<1>0. posted \in Nat /\ e \notin 1..posted /\ 1..posted \subseteq 1..posted'
      /\ e \in 1..posted' /\ e # Distill
  BY DEF Typed, TypeOK, Events, Distill
<1>1. /\ e \notin InHand /\ e \notin rows /\ e \notin writing /\ e \notin persisting
      /\ e \notin Range(todo) /\ e \notin concluded /\ e \notin refused /\ e \notin removed
      /\ e \notin postedBeforeRestored /\ e \notin withdrawing
      /\ e \notin droppedWhileRestoring /\ e \notin erased /\ e \notin removing
  BY <1>0 DEF PlacesInv, Known, GoneForGood
<1>2. Closed' <=> Closed
  BY DEF Closed
<1>3. Known'
  <2>1. hs \cup ws \cup ps \cup bs \subseteq 1..posted'
    BY <1>0
  <2>2. InHand' \ {Distill} \subseteq 1..posted'
    <3>1. InHand \ {Distill} \subseteq 1..posted
      BY DEF PlacesInv, Known
    <3> QED
      BY <1>0, <2>1, <3>1
  <2>3. rows' \cup writing' \cup persisting' \cup Range(todo') \subseteq 1..posted'
    <3>1. rows \cup writing \cup persisting \cup Range(todo) \subseteq 1..posted
      BY DEF PlacesInv, Known
    <3>2. todo' = todo
      OBVIOUS
    <3> QED
      BY <1>0, <2>1, <3>1, <3>2
  <2>4. concluded' \cup refused' \cup removed' \subseteq 1..posted'
    BY <1>0 DEF PlacesInv, Known
  <2>5. postedBeforeRestored' \cup withdrawing' \cup droppedWhileRestoring'
          \subseteq 1..posted'
    <3>1. postedBeforeRestored \cup withdrawing \cup droppedWhileRestoring \subseteq 1..posted
      BY DEF PlacesInv, Known
    <3> QED
      BY <1>0, <2>1, <3>1
  <2> QED
    BY <2>2, <2>3, <2>4, <2>5 DEF Known
<1>4. WrittenOnce'
  <2>1. rows' \cap (writing' \cup persisting') = {} /\ writing' \cap persisting' = {}
    <3>1. /\ \A x \in rows : x # e /\ x \notin writing /\ x \notin persisting
          /\ \A x \in writing : x # e /\ x \notin persisting
          /\ \A x \in persisting : x # e
      BY <1>1 DEF PlacesInv, WrittenOnce
    <3>2. /\ \A x \in writing' : x \in writing \/ (x = e /\ e \in ws)
          /\ \A x \in persisting' : x \in persisting \/ (x = e /\ e \in ps)
          /\ ~(e \in ws /\ e \in ps) /\ rows' = rows
      OBVIOUS
    <3> QED
      BY <3>1, <3>2
  <2>2. persisting' \cap (InHand' \cup concluded' \cup withdrawing') = {}
    <3>1. \A x \in persisting : /\ x # e /\ x \notin InHand
                                /\ x \notin concluded /\ x \notin withdrawing
      BY <1>1 DEF PlacesInv, WrittenOnce
    <3>2. /\ \A x \in persisting' : x \in persisting \/ (x = e /\ e \in ps)
          /\ \A x \in InHand' : x \in InHand \/ (x = e /\ e \in hs)
          /\ ~(e \in hs /\ e \in ps)
          /\ concluded' = concluded /\ withdrawing' = withdrawing
      OBVIOUS
    <3> QED
      BY <1>1, <3>1, <3>2
  <2>3. Range(todo') \cap (writing' \cup persisting') = {} /\ writing' \subseteq unread'
    BY <1>1 DEF PlacesInv, WrittenOnce
  <2> QED
    BY <2>1, <2>2, <2>3 DEF WrittenOnce
<1>5. GoneForGood'
  <2>1. (erased' \cup removing' \cup droppedWhileRestoring')
          \cap (rows' \cup writing' \cup persisting') = {}
    <3>1. ASSUME NEW x, x \in erased \cup removing \cup droppedWhileRestoring
          PROVE  x # e /\ x \notin rows /\ x \notin writing /\ x \notin persisting
      BY <1>1, <3>1 DEF PlacesInv, GoneForGood
    <3>2. /\ writing' \subseteq writing \cup {e} /\ persisting' \subseteq persisting \cup {e}
          /\ rows' = rows /\ erased' = erased /\ removing' = removing
          /\ droppedWhileRestoring' = droppedWhileRestoring
      OBVIOUS
    <3> QED
      BY <3>1, <3>2
  <2>2. erased' \cap InHand' = {}
    <3>1. erased \cap InHand = {} /\ erased' = erased /\ InHand' \subseteq InHand \cup {e}
      BY DEF PlacesInv, GoneForGood
    <3> QED
      BY <1>1, <3>1
  <2>4. erased' \cup removing' \subseteq removed'
    BY DEF PlacesInv, GoneForGood
  <2>3. erased' \cap Range(todo')
          \subseteq postedBeforeRestored' \cup droppedWhileRestoring'
    BY DEF PlacesInv, GoneForGood
  <2> QED
    BY <2>1, <2>2, <2>3, <2>4 DEF GoneForGood
<1>6. RestoredOnce'
  <2>1. Once(todo') /\ (restore' \in {"claim", "done"} => todo' = <<>>)
    BY DEF PlacesInv, RestoredOnce
  <2>2. restore' = "done" => postedBeforeRestored' = {} /\ droppedWhileRestoring' = {}
    BY DEF PlacesInv, RestoredOnce
  <2>3. Range(todo') \cap InHand' \subseteq postedBeforeRestored'
    BY <1>1 DEF PlacesInv, RestoredOnce
  <2>4. restore' = "claim" /\ ~Closed' =>
          (InHand' \cap rows') \cup writing' \cup persisting' \subseteq postedBeforeRestored'
    <3> SUFFICES ASSUME restore = "claim", ~Closed
                 PROVE  (InHand' \cap rows') \cup writing' \cup persisting'
                          \subseteq postedBeforeRestored'
      BY <1>2
    <3>1. (InHand \cap rows) \cup writing \cup persisting \subseteq postedBeforeRestored
      BY DEF PlacesInv, RestoredOnce
    <3>2. ws \cup ps \subseteq bs
      OBVIOUS
    <3>3. InHand' \cap rows' \subseteq InHand \cap rows
      BY <1>1
    <3> QED
      BY <3>1, <3>2, <3>3
  <2> QED
    BY <2>1, <2>2, <2>3, <2>4 DEF RestoredOnce
<1>7. FirstLife'
  BY <1>2 DEF PlacesInv, FirstLife
<1>8. Claimed'
  BY <1>1 DEF PlacesInv, Claimed
<1>9. Kept'
  BY <1>1, <1>2 DEF PlacesInv, Kept
<1>10. LastWord'
  BY <1>0 DEF PlacesInv, LastWord
<1> QED
  BY <1>3, <1>4, <1>5, <1>6, <1>7, <1>8, <1>9, <1>10 DEF PlacesInv

LEMMA AdmitPlaces ==
  ASSUME Typed, Typed', PlacesInv, Admit
  PROVE  PlacesInv' /\ Follows(Pipeline, Pipeline')
<1>0. PICK e \in Events, k \in Kinds :
        \/ PostFolded(e, k) \/ PostRowFolded(e, k) \/ Post(e, k)
        \/ PostPersisted(e, k) \/ PostClosed(e, k)
  BY DEF Admit
<1>1. e = posted + 1 /\ posted' = e /\ e \in Ids
  BY <1>0 DEF PostFolded, PostRowFolded, Post, PostPersisted, PostClosed, Fresh, Arrive, Ids
<1>2. e \notin InHand
  <2>1. posted \in Nat /\ e \notin 1..posted /\ e # Distill
    BY <1>1 DEF Typed, TypeOK, Events, Distill
  <2> QED
    BY <2>1 DEF PlacesInv, Known
<1>3. e \notin concluded
  <2>1. posted \in Nat /\ e \notin 1..posted
    BY <1>1 DEF Typed, TypeOK
  <2> QED
    BY <2>1 DEF PlacesInv, Known
<1> USE DEF storeVars, inboxVars, markVars, restoreVars, removeVars, doneVars
<1>4. ASSUME Enqueue(e, k), UNCHANGED <<deferred, defer>>, concluded' = concluded,
             writing' \subseteq writing \cup {e}
      PROVE  /\ Once(Pipeline)' /\ InHand' = InHand \cup {e}
             /\ Follows(Pipeline, Pipeline') /\ SlowWrite'
  <2>1. Push(e, HumanPriority /\ k = "human")
    BY <1>4 DEF Enqueue
  <2>2. Once(Pipeline)' /\ InHand' = InHand \cup {e} /\ Follows(Pipeline, Pipeline')
    BY <1>1, <1>2, <1>4, <2>1, PushPlaces DEF PlacesInv
  <2>3. \/ UNCHANGED <<pc, batch, defer>>
        \/ pc \notin {"settle", "forget"}
    BY <1>4, <2>1 DEF Push
  <2>4. SlowWrite'
    BY <1>3, <1>4, <2>3, SlowWriteCalm DEF PlacesInv
  <2> QED
    BY <2>2, <2>4
<1>5. ASSUME UNCHANGED <<deferred, batch, queue, pc, defer>>, concluded' = concluded,
             writing' \subseteq writing \cup {e}
      PROVE  /\ Once(Pipeline)' /\ InHand' = InHand
             /\ Follows(Pipeline, Pipeline') /\ SlowWrite'
  <2>1. Pipeline' = Pipeline
    BY <1>5 DEF Pipeline
  <2>2. SlowWrite'
    BY <1>3, <1>5, SlowWriteCalm DEF PlacesInv
  <2> QED
    BY <2>1, <2>2 DEF InHand, Follows, PlacesInv
<1>6. CASE PostFolded(e, k)
  <2>1. Once(Pipeline)' /\ InHand' = InHand /\ Follows(Pipeline, Pipeline') /\ SlowWrite'
    BY <1>5, <1>6 DEF PostFolded
  <2>2. /\ InHand' = InHand \cup {} /\ writing' = writing \cup {}
        /\ unread' = unread \cup {} /\ persisting' = persisting \cup {}
        /\ postedBeforeRestored' = postedBeforeRestored \cup {}
    BY <1>6, <2>1 DEF PostFolded
  <2>3. UNCHANGED <<rows, todo, stage, restore, droppedWhileRestoring, removing,
                    withdrawing, restarts, concluded, refused, removed, erased>>
    BY <1>6 DEF PostFolded
  <2>4. Once(Pipeline)' /\ {} \in SUBSET {e}
    BY <2>1
  <2>5. PlacesInv'
    BY <1>1, <2>1, <2>2, <2>3, <2>4, ArriveInv
  <2> QED
    BY <2>1, <2>5
<1>7. CASE PostRowFolded(e, k)
  <2>1. Once(Pipeline)' /\ InHand' = InHand \cup {e}
        /\ Follows(Pipeline, Pipeline') /\ SlowWrite'
    BY <1>4, <1>7 DEF PostRowFolded
  <2>2. /\ writing' = writing \cup {} /\ unread' = unread \cup {}
        /\ persisting' = persisting \cup {}
        /\ postedBeforeRestored' = postedBeforeRestored \cup {}
    BY <1>7, <2>1 DEF PostRowFolded
  <2>3. UNCHANGED <<rows, todo, stage, restore, droppedWhileRestoring, removing,
                    withdrawing, restarts, concluded, refused, removed, erased>>
    BY <1>7 DEF PostRowFolded
  <2>4. {} \in SUBSET {e} /\ {e} \in SUBSET {e}
    OBVIOUS
  <2>5. PlacesInv'
    BY <1>1, <2>1, <2>2, <2>3, <2>4, ArriveInv
  <2> QED
    BY <2>1, <2>5
<1>8. CASE Post(e, k)
  <2> DEFINE bs == IF restore = "done" THEN {} ELSE {e}
  <2>1. Once(Pipeline)' /\ InHand' = InHand \cup {e}
        /\ Follows(Pipeline, Pipeline') /\ SlowWrite'
    BY <1>4, <1>8 DEF Post, Fresh, Remember
  <2>2. /\ writing' = writing \cup {e} /\ unread' = unread \cup {e}
        /\ persisting' = persisting \cup {}
        /\ postedBeforeRestored' = postedBeforeRestored \cup bs
    BY <1>8, <2>1 DEF Post, Fresh, Remember, NoteUnrestored
  <2>3. UNCHANGED <<rows, todo, stage, restore, droppedWhileRestoring, removing,
                    withdrawing, restarts, concluded, refused, removed, erased>>
    BY <1>8 DEF Post, Fresh
  <2>4. {} \in SUBSET {e} /\ {e} \in SUBSET {e} /\ bs \in SUBSET {e}
    OBVIOUS
  <2>5. (restore = "done" => bs = {}) /\ (restore # "done" => bs = {e})
        /\ {} \cap ({e} \cup {e}) = {} /\ {e} \subseteq {e}
        /\ (restore # "done" => {e} \cup {} \subseteq bs)
    OBVIOUS
  <2> HIDE DEF bs
  <2>6. PlacesInv'
    BY <1>1, <2>1, <2>2, <2>3, <2>4, <2>5, ArriveInv
  <2> QED
    BY <2>1, <2>6
<1>9. CASE PostPersisted(e, k)
  <2> DEFINE bs == IF restore = "done" THEN {} ELSE {e}
  <2>1. Once(Pipeline)' /\ InHand' = InHand /\ Follows(Pipeline, Pipeline') /\ SlowWrite'
    BY <1>5, <1>9 DEF PostPersisted, Fresh
  <2>2. /\ InHand' = InHand \cup {} /\ writing' = writing \cup {}
        /\ unread' = unread \cup {} /\ persisting' = persisting \cup {e}
        /\ postedBeforeRestored' = postedBeforeRestored \cup bs
    BY <1>9, <2>1 DEF PostPersisted, Fresh, NoteUnrestored
  <2>3. UNCHANGED <<rows, todo, stage, restore, droppedWhileRestoring, removing,
                    withdrawing, restarts, concluded, refused, removed, erased>>
    BY <1>9 DEF PostPersisted, Fresh
  <2>4. {} \in SUBSET {e} /\ {e} \in SUBSET {e} /\ bs \in SUBSET {e}
    OBVIOUS
  <2>5. (restore = "done" => bs = {}) /\ (restore # "done" => bs = {e})
        /\ {e} \cap ({} \cup {}) = {} /\ {} \subseteq {}
        /\ (restore # "done" => {} \cup {e} \subseteq bs)
    OBVIOUS
  <2> HIDE DEF bs
  <2>6. PlacesInv'
    BY <1>1, <2>1, <2>2, <2>3, <2>4, <2>5, ArriveInv
  <2> QED
    BY <2>1, <2>6
<1>10. CASE PostClosed(e, k)
  <2>1. Once(Pipeline)' /\ InHand' = InHand /\ Follows(Pipeline, Pipeline') /\ SlowWrite'
    BY <1>5, <1>10 DEF PostClosed, Fresh, Remember
  <2>2. /\ InHand' = InHand \cup {} /\ postedBeforeRestored' = postedBeforeRestored \cup {}
        /\ Closed
    BY <1>10, <2>1 DEF PostClosed
  <2>3. UNCHANGED <<rows, todo, stage, restore, droppedWhileRestoring, removing,
                    withdrawing, restarts, concluded, refused, removed, erased>>
    BY <1>10 DEF PostClosed, Fresh
  <2>4. {} \in SUBSET {e} /\ {e} \in SUBSET {e}
    OBVIOUS
  <2>5. CASE writing' = writing \cup {e} /\ unread' = unread \cup {e} /\ UNCHANGED persisting
    <3>1. persisting' = persisting \cup {}
      BY <2>5
    <3> QED
      BY <1>1, <2>1, <2>2, <2>3, <2>4, <2>5, <3>1, ArriveInv
  <2>6. CASE persisting' = persisting \cup {e} /\ UNCHANGED <<writing, unread>>
    <3>1. writing' = writing \cup {} /\ unread' = unread \cup {}
      BY <2>6
    <3> QED
      BY <1>1, <2>1, <2>2, <2>3, <2>4, <2>6, <3>1, ArriveInv
  <2> QED
    BY <1>10, <2>1, <2>5, <2>6 DEF PostClosed, Remember
<1> QED
  BY <1>0, <1>6, <1>7, <1>8, <1>9, <1>10

(* The write of an event ends, one way or the other.                         *)
LEMMA WrittenInv ==
  ASSUME Typed, PlacesInv, Once(Pipeline)', SlowWrite',
         NEW e \in Events, e \in writing \cup persisting,
         writing' = writing \ {e}, persisting' = persisting \ {e},
         rows' = rows \/ rows' = rows \cup {e}, unread \subseteq unread',
         InHand' = InHand \/ (InHand' = InHand \cup {e} /\ e \in persisting),
         refused' = refused \/ refused' = refused \cup {e},
         e \in persisting /\ ~Closed => e \in InHand' \cup refused',
         UNCHANGED <<posted, todo, stage, restore, postedBeforeRestored,
                     droppedWhileRestoring, removing, withdrawing, restarts, concluded,
                     removed, erased>>
  PROVE  PlacesInv'
<1>1. /\ e \in 1..posted /\ e # Distill /\ e \notin Range(todo) /\ e \notin rows
      /\ e \notin erased /\ e \notin removing /\ e \notin droppedWhileRestoring
      /\ (restore = "claim" /\ ~Closed => e \in postedBeforeRestored)
      /\ (e \in writing /\ ~Closed => e \in InHand \cup concluded)
  BY DEF PlacesInv, Known, WrittenOnce, GoneForGood, RestoredOnce, Kept, Typed, TypeOK,
     Events, Distill
<1>2. /\ rows \subseteq rows' /\ rows' \subseteq rows \cup {e}
      /\ InHand \subseteq InHand' /\ InHand' \subseteq InHand \cup {e}
      /\ refused \subseteq refused' /\ refused' \subseteq refused \cup {e}
      /\ (Closed' <=> Closed)
  BY DEF Closed
<1>3. Known'
  BY <1>1, <1>2 DEF PlacesInv, Known
<1>4. WrittenOnce'
  <2>1. rows' \cap (writing' \cup persisting') = {} /\ writing' \cap persisting' = {}
    BY <1>2 DEF PlacesInv, WrittenOnce
  <2>2. persisting' \cap (InHand' \cup concluded' \cup withdrawing') = {}
    BY <1>2 DEF PlacesInv, WrittenOnce
  <2>3. Range(todo') \cap (writing' \cup persisting') = {} /\ writing' \subseteq unread'
    BY DEF PlacesInv, WrittenOnce
  <2> QED
    BY <2>1, <2>2, <2>3 DEF WrittenOnce
<1>5. GoneForGood'
  <2>1. (erased' \cup removing' \cup droppedWhileRestoring')
          \cap (rows' \cup writing' \cup persisting') = {}
    BY <1>1, <1>2 DEF PlacesInv, GoneForGood
  <2>2. erased' \cap InHand' = {} /\ erased' \cup removing' \subseteq removed'
    BY <1>1, <1>2 DEF PlacesInv, GoneForGood
  <2>3. erased' \cap Range(todo')
          \subseteq postedBeforeRestored' \cup droppedWhileRestoring'
    BY DEF PlacesInv, GoneForGood
  <2> QED
    BY <2>1, <2>2, <2>3 DEF GoneForGood
<1>6. RestoredOnce'
  <2>1. /\ Once(todo') /\ (restore' \in {"claim", "done"} => todo' = <<>>)
        /\ restore' = "done" => postedBeforeRestored' = {} /\ droppedWhileRestoring' = {}
    BY DEF PlacesInv, RestoredOnce
  <2>2. Range(todo') \cap InHand' \subseteq postedBeforeRestored'
    BY <1>1, <1>2 DEF PlacesInv, RestoredOnce
  <2>3. restore' = "claim" /\ ~Closed' =>
          (InHand' \cap rows') \cup writing' \cup persisting' \subseteq postedBeforeRestored'
    BY <1>1, <1>2 DEF PlacesInv, RestoredOnce
  <2> QED
    BY <2>1, <2>2, <2>3 DEF RestoredOnce
<1>7. FirstLife'
  BY <1>1, <1>2 DEF PlacesInv, FirstLife
<1>8. Claimed'
  BY <1>2 DEF PlacesInv, Claimed
<1>9. Kept'
  BY <1>1, <1>2 DEF PlacesInv, Kept
<1>10. LastWord'
  BY <1>1, <1>2 DEF PlacesInv, LastWord
<1> QED
  BY <1>3, <1>4, <1>5, <1>6, <1>7, <1>8, <1>9, <1>10 DEF PlacesInv

LEMMA StorePlaces ==
  ASSUME Typed, Typed', PlacesInv, StoreStep
  PROVE  PlacesInv' /\ Follows(Pipeline, Pipeline')
<1>0. PICK e \in Events : WriteEnds(e) \/ Persisted(e) \/ PersistRefused(e)
  BY DEF StoreStep
<1> USE DEF storeVars, postVars, inboxVars, markVars, restoreVars, removeVars, doneVars
<1>1. /\ writing \cap persisting = {} /\ persisting \cap (InHand \cup concluded) = {}
  BY DEF PlacesInv, WrittenOnce
<1>2. ASSUME UNCHANGED <<deferred, batch, queue, pc, defer>>, concluded' = concluded,
             writing' \subseteq writing
      PROVE  /\ Once(Pipeline)' /\ InHand' = InHand
             /\ Follows(Pipeline, Pipeline') /\ SlowWrite'
  <2>1. Pipeline' = Pipeline
    BY <1>2 DEF Pipeline
  <2>2. SlowWrite'
    BY <1>2, SlowWriteCalm DEF PlacesInv
  <2> QED
    BY <2>1, <2>2 DEF InHand, Follows, PlacesInv
<1>3. CASE WriteEnds(e)
  <2>1. Once(Pipeline)' /\ InHand' = InHand /\ Follows(Pipeline, Pipeline') /\ SlowWrite'
    BY <1>2, <1>3 DEF WriteEnds
  <2>2. /\ e \in writing \cup persisting /\ writing' = writing \ {e}
        /\ persisting' = persisting \ {e} /\ (rows' = rows \/ rows' = rows \cup {e})
        /\ unread \subseteq unread' /\ refused' = refused /\ e \notin persisting
    BY <1>1, <1>3 DEF WriteEnds
  <2>3. UNCHANGED <<posted, todo, stage, restore, postedBeforeRestored,
                    droppedWhileRestoring, removing, withdrawing, restarts, concluded,
                    removed, erased>>
    BY <1>3 DEF WriteEnds
  <2>4. PlacesInv'
    BY <2>1, <2>2, <2>3, WrittenInv
  <2> QED
    BY <2>1, <2>4
<1>4. CASE Persisted(e)
  <2>1. /\ e \in persisting /\ writing' = writing \ {e}
        /\ persisting' = persisting \ {e} /\ rows' = rows \cup {e}
        /\ unread \subseteq unread' /\ refused' = refused /\ writing' = writing
        /\ UNCHANGED <<deferred, defer, concluded>>
    BY <1>1, <1>4 DEF Persisted
  <2>2. UNCHANGED <<posted, todo, stage, restore, postedBeforeRestored,
                    droppedWhileRestoring, removing, withdrawing, restarts, concluded,
                    removed, erased>>
    BY <1>4 DEF Persisted
  <2>3. CASE Closed
    <3>1. Once(Pipeline)' /\ InHand' = InHand /\ Follows(Pipeline, Pipeline') /\ SlowWrite'
      BY <1>2, <1>4, <2>1, <2>3 DEF Persisted
    <3>2. PlacesInv'
      BY <2>1, <2>2, <2>3, <3>1, WrittenInv
    <3> QED
      BY <3>1, <3>2
  <2>4. CASE ~Closed
    <3>1. Push(e, HumanPriority /\ kind[e] = "human")
      BY <1>4, <2>4 DEF Persisted, Enqueue
    <3>2. e \in Ids /\ e \notin InHand
      BY <1>1, <2>1 DEF Ids
    <3>3. Once(Pipeline)' /\ InHand' = InHand \cup {e} /\ Follows(Pipeline, Pipeline')
      BY <2>1, <3>1, <3>2, PushPlaces DEF PlacesInv
    <3>4. UNCHANGED <<pc, batch, defer>> \/ pc \notin {"settle", "forget"}
      BY <2>1, <3>1 DEF Push
    <3>5. SlowWrite'
      BY <2>1, <3>4, SlowWriteCalm DEF PlacesInv
    <3>6. PlacesInv'
      BY <2>1, <2>2, <3>3, <3>5, WrittenInv
    <3> QED
      BY <3>3, <3>6
  <2> QED
    BY <2>3, <2>4
<1>5. CASE PersistRefused(e)
  <2>1. Once(Pipeline)' /\ InHand' = InHand /\ Follows(Pipeline, Pipeline') /\ SlowWrite'
    BY <1>2, <1>5 DEF PersistRefused
  <2>2. /\ e \in persisting /\ writing' = writing \ {e}
        /\ persisting' = persisting \ {e} /\ (rows' = rows \/ rows' = rows \cup {e})
        /\ unread \subseteq unread' /\ refused' = refused \cup {e}
    BY <1>1, <1>5 DEF PersistRefused
  <2>3. UNCHANGED <<posted, todo, stage, restore, postedBeforeRestored,
                    droppedWhileRestoring, removing, withdrawing, restarts, concluded,
                    removed, erased>>
    BY <1>5 DEF PersistRefused
  <2>4. PlacesInv'
    BY <2>1, <2>2, <2>3, WrittenInv
  <2> QED
    BY <2>1, <2>4
<1> QED
  BY <1>0, <1>3, <1>4, <1>5

(* A turn has answered for events of the batch, which stay in it.            *)
LEMMA ConcludedInv ==
  ASSUME Typed, PlacesInv, Pipeline' = Pipeline, SlowWrite',
         NEW C \in SUBSET (Range(batch) \cap Events), concluded' = concluded \cup C,
         UNCHANGED <<rows, posted, writing, unread, persisting, todo, stage, restore,
                     postedBeforeRestored, droppedWhileRestoring, removing, withdrawing,
                     restarts, refused, removed, erased>>
  PROVE  PlacesInv'
<1>1. InHand' = InHand /\ Once(Pipeline)' /\ (Closed' <=> Closed)
  BY DEF InHand, PlacesInv, Closed
<1>2. C \subseteq InHand /\ C \subseteq 1..posted /\ C \cap persisting = {}
  <2>1. C \subseteq InHand /\ Distill \notin C
    BY PipelineContents DEF Events, Distill
  <2> QED
    BY <2>1 DEF PlacesInv, Known, WrittenOnce
<1>3. Known' /\ GoneForGood'
  BY <1>1, <1>2 DEF PlacesInv, Known, GoneForGood
<1>4. WrittenOnce'
  BY <1>1, <1>2 DEF PlacesInv, WrittenOnce
<1>5. RestoredOnce' /\ FirstLife' /\ LastWord'
  BY <1>1 DEF PlacesInv, RestoredOnce, FirstLife, LastWord
<1>6. Claimed' /\ Kept'
  BY <1>1 DEF PlacesInv, Claimed, Kept
<1> QED
  BY <1>1, <1>3, <1>4, <1>5, <1>6 DEF PlacesInv

(* The first event of the batch is settled, with its row or without.         *)
LEMMA SettledInv ==
  ASSUME Typed, PlacesInv, Once(Pipeline)', SlowWrite',
         NEW h \in InHand, InHand' = InHand \ {h}, h \in Events => h \in concluded',
         concluded' = concluded \/ concluded' = concluded \cup {h}, h \in concluded' => h \in Events,
         rows' = rows \/ rows' = rows \ {h},
         unread' = unread \/ (unread' = unread \ {h} /\ h \notin writing),
         Closed' <=> Closed, stage' = "up" => stage = "up",
         UNCHANGED <<posted, writing, persisting, todo, restore, postedBeforeRestored,
                     droppedWhileRestoring, removing, withdrawing, restarts, refused,
                     removed, erased>>
  PROVE  PlacesInv'
<1>1. h \in concluded' => h \in 1..posted /\ h \notin persisting
  <2>1. h \in Events => h # Distill
    BY DEF Events, Distill
  <2> QED
    BY <2>1 DEF PlacesInv, Known, WrittenOnce
<1>2. /\ concluded \subseteq concluded' /\ concluded' \subseteq concluded \cup {h}
      /\ rows' \subseteq rows /\ rows \subseteq rows' \cup {h}
  OBVIOUS
<1>3. \A x \in 1..posted : x \in Events
  BY InboxAssumption DEF Typed, TypeOK, Events
<1>4. Known'
  BY <1>1, <1>2 DEF PlacesInv, Known
<1>5. WrittenOnce'
  BY <1>1, <1>2 DEF PlacesInv, WrittenOnce
<1>6. GoneForGood'
  BY <1>2 DEF PlacesInv, GoneForGood
<1>7. RestoredOnce' /\ FirstLife' /\ LastWord'
  BY <1>2 DEF PlacesInv, RestoredOnce, FirstLife, LastWord
<1>8. Claimed'
  <2>1. Range(todo) \subseteq Events
    BY <1>3 DEF PlacesInv, Known
  <2>2. Range(todo') \ postedBeforeRestored' \subseteq rows' \cup removed'
    BY <1>2 DEF PlacesInv, Claimed, RestoredOnce
  <2>3. Range(todo')
          \subseteq rows' \cup concluded' \cup erased' \cup removing' \cup InHand'
    BY <1>2, <2>1 DEF PlacesInv, Claimed
  <2> QED
    BY <2>2, <2>3 DEF Claimed
<1>9. Kept'
  <2>1. writing \subseteq Events /\ rows \subseteq Events
    BY DEF Typed, TypeOK
  <2> QED
    BY <1>2, <2>1 DEF PlacesInv, Kept
<1> QED
  BY <1>4, <1>5, <1>6, <1>7, <1>8, <1>9 DEF PlacesInv

LEMMA PumpMovesPlaces ==
  ASSUME Typed, Typed', PlacesInv,
         \/ PumpNext \/ PumpRelease \/ PumpShortCircuit \/ PumpCheck \/ PumpStartTurn
         \/ SettleHeld
  PROVE  PlacesInv' /\ Follows(Pipeline, Pipeline')
<1> USE DEF storeVars, postVars, usageVars, markVars, restoreVars, removeVars, doneVars
<1>1. Once(Pipeline) /\ SlowWrite
  BY DEF PlacesInv
<1>2. Once(Pipeline)' /\ InHand' = InHand /\ Follows(Pipeline, Pipeline')
  <2>1. CASE PumpShortCircuit \/ PumpCheck
    <3>1. Pipeline' = Pipeline
      BY <2>1 DEF PumpShortCircuit, PumpCheck, Pipeline
    <3> QED
      BY <1>1, <3>1 DEF InHand, Follows
  <2> QED
    BY <1>1, <2>1, MovePlaces
<1>3. /\ UNCHANGED <<rows, posted, persisting, todo, writing, unread,
                     postedBeforeRestored, droppedWhileRestoring, removing, withdrawing,
                     restarts, restore, concluded, refused, removed, erased>>
      /\ (Closed' <=> Closed) /\ (stage' = "up" => stage = "up")
  BY DEF PumpNext, PumpRelease, PumpShortCircuit, PumpCheck, PumpStartTurn, SettleHeld,
     Settled, Closed
<1>4. SlowWrite'
  <2>1. CASE SettleHeld
    <3>1. writing \cap concluded = {}
      BY <1>1, <2>1 DEF SettleHeld, SlowWrite
    <3> QED
      BY <1>3, <3>1 DEF SlowWrite
  <2>2. CASE ~SettleHeld
    <3>1. pc \notin {"settle", "forget"}
      BY <2>2 DEF PumpNext, PumpRelease, PumpShortCircuit, PumpCheck, PumpStartTurn
    <3> QED
      BY <1>1, <1>3, <3>1, SlowWriteCalm
  <2> QED
    BY <2>1, <2>2
<1>5. PlacesInv'
  BY <1>2, <1>3, <1>4, StillInv
<1> QED
  BY <1>2, <1>5

LEMMA TurnPlaces ==
  ASSUME Typed, Typed', PlacesInv,
         PumpRecovered \/ TurnAnswered \/ TurnHitsLimit \/ TurnFails
  PROVE  PlacesInv' /\ Follows(Pipeline, Pipeline')
<1> USE DEF storeVars, postVars, usageVars, markVars, restoreVars, removeVars, doneVars
<1>1. PICK C \in SUBSET (Range(batch) \cap Events) :
        /\ concluded' = concluded \cup C /\ pc' = "settle" /\ (defer' => C = {})
        /\ pc \in {"checking", "turn"}
  <2>1. CASE PumpRecovered
    <3>1. Head(batch) \in Range(batch) /\ Head(batch) \in Ids
      BY <2>1, TailContents DEF PumpRecovered, Typed, TypeOK
    <3>2. Head(batch) \in Events
      BY <2>1, <3>1 DEF PumpRecovered, Typed, Ids
    <3>3. {Head(batch)} \in SUBSET (Range(batch) \cap Events)
      BY <3>1, <3>2
    <3> QED
      BY <2>1, <3>3 DEF PumpRecovered
  <2>2. ASSUME NEW b, TurnEnds(b)
        PROVE  \E C \in SUBSET (Range(batch) \cap Events) :
                 /\ concluded' = concluded \cup C /\ pc' = "settle" /\ (defer' => C = {})
                 /\ pc \in {"checking", "turn"}
    <3> DEFINE C == IF b # "no" THEN {} ELSE Range(batch) \cap Events
    <3>1. /\ C \in SUBSET (Range(batch) \cap Events) /\ concluded' = concluded \cup C
          /\ pc' = "settle" /\ (defer' => C = {}) /\ pc \in {"checking", "turn"}
      BY <2>2 DEF TurnEnds
    <3> QED
      BY <3>1
  <2> QED
    BY <2>1, <2>2 DEF TurnAnswered, TurnHitsLimit, TurnFails
<1>2. /\ UNCHANGED <<rows, posted, writing, unread, persisting, todo, stage, restore,
                     postedBeforeRestored, droppedWhileRestoring, removing, withdrawing,
                     restarts, refused, removed, erased>>
      /\ UNCHANGED <<batch, deferred, queue>>
  BY DEF PumpRecovered, TurnAnswered, TurnHitsLimit, TurnFails, TurnEnds
<1>3. Pipeline' = Pipeline
  BY <1>2 DEF Pipeline
<1>4. SlowWrite'
  <2>1. writing \cap concluded = {}
    BY <1>1 DEF PlacesInv, SlowWrite
  <2> QED
    BY <1>1, <1>2, <2>1 DEF SlowWrite
<1>5. PlacesInv'
  BY <1>1, <1>2, <1>3, <1>4, ConcludedInv
<1> QED
  BY <1>3, <1>5 DEF Follows

LEMMA SettlePlaces ==
  ASSUME Typed, Typed', DoneInv, PlacesInv, SettleForget \/ Forget
  PROVE  PlacesInv' /\ Follows(Pipeline, Pipeline')
<1> DEFINE h == Head(batch)
<1> USE DEF storeVars, postVars, usageVars, markVars, restoreVars, removeVars, doneVars
<1>1. /\ pc \in {"settle", "forget"} /\ batch \in Seq(Ids) /\ batch # <<>>
      /\ UNCHANGED <<posted, writing, persisting, todo, restore, postedBeforeRestored,
                     droppedWhileRestoring, removing, withdrawing, restarts, refused,
                     removed, erased, deferred, queue, defer>>
  BY DEF SettleForget, Forget, Typed, TypeOK
<1>2. h \in Range(batch) /\ h \in InHand /\ h \in Ids /\ Once(Pipeline)
  <2>1. h \in Range(batch) /\ h \in Ids
    BY <1>1, TailContents
  <2> QED
    BY <2>1, PipelineContents DEF PlacesInv
<1>3. SlowWrite /\ writing \subseteq unread
  BY DEF PlacesInv, WrittenOnce
<1> HIDE DEF h
<1>4. CASE Settled /\ h \notin writing
  <2>1. /\ batch' = Tail(batch) /\ pc' \in {"next", "settle"} /\ (Closed' <=> Closed)
        /\ (stage' = "up" => stage = "up")
    BY <1>4 DEF Settled, Closed
  <2>2. /\ Once(Pipeline)' /\ InHand' = InHand \ {h} /\ Range(batch') = Range(batch) \ {h}
        /\ Follows(Pipeline, Pipeline')
    BY <1>1, <1>2, <2>1, SettledPlaces DEF h
  <2>3. /\ concluded' = concluded \/ concluded' = concluded \cup {h}
        /\ h \in Events => h \in concluded'
    <3>1. CASE Forget
      <4>1. concluded' = concluded /\ h \in concluded
        BY <3>1 DEF Forget, DoneInv, ForgetsConcluded, h
      <4> QED
        BY <4>1
    <3>2. CASE SettleForget /\ defer
      BY <3>2 DEF SettleForget, h
    <3>3. CASE SettleForget /\ ~defer
      BY <1>2, <3>3 DEF SettleForget, DoneInv, AnsweredConcluded
    <3> QED
      BY <3>1, <3>2, <3>3
  <2>4. h \in concluded' => h \in Events
    BY DEF Typed, TypeOK
  <2>5. /\ rows' = rows \/ rows' = rows \ {h}
        /\ unread' = unread \/ (unread' = unread \ {h} /\ h \notin writing)
    BY <1>4 DEF SettleForget, Forget, h
  <2>6. SlowWrite'
    <3> SUFFICES ASSUME NEW e \in writing, e \in concluded'
                 PROVE  e \in Range(batch') /\ pc' = "settle" /\ ~defer'
      BY <1>1 DEF SlowWrite
    <3>1. e # h /\ e \in concluded
      BY <1>4, <2>3
    <3>2. e \in Range(batch') /\ ~defer
      BY <1>3, <2>2, <3>1 DEF SlowWrite, h
    <3>3. batch' # <<>>
      BY <3>2, EmptyContents
    <3> QED
      BY <1>1, <2>1, <3>2, <3>3 DEF Typed, TypeOK
  <2>7. PlacesInv'
    BY <1>1, <1>2, <2>1, <2>2, <2>3, <2>4, <2>5, <2>6, SettledInv
  <2> QED
    BY <2>2, <2>7
<1>5. CASE SettleForget /\ pc' = "forget" /\ UNCHANGED <<batch, stage>>
  <2> DEFINE C == IF defer THEN {h} ELSE {}
  <2>1. h \in Events
    <3>1. h \in unread \/ Settled
      BY <1>5 DEF SettleForget, h
    <3>2. ~Settled
      BY <1>5 DEF Settled
    <3> QED
      BY <3>1, <3>2 DEF Typed, TypeOK
  <2>2. C \in SUBSET (Range(batch) \cap Events) /\ concluded' = concluded \cup C
    BY <1>2, <1>5, <2>1 DEF SettleForget, h
  <2>3. Pipeline' = Pipeline
    BY <1>1, <1>5 DEF Pipeline
  <2>4. rows' = rows /\ unread' = unread /\ pc = "settle"
    BY <1>5 DEF SettleForget
  <2>5. SlowWrite'
    <3> SUFFICES ASSUME NEW e \in writing, e \in concluded'
                 PROVE  e \in Range(batch') /\ (defer => e = Head(batch'))
      BY <1>1, <1>5 DEF SlowWrite
    <3>1. CASE e \in concluded
      BY <1>3, <1>5, <2>4, <3>1 DEF SlowWrite
    <3>2. CASE e \notin concluded
      <4>1. e = h
        BY <2>2, <3>2
      <4> QED
        BY <1>2, <1>5, <4>1 DEF h
    <3> QED
      BY <3>1, <3>2
  <2> HIDE DEF C
  <2>6. PlacesInv'
    BY <1>1, <1>5, <2>2, <2>3, <2>4, <2>5, ConcludedInv
  <2> QED
    BY <2>3, <2>6 DEF Follows
<1> QED
  <2>1. CASE Forget
    <3>1. Settled /\ h \notin writing
      BY <2>1 DEF Forget, WriteEnded, h
    <3> QED
      BY <1>4, <3>1
  <2>2. CASE SettleForget
    <3>1. \/ Settled /\ h \notin unread
          \/ pc' = "forget" /\ UNCHANGED <<batch, stage>>
      BY <2>2 DEF SettleForget, h
    <3> QED
      BY <1>3, <1>4, <1>5, <2>2, <3>1
  <2> QED
    BY <2>1, <2>2

LEMMA PumpPlaces ==
  ASSUME Typed, Typed', DoneInv, PlacesInv, Pump
  PROVE  PlacesInv' /\ Follows(Pipeline, Pipeline')
  BY PumpMovesPlaces, TurnPlaces, SettlePlaces DEF Pump

LEMMA LimitPlaces ==
  ASSUME PlacesInv, RateLimited \/ LimitAges \/ UNCHANGED vars
  PROVE  PlacesInv' /\ Follows(Pipeline, Pipeline')
<1> USE DEF storeVars, postVars, inboxVars, markVars, restoreVars, removeVars, doneVars
<1>1. /\ UNCHANGED <<rows, posted, writing, unread, persisting, todo, stage, restore,
                     postedBeforeRestored, droppedWhileRestoring, removing, withdrawing,
                     restarts, concluded, refused, removed, erased>>
      /\ UNCHANGED <<batch, deferred, queue, pc, defer>>
  BY DEF RateLimited, LimitAges, vars
<1>2. Pipeline' = Pipeline /\ (Closed' <=> Closed)
  BY <1>1 DEF Pipeline, Closed
<1>3. Once(Pipeline)' /\ InHand' = InHand
  BY <1>2 DEF InHand, PlacesInv
<1>4. SlowWrite'
  BY <1>1, SlowWriteCalm DEF PlacesInv
<1>5. PlacesInv'
  BY <1>1, <1>2, <1>3, <1>4, StillInv
<1> QED
  BY <1>2, <1>5 DEF Follows

(* The rows claimed are all the rows, each once.                             *)
LEMMA ClaimContents ==
  ASSUME Typed, ClaimPending
  PROVE  todo' \in Seq(Events) /\ Once(todo') /\ Range(todo') = rows
<1> DEFINE n == Cardinality(rows)
<1>1. IsFiniteSet(1..MaxEvents)
  BY InboxAssumption, FS_Interval
<1>2. IsFiniteSet(rows) /\ n \in Nat
  BY <1>1, FS_Subset, FS_CardinalityType DEF Typed, TypeOK, Events
<1>3. PICK s \in [1..n -> rows] : Ascending(s) /\ todo' = s
  BY DEF ClaimPending
<1> HIDE DEF n
<1>4. DOMAIN s = 1..n /\ \A i \in 1..n : s[i] \in rows /\ s[i] \in Nat
  <2>1. \A x \in rows : x \in Nat
    BY InboxAssumption DEF Typed, TypeOK, Events
  <2> QED
    BY <1>3, <2>1
<1>5. ASSUME NEW i \in 1..n, NEW j \in 1..n, s[i] = s[j] PROVE i = j
  <2>1. (i < j => s[i] < s[j]) /\ (j < i => s[j] < s[i])
    BY <1>3, <1>4 DEF Ascending
  <2>2. s[i] \in Nat
    BY <1>4
  <2>3. ~(s[i] < s[i])
    BY <2>2
  <2>4. ~(i < j) /\ ~(j < i)
    BY <1>5, <2>1, <2>3
  <2> QED
    BY <1>2, <2>4
<1>6. s \in Injection(1..n, rows)
  BY <1>4, <1>5 DEF Injection, IsInjective
<1>7. Cardinality(1..n) = n
  BY <1>2, FS_Interval
<1>8. s \in Surjection(1..n, rows)
  BY <1>2, <1>6, <1>7, FS_Injection DEF n
<1>9. Range(s) = rows
  BY <1>4, <1>8 DEF Range, Surjection
<1>10. Once(s)
  BY <1>4, <1>5 DEF Once
<1> QED
  BY <1>3, <1>9, <1>10, ClaimTyped

(* Claiming the rows, and being done with them.                              *)
LEMMA ClaimPlaces ==
  ASSUME Typed, Typed', PlacesInv, ClaimPending \/ ClaimAbandoned \/ RestoreEnds
  PROVE  PlacesInv' /\ Follows(Pipeline, Pipeline')
<1> USE DEF storeVars, postVars, inboxVars, markVars, restoreVars, removeVars, doneVars
<1>1. /\ UNCHANGED <<rows, posted, writing, unread, persisting, stage, removing,
                     withdrawing, restarts, concluded, refused, removed, erased>>
      /\ UNCHANGED <<batch, deferred, queue, pc, defer>>
  BY DEF ClaimPending, ClaimAbandoned, RestoreEnds
<1>2. Pipeline' = Pipeline /\ (Closed' <=> Closed)
  BY <1>1 DEF Pipeline, Closed
<1>3. /\ Once(Pipeline)' /\ InHand' = InHand /\ SlowWrite'
  BY <1>1, <1>2, SlowWriteCalm DEF InHand, PlacesInv
<1>4. CASE ClaimPending
  <2>1. /\ restore = "claim" /\ restore' = "claimed" /\ ~Closed
        /\ UNCHANGED <<postedBeforeRestored, droppedWhileRestoring>>
    BY <1>4 DEF ClaimPending
  <2>2. Once(todo') /\ Range(todo') = rows
    BY <1>4, ClaimContents
  <2>3. Known' /\ WrittenOnce'
    BY <1>1, <1>3, <2>1, <2>2 DEF PlacesInv, Known, WrittenOnce
  <2>4. GoneForGood'
    BY <1>1, <1>3, <2>1, <2>2 DEF PlacesInv, GoneForGood
  <2>5. RestoredOnce' /\ FirstLife'
    BY <1>1, <1>2, <1>3, <2>1, <2>2 DEF PlacesInv, RestoredOnce, FirstLife
  <2>6. Claimed' /\ Kept' /\ LastWord'
    BY <1>1, <1>2, <1>3, <2>1, <2>2 DEF PlacesInv, Claimed, Kept, LastWord
  <2> QED
    BY <1>2, <1>3, <2>3, <2>4, <2>5, <2>6 DEF PlacesInv, Follows
<1>5. CASE ClaimAbandoned \/ RestoreEnds
  <2>1. /\ restore' = "done" /\ postedBeforeRestored' = {} /\ droppedWhileRestoring' = {}
        /\ todo' = <<>> /\ restore # "done" /\ (todo = <<>> \/ Closed)
    BY <1>5 DEF ClaimAbandoned, RestoreEnds, PlacesInv, RestoredOnce
  <2>2. Once(todo') /\ Range(todo') = {}
    BY <2>1, EmptyContents
  <2>3. todo = <<>> => Range(todo) = {}
    BY EmptyContents
  <2>4. Known' /\ WrittenOnce'
    BY <1>1, <1>3, <2>1, <2>2 DEF PlacesInv, Known, WrittenOnce
  <2>5. GoneForGood'
    BY <1>1, <1>3, <2>1, <2>2 DEF PlacesInv, GoneForGood
  <2>6. RestoredOnce' /\ FirstLife'
    BY <1>1, <1>2, <1>3, <2>1, <2>2 DEF PlacesInv, RestoredOnce, FirstLife
  <2>7. Claimed' /\ LastWord'
    BY <1>1, <1>2, <1>3, <2>1, <2>2 DEF PlacesInv, Claimed, LastWord
  <2>8. Kept'
    <3>1. ~Closed => restore # "claim"
      BY <1>5 DEF ClaimAbandoned, RestoreEnds
    <3> QED
      BY <1>1, <1>2, <1>3, <2>1, <2>2, <2>3, <3>1 DEF PlacesInv, Kept
  <2> QED
    BY <1>2, <1>3, <2>4, <2>5, <2>6, <2>7, <2>8 DEF PlacesInv, Follows
<1> QED
  BY <1>4, <1>5

(* One claimed row: delivered live, dropped meanwhile, or queued now.        *)
LEMMA RecordPlaces ==
  ASSUME Typed, Typed', PlacesInv, RestoreRecord
  PROVE  PlacesInv' /\ Follows(Pipeline, Pipeline')
<1> DEFINE e == Head(todo)
<1> USE DEF storeVars, postVars, inboxVars, markVars, restoreVars, removeVars, doneVars
<1>1. /\ UNCHANGED <<rows, posted, writing, persisting, stage, removing, withdrawing,
                     restarts, concluded, refused, removed, erased, deferred, defer,
                     postedBeforeRestored, droppedWhileRestoring>>
      /\ todo' = Tail(todo) /\ todo # <<>> /\ restore = "loop" /\ ~Closed
      /\ restore' \in {"loop", "registered"}
  BY DEF RestoreRecord
<1>2. /\ e \in Events /\ Range(todo) = {e} \cup Range(todo')
      /\ Once(todo') /\ e \notin Range(todo')
  BY <1>1, TailContents DEF Typed, TypeOK, PlacesInv, RestoredOnce
<1>3. e \in Ids /\ e # Distill /\ e \notin persisting /\ e \notin writing /\ ~Closed'
  BY <1>1, <1>2 DEF Ids, Events, Distill, PlacesInv, WrittenOnce, Closed
<1>4. \/ e \in postedBeforeRestored /\ UNCHANGED <<unread, queue, pc, batch>>
      \/ /\ e \notin postedBeforeRestored /\ e \in droppedWhileRestoring
         /\ unread' = unread \ {e} /\ UNCHANGED <<queue, pc, batch>>
      \/ /\ e \notin postedBeforeRestored /\ e \notin droppedWhileRestoring
         /\ unread' = unread \cup {e} /\ Push(e, HumanPriority /\ kind[e] = "human")
  BY DEF RestoreRecord, Dropped, Enqueue
<1> HIDE DEF e
<1>5. e \notin postedBeforeRestored => e \notin InHand
  BY <1>2 DEF PlacesInv, RestoredOnce
<1>6. writing \subseteq unread'
  BY <1>3, <1>4 DEF PlacesInv, WrittenOnce
<1>7. /\ Once(Pipeline)' /\ SlowWrite' /\ Follows(Pipeline, Pipeline')
      /\ \/ /\ InHand' = InHand
            /\ e \in postedBeforeRestored \cup droppedWhileRestoring
         \/ /\ InHand' = InHand \cup {e}
            /\ e \notin postedBeforeRestored /\ e \notin droppedWhileRestoring
  <2>1. CASE /\ e \in postedBeforeRestored \cup droppedWhileRestoring
             /\ UNCHANGED <<queue, pc, batch>>
    <3>1. Pipeline' = Pipeline
      BY <1>1, <2>1 DEF Pipeline
    <3>2. SlowWrite'
      BY <1>1, <2>1, SlowWriteCalm DEF PlacesInv
    <3> QED
      BY <2>1, <3>1, <3>2 DEF InHand, Follows, PlacesInv
  <2>2. CASE /\ e \notin postedBeforeRestored /\ e \notin droppedWhileRestoring
             /\ Push(e, HumanPriority /\ kind[e] = "human")
    <3>1. Once(Pipeline)' /\ InHand' = InHand \cup {e} /\ Follows(Pipeline, Pipeline')
      BY <1>1, <1>3, <1>5, <2>2, PushPlaces DEF PlacesInv
    <3>2. UNCHANGED <<pc, batch, defer>> \/ pc \notin {"settle", "forget"}
      BY <1>1, <2>2 DEF Push
    <3>3. SlowWrite'
      BY <1>1, <3>2, SlowWriteCalm DEF PlacesInv
    <3> QED
      BY <2>2, <3>1, <3>3
  <2> QED
    BY <1>4, <2>1, <2>2
<1>8. InHand \subseteq InHand' /\ InHand' \subseteq InHand \cup {e}
  BY <1>7
<1>9. Known'
  BY <1>1, <1>2, <1>8 DEF PlacesInv, Known
<1>10. WrittenOnce'
  BY <1>1, <1>2, <1>3, <1>6, <1>8 DEF PlacesInv, WrittenOnce
<1>11. GoneForGood'
  BY <1>1, <1>2, <1>7 DEF PlacesInv, GoneForGood
<1>12. RestoredOnce' /\ FirstLife'
  BY <1>1, <1>2, <1>8 DEF PlacesInv, RestoredOnce, FirstLife
<1>13. Claimed' /\ LastWord'
  BY <1>1, <1>2, <1>3, <1>8 DEF PlacesInv, Claimed, LastWord
<1>14. Kept'
  <2>1. e \in rows => e \in InHand' \cup concluded \cup refused
    BY <1>1, <1>7 DEF PlacesInv, Kept, GoneForGood
  <2> QED
    BY <1>1, <1>2, <1>8, <2>1 DEF PlacesInv, Kept
<1> QED
  BY <1>7, <1>9, <1>10, <1>11, <1>12, <1>13, <1>14 DEF PlacesInv

LEMMA RestorePlaces ==
  ASSUME Typed, Typed', PlacesInv, Restoring \/ RestoreBody
  PROVE  PlacesInv' /\ Follows(Pipeline, Pipeline')
<1>1. CASE RegisterRepresentatives \/ RestoreLoop
  <2> USE DEF storeVars, postVars, inboxVars, markVars, restoreVars, removeVars, doneVars
  <2>1. /\ UNCHANGED <<rows, posted, writing, unread, persisting, todo, stage,
                       postedBeforeRestored, droppedWhileRestoring, removing, withdrawing,
                       restarts, concluded, refused, removed, erased>>
        /\ UNCHANGED <<batch, deferred, queue, pc, defer>>
        /\ restore \in {"claimed", "registered"} /\ restore' \in {"registered", "loop"}
    BY <1>1 DEF RegisterRepresentatives, RestoreLoop
  <2>2. Pipeline' = Pipeline /\ (Closed' <=> Closed)
    BY <2>1 DEF Pipeline, Closed
  <2>3. Once(Pipeline)' /\ InHand' = InHand /\ SlowWrite'
    BY <2>1, <2>2, SlowWriteCalm DEF InHand, PlacesInv
  <2>4. PlacesInv'
    BY <2>1, <2>2, <2>3, StillInv
  <2> QED
    BY <2>2, <2>4 DEF Follows
<1> QED
  BY <1>1, ClaimPlaces, RecordPlaces DEF Restoring, RestoreBody

(* A row is deleted on request, and its event is no longer to be delivered.  *)
LEMMA RemovedInv ==
  ASSUME PlacesInv, UNCHANGED <<deferred, batch, queue, pc, defer>>,
         NEW e, e \in 1..posted, e \notin writing, e \notin persisting,
         rows' = rows \ {e}, removed' = removed \cup {e}, removing' = removing \cup {e},
         withdrawing' \subseteq withdrawing,
         UNCHANGED <<posted, writing, unread, persisting, todo, stage, restore,
                     postedBeforeRestored, droppedWhileRestoring, restarts, concluded,
                     refused, erased>>
  PROVE  PlacesInv'
<1>1. Pipeline' = Pipeline /\ (Closed' <=> Closed)
  BY DEF Pipeline, Closed
<1>2. Once(Pipeline)' /\ InHand' = InHand /\ SlowWrite'
  BY <1>1, SlowWriteCalm DEF InHand, PlacesInv
<1>3. Known'
  BY <1>2 DEF PlacesInv, Known
<1>4. WrittenOnce'
  BY <1>2 DEF PlacesInv, WrittenOnce
<1>5. GoneForGood'
  BY <1>2 DEF PlacesInv, GoneForGood
<1>6. RestoredOnce' /\ FirstLife' /\ LastWord'
  BY <1>1, <1>2 DEF PlacesInv, RestoredOnce, FirstLife, LastWord
<1>7. Claimed' /\ Kept'
  BY <1>1, <1>2 DEF PlacesInv, Claimed, Kept
<1> QED
  BY <1>2, <1>3, <1>4, <1>5, <1>6, <1>7 DEF PlacesInv

LEMMA StopDeliveryPlaces ==
  ASSUME Typed, Typed', PlacesInv, NEW e \in Events, StopDelivery(e)
  PROVE  PlacesInv' /\ Follows(Pipeline, Pipeline')
<1> USE DEF storeVars, postVars, usageVars, doneVars
<1>1. /\ UNCHANGED <<rows, posted, writing, persisting, todo, stage, restore,
                     postedBeforeRestored, withdrawing, restarts, concluded, refused,
                     removed, batch, pc, defer>>
      /\ e \in removing /\ removing' = removing \ {e}
      /\ (unread' = unread \/ unread' = unread \ {e})
      /\ erased' = IF OccursIn(batch, e) THEN erased ELSE erased \cup {e}
      /\ droppedWhileRestoring' = IF restore = "done" THEN droppedWhileRestoring
                                  ELSE droppedWhileRestoring \cup {e}
  BY DEF StopDelivery
<1>2. /\ Once(Pipeline)' /\ Follows(Pipeline, Pipeline')
      /\ InHand' = IF e \in Range(batch) THEN InHand ELSE InHand \ {e}
      /\ OccursIn(batch, e) <=> e \in Range(batch)
  BY DropPlaces DEF PlacesInv
<1>3. Range(batch) \subseteq InHand
  BY PipelineContents
<1>4. /\ Closed' <=> Closed
      /\ SlowWrite'
  BY <1>1, SlowWriteCalm DEF Closed, PlacesInv
<1>5. /\ e \in removed /\ e \in 1..posted /\ e \notin rows /\ e \notin writing
      /\ e \notin persisting
  BY <1>1 DEF PlacesInv, GoneForGood, Known
<1>6. /\ InHand' \subseteq InHand /\ InHand \subseteq InHand' \cup {e}
      /\ erased' \subseteq erased \cup {e} /\ (e \in erased' => e \notin InHand' \/ e \in erased)
      /\ erased \subseteq erased' /\ e \in erased' \cup InHand'
      /\ droppedWhileRestoring \subseteq droppedWhileRestoring'
      /\ droppedWhileRestoring' \subseteq droppedWhileRestoring \cup {e}
  BY <1>1, <1>2, <1>3
<1>7. Known'
  BY <1>1, <1>5, <1>6 DEF PlacesInv, Known
<1>8. WrittenOnce'
  BY <1>1, <1>5, <1>6 DEF PlacesInv, WrittenOnce
<1>9. GoneForGood'
  <2>1. (erased' \cup removing' \cup droppedWhileRestoring')
          \cap (rows' \cup writing' \cup persisting') = {}
    BY <1>1, <1>5, <1>6 DEF PlacesInv, GoneForGood
  <2>2. erased' \cap InHand' = {} /\ erased' \cup removing' \subseteq removed'
    BY <1>1, <1>5, <1>6 DEF PlacesInv, GoneForGood
  <2>3. erased' \cap Range(todo')
          \subseteq postedBeforeRestored' \cup droppedWhileRestoring'
    <3>1. e \in Range(todo) => e \in droppedWhileRestoring'
      <4>1. restore = "done" => Range(todo) = {}
        BY EmptyContents DEF PlacesInv, RestoredOnce
      <4> QED
        BY <1>1, <4>1
    <3> QED
      BY <1>1, <1>6, <3>1 DEF PlacesInv, GoneForGood
  <2> QED
    BY <2>1, <2>2, <2>3 DEF GoneForGood
<1>10. RestoredOnce' /\ FirstLife' /\ LastWord'
  BY <1>1, <1>4, <1>6 DEF PlacesInv, RestoredOnce, FirstLife, LastWord
<1>11. Claimed' /\ Kept'
  BY <1>1, <1>4, <1>5, <1>6 DEF PlacesInv, Claimed, Kept
<1> QED
  BY <1>2, <1>4, <1>7, <1>8, <1>9, <1>10, <1>11 DEF PlacesInv

LEMMA RequestPlaces ==
  ASSUME Typed, Typed', PlacesInv, Request
  PROVE  PlacesInv' /\ Follows(Pipeline, Pipeline')
<1>0. PICK e \in Events :
        RemoveRow(e) \/ StopDelivery(e) \/ Withdraw(e) \/ WithdrawRemoves(e)
  BY DEF Request
<1> USE DEF storeVars, postVars, inboxVars, markVars, usageVars, restoreVars, doneVars
<1>1. ASSUME UNCHANGED <<deferred, batch, queue>> PROVE Follows(Pipeline, Pipeline')
  <2>1. Pipeline' = Pipeline
    BY <1>1 DEF Pipeline
  <2> QED
    BY <2>1 DEF Follows
<1>2. CASE RemoveRow(e)
  <2>1. e \in 1..posted /\ e \notin writing /\ e \notin persisting
    BY <1>2 DEF RemoveRow, PlacesInv, Known, WrittenOnce
  <2> QED
    BY <1>1, <1>2, <2>1, RemovedInv DEF RemoveRow
<1>3. CASE WithdrawRemoves(e) /\ removing' = removing \cup {e} /\ rows' = rows \ {e}
                              /\ removed' = removed \cup {e}
  <2>1. e \in 1..posted /\ e \notin writing /\ e \notin persisting
    BY <1>3 DEF WithdrawRemoves, WriteEnded, PlacesInv, Known, WrittenOnce
  <2>2. withdrawing' \subseteq withdrawing
    BY <1>3 DEF WithdrawRemoves
  <2> QED
    BY <1>1, <1>3, <2>1, <2>2, RemovedInv DEF WithdrawRemoves
<1>4. CASE \/ Withdraw(e)
           \/ WithdrawRemoves(e) /\ UNCHANGED <<rows, removed, removing>>
  <2>1. /\ UNCHANGED <<rows, posted, writing, unread, persisting, todo, stage, restore,
                       postedBeforeRestored, droppedWhileRestoring, removing, restarts,
                       concluded, refused, removed, erased>>
        /\ UNCHANGED <<batch, deferred, queue, pc, defer>>
    BY <1>4 DEF Withdraw, WithdrawRemoves
  <2>2. withdrawing' \subseteq withdrawing \cup InHand /\ Distill \notin withdrawing'
    <3>1. CASE Withdraw(e)
      <4>1. e \in InHand
        <5>1. InPipeline(e)
          BY <3>1 DEF Withdraw, InPipeline
        <5> QED
          BY <5>1, PipelineContents
      <4> QED
        BY <3>1, <4>1 DEF Withdraw, Typed, TypeOK, Events, Distill
    <3>2. CASE WithdrawRemoves(e)
      BY <3>2 DEF WithdrawRemoves, Typed, TypeOK, Events, Distill
    <3> QED
      BY <1>4, <3>1, <3>2
  <2>3. Pipeline' = Pipeline /\ (Closed' <=> Closed)
    BY <2>1 DEF Pipeline, Closed
  <2>4. Once(Pipeline)' /\ InHand' = InHand /\ SlowWrite'
    BY <2>1, <2>3, SlowWriteCalm DEF InHand, PlacesInv
  <2>5. Known' /\ WrittenOnce'
    BY <2>1, <2>2, <2>4 DEF PlacesInv, Known, WrittenOnce
  <2>6. GoneForGood' /\ RestoredOnce' /\ FirstLife'
    BY <2>1, <2>3, <2>4 DEF PlacesInv, GoneForGood, RestoredOnce, FirstLife
  <2>7. Claimed' /\ Kept' /\ LastWord'
    BY <2>1, <2>3, <2>4 DEF PlacesInv, Claimed, Kept, LastWord
  <2> QED
    BY <1>1, <2>1, <2>4, <2>5, <2>6, <2>7 DEF PlacesInv
<1>5. WithdrawRemoves(e) =>
        \/ /\ rows' = rows \ {e} /\ removed' = removed \cup {e}
           /\ removing' = removing \cup {e}
        \/ UNCHANGED <<rows, removed, removing>>
  BY DEF WithdrawRemoves
<1> QED
  BY <1>0, <1>2, <1>3, <1>4, <1>5, StopDeliveryPlaces

(* Stopping the process: the distillation is queued, or the inbox closed.    *)
LEMMA StopPlaces ==
  ASSUME Typed, Typed', PlacesInv, Stop \/ Close
  PROVE  PlacesInv' /\ Follows(Pipeline, Pipeline')
<1> USE DEF storeVars, postVars, markVars, usageVars, restoreVars, removeVars, doneVars
<1>1. /\ UNCHANGED <<rows, posted, writing, unread, persisting, todo, restore,
                     postedBeforeRestored, droppedWhileRestoring, removing, withdrawing,
                     restarts, concluded, refused, removed, erased, deferred, defer>>
      /\ stage' # "up" /\ (Closed => Closed')
  BY DEF Stop, Close, Closed
<1>2. PICK ds \in SUBSET {Distill} :
        /\ InHand' = InHand \cup ds /\ Once(Pipeline)' /\ SlowWrite'
        /\ Follows(Pipeline, Pipeline')
  <2>1. CASE Stop /\ Push(Distill, HumanPriority)
    <3>1. Distill \in Ids /\ Distill \notin InHand
      BY <2>1 DEF Ids, Stop, PlacesInv, LastWord
    <3>2. /\ Once(Pipeline)' /\ InHand' = InHand \cup {Distill}
          /\ Follows(Pipeline, Pipeline')
      BY <1>1, <2>1, <3>1, PushPlaces DEF PlacesInv
    <3>3. UNCHANGED <<pc, batch, defer>> \/ pc \notin {"settle", "forget"}
      BY <1>1, <2>1 DEF Push
    <3>4. SlowWrite'
      BY <1>1, <3>3, SlowWriteCalm DEF PlacesInv
    <3>5. {Distill} \in SUBSET {Distill}
      OBVIOUS
    <3> QED
      BY <3>2, <3>4, <3>5
  <2>2. CASE pc' = Woken /\ UNCHANGED <<queue, batch>>
    <3>1. Pipeline' = Pipeline
      BY <1>1, <2>2 DEF Pipeline
    <3>2. UNCHANGED <<pc, batch, defer>> \/ pc \notin {"settle", "forget"}
      BY <1>1, <2>2 DEF Woken
    <3>3. SlowWrite'
      BY <1>1, <3>2, SlowWriteCalm DEF PlacesInv
    <3>4. InHand' = InHand \cup {} /\ {} \in SUBSET {Distill}
      BY <3>1 DEF InHand
    <3>5. Once(Pipeline)' /\ Follows(Pipeline, Pipeline')
      BY <3>1 DEF PlacesInv, Follows
    <3> QED
      BY <3>3, <3>4, <3>5
  <2> QED
    BY <2>1, <2>2 DEF Stop, Close
<1>3. /\ Distill \notin persisting /\ Distill \notin erased /\ Distill \notin rows
      /\ Distill \notin Range(todo)
  <2>1. Range(todo) \subseteq Events
    BY Contents DEF Typed, TypeOK
  <2> QED
    BY <2>1 DEF Typed, TypeOK, Events, Distill
<1>4. Known' /\ WrittenOnce'
  <2>1. Known'
    BY <1>1, <1>2 DEF PlacesInv, Known
  <2>2. persisting' \cap (InHand' \cup concluded' \cup withdrawing') = {}
    <3>1. persisting \cap (InHand \cup concluded \cup withdrawing) = {}
      BY DEF PlacesInv, WrittenOnce
    <3> QED
      BY <1>1, <1>2, <1>3, <3>1
  <2>3. WrittenOnce'
    BY <1>1, <2>2 DEF PlacesInv, WrittenOnce
  <2> QED
    BY <2>1, <2>3
<1>5. GoneForGood'
  BY <1>1, <1>2, <1>3 DEF PlacesInv, GoneForGood
<1>6. RestoredOnce' /\ FirstLife' /\ LastWord'
  BY <1>1, <1>2, <1>3 DEF PlacesInv, RestoredOnce, FirstLife, LastWord
<1>7. Claimed' /\ Kept'
  BY <1>1, <1>2 DEF PlacesInv, Claimed, Kept
<1> QED
  BY <1>2, <1>4, <1>5, <1>6, <1>7 DEF PlacesInv

(* The next process starts with the rows and nothing else.                   *)
LEMMA RestartPlaces ==
  ASSUME Typed, Typed', PlacesInv, Restart
  PROVE  PlacesInv' /\ Follows(Pipeline, Pipeline')
<1> USE DEF storeVars, postVars, doneVars
<1>1. /\ UNCHANGED <<rows, posted, concluded, refused, removed>>
      /\ erased' = erased \cup removing /\ writing' = {} /\ unread' = {}
      /\ persisting' = {} /\ postedBeforeRestored' = {} /\ droppedWhileRestoring' = {}
      /\ removing' = {} /\ withdrawing' = {} /\ todo' = <<>> /\ restore' = "claim"
      /\ queue' = <<>> /\ deferred' = <<>> /\ batch' = <<>> /\ restarts' # 0
  BY DEF Restart, Typed, TypeOK
<1>2. Range(<<>>) = {} /\ Once(<<>>) /\ Once(todo') /\ Range(todo') = {}
  BY <1>1, EmptyContents
<1>3. Once(Pipeline)' /\ InHand' = {}
  BY <1>1, <1>2, PlacesNext
<1>4. Known' /\ WrittenOnce'
  BY <1>1, <1>2, <1>3 DEF PlacesInv, Known, WrittenOnce
<1>5. GoneForGood' /\ SlowWrite'
  BY <1>1, <1>2, <1>3 DEF PlacesInv, GoneForGood, SlowWrite
<1>6. RestoredOnce' /\ FirstLife' /\ LastWord'
  BY <1>1, <1>2, <1>3 DEF RestoredOnce, FirstLife, LastWord
<1>7. Claimed' /\ Kept'
  BY <1>1, <1>2, <1>3 DEF Claimed, Kept
<1>8. Follows(Pipeline, Pipeline')
  BY <1>3 DEF Follows, InHand
<1> QED
  BY <1>3, <1>4, <1>5, <1>6, <1>7, <1>8 DEF PlacesInv

-----------------------------------------------------------------------------
Inductive == Typed /\ DoneInv /\ PlacesInv

LEMMA PlacesStep ==
  ASSUME Inductive, [Next]_vars
  PROVE  Inductive' /\ Follows(Pipeline, Pipeline')
<1>1. Typed /\ DoneInv /\ PlacesInv /\ Typed' /\ DoneInv'
  BY TypedStep, DoneStep DEF Inductive
<1>2. PlacesInv' /\ Follows(Pipeline, Pipeline')
  BY <1>1, AdmitPlaces, StorePlaces, PumpPlaces, LimitPlaces, RestorePlaces,
     RequestPlaces, StopPlaces, RestartPlaces DEF Next
<1> QED
  BY <1>1, <1>2 DEF Inductive

(* What every state satisfies.                                               *)
THEOREM PlacesInductive == Spec => []Inductive
<1>1. Init => Inductive
  BY TypedInit, DoneInit, PlacesInit DEF Inductive
<1>2. Inductive /\ [Next]_vars => Inductive'
  BY PlacesStep
<1> QED
  BY <1>1, <1>2, PTL DEF Spec

(* The distillation's own id apart, no event is ever in two places: whatever *)
(* the order of post, postPersisted, the restore pass, a release and stop(), *)
(* one process never reads the same event twice at once.                     *)
THEOREM ReadOnce == Spec => []NoDoubleDelivery
<1>1. Inductive => NoDoubleDelivery
  BY DEF Inductive, PlacesInv, NoDoubleDelivery, Once
<1> QED
  BY <1>1, PlacesInductive, PTL

(* An event whose removal was carried out before a turn took it is in no     *)
(* queue and has no row: not even the put it raced with can bring it back.   *)
THEOREM ErasedIsGone == Spec => []ErasedNeverRead
<1>1. Inductive => ErasedNeverRead
  BY PipelineContents DEF Inductive, PlacesInv, GoneForGood, ErasedNeverRead
<1> QED
  BY <1>1, PlacesInductive, PTL

(* While the inbox is open, an unfinished row is in the pipeline or ahead of *)
(* the restore pass: nothing waits for the next restart of a healthy process. *)
THEOREM NothingStranded == Spec => []NotStranded
<1>1. Inductive => NotStranded
  <2> SUFFICES ASSUME Inductive, ~Closed, NEW e \in rows, e \notin concluded \cup refused
               PROVE  InPipeline(e) \/ restore = "claim" \/ OccursIn(todo, e)
    BY DEF NotStranded
  <2>1. restore # "claim" => e \in InHand \/ e \in Range(todo)
    BY DEF Inductive, PlacesInv, Kept
  <2>2. OccursIn(todo, e) <=> e \in Range(todo)
    BY Contents DEF Inductive, Typed, TypeOK
  <2>3. InPipeline(e) <=> e \in InHand
    BY PipelineContents DEF Inductive
  <2> QED
    BY <2>1, <2>2, <2>3
<1> QED
  BY <1>1, PlacesInductive, PTL

(* The step that writes a row writes the row of an event on its way: none    *)
(* whose removal was carried out, and none that is finished unless its batch *)
(* still waits for that very write.                                          *)
LEMMA RowsAppear ==
  ASSUME Inductive, [Next]_vars, NEW e \in rows', e \notin rows
  PROVE  e \in writing \cup persisting
<1> USE DEF storeVars, postVars, inboxVars, markVars, usageVars, restoreVars, removeVars,
        doneVars
<1>1. CASE Admit
  BY <1>1 DEF Admit, PostFolded, PostRowFolded, Post, PostPersisted, PostClosed, Fresh
<1>2. CASE StoreStep
  BY <1>2 DEF StoreStep, WriteEnds, Persisted, PersistRefused
<1>3. CASE Pump
  BY <1>3 DEF Pump, PumpNext, PumpRelease, PumpShortCircuit, PumpCheck, PumpRecovered,
     PumpStartTurn, TurnAnswered, TurnHitsLimit, TurnFails, TurnEnds, SettleHeld,
     SettleForget, Forget
<1>4. CASE RateLimited \/ LimitAges
  BY <1>4 DEF RateLimited, LimitAges
<1>5. CASE Restoring \/ RestoreBody
  BY <1>5 DEF Restoring, ClaimPending, ClaimAbandoned, RegisterRepresentatives,
     RestoreLoop, RestoreBody, RestoreRecord, RestoreEnds
<1>6. CASE Request
  BY <1>6 DEF Request, RemoveRow, StopDelivery, Withdraw, WithdrawRemoves
<1>7. CASE Stop \/ Close \/ Restart \/ UNCHANGED vars
  BY <1>7 DEF Stop, Close, Restart, vars
<1> QED
  BY <1>1, <1>2, <1>3, <1>4, <1>5, <1>6, <1>7 DEF Next

(* Once #forget or a removal has deleted a row, no slower put of the same    *)
(* event writes it again, so nothing finished waits for the next start.      *)
THEOREM DeletedRowsStayDeleted == Spec => NoRowComesBack
<1>1. Inductive /\ [Next]_vars =>
        [\A e \in rows' \ rows : /\ e \notin erased
                                 /\ e \in concluded => OccursIn(batch, e)]_vars
  <2> SUFFICES ASSUME Inductive, [Next]_vars, NEW e \in rows', e \notin rows
               PROVE  e \notin erased /\ (e \in concluded => OccursIn(batch, e))
    OBVIOUS
  <2>1. e \in writing \cup persisting
    BY RowsAppear
  <2>2. e \notin erased
    BY <2>1 DEF Inductive, PlacesInv, GoneForGood
  <2>3. e \in concluded => e \in Range(batch)
    BY <2>1 DEF Inductive, PlacesInv, WrittenOnce, SlowWrite
  <2>4. OccursIn(batch, e) <=> e \in Range(batch)
    BY Contents DEF Inductive, Typed, TypeOK
  <2> QED
    BY <2>2, <2>3, <2>4
<1> QED
  BY <1>1, PlacesStep, PlacesInductive, PTL DEF NoRowComesBack, Spec

(* Events keep their order from posting to reading: holding a batch and      *)
(* releasing it, merging, removing others or a human cutting in never makes  *)
(* one overtake another that was ahead of it.                                *)
THEOREM OrderIsKept == Spec => NoOvertaking
<1>1. Inductive /\ [Next]_vars =>
        [ \A i, j \in DOMAIN Pipeline :
            i < j /\ OccursIn(Pipeline', Pipeline[i]) /\ OccursIn(Pipeline', Pipeline[j])
              => Before(Pipeline', Pipeline[i], Pipeline[j]) ]_vars
  <2> SUFFICES ASSUME Inductive, [Next]_vars, NEW i \in DOMAIN Pipeline,
                      NEW j \in DOMAIN Pipeline, i < j,
                      OccursIn(Pipeline', Pipeline[i]), OccursIn(Pipeline', Pipeline[j])
               PROVE  Before(Pipeline', Pipeline[i], Pipeline[j])
    OBVIOUS
  <2>1. Follows(Pipeline, Pipeline') /\ Inductive'
    BY PlacesStep
  <2>2. Before(Pipeline, Pipeline[i], Pipeline[j])
    BY DEF Before
  <2>3. Pipeline' \in Seq(Ids)
    <3>1. deferred' \in Seq(Ids) /\ batch' \in Seq(Ids) /\ queue' \in Seq(Ids)
      BY <2>1 DEF Inductive, Typed, TypeOK
    <3> QED
      BY <3>1, ThreeContents DEF Pipeline
  <2>4. Pipeline[i] \in Range(Pipeline') /\ Pipeline[j] \in Range(Pipeline')
    BY <2>3, Contents
  <2> QED
    BY <2>1, <2>2, <2>4 DEF Follows
<1> QED
  BY <1>1, PlacesStep, PlacesInductive, PTL DEF NoOvertaking, Spec

(* How an event comes into hand: it is new, its write has ended, or its row  *)
(* was claimed at start and nobody has dropped it since.                     *)
LEMMA ComesIntoHand ==
  ASSUME Inductive, [Next]_vars, NEW e \in InHand', e \notin InHand
  PROVE  \/ e = Distill \/ e = posted + 1 \/ e \in persisting
         \/ /\ restore = "loop" /\ ~Closed /\ e \in Range(todo)
            /\ e \notin postedBeforeRestored /\ e \notin droppedWhileRestoring
<1>0. Typed /\ Typed' /\ Once(Pipeline)
  BY PlacesStep DEF Inductive, PlacesInv
<1>1. ASSUME UNCHANGED <<deferred, batch, queue>> PROVE FALSE
  BY <1>1 DEF InHand, Pipeline
<1>2. ASSUME NEW x \in Ids, NEW jumps, Push(x, jumps), UNCHANGED deferred PROVE e = x
  <2>1. CASE x \notin InHand
    BY <1>0, <1>2, <2>1, PushPlaces
  <2>2. CASE x \in InHand
    <3>1. queue \in Seq(Ids) /\ (pc = "waiting" => batch = <<>>)
      BY <1>0 DEF Typed, TypeOK
    <3>2. CASE pc = "waiting"
      <4>1. Range(batch') = {x} /\ queue' = queue
        BY <1>2, <3>2, SingleContents DEF Push
      <4> QED
        BY <1>0, <1>2, <2>2, <4>1, PipelineContents, PlacesNext
    <3>3. CASE pc # "waiting"
      <4>1. PICK at \in 0..Len(queue) : queue' = InsertAt(queue, at + 1, x) /\ batch' = batch
        BY <1>2, <3>3 DEF Push
      <4>2. Range(InsertAt(queue, at + 1, x)) = Range(queue) \cup {x}
        BY <3>1, InsertContents
      <4> QED
        BY <1>0, <1>2, <2>2, <4>1, <4>2, PipelineContents, PlacesNext
    <3> QED
      BY <3>2, <3>3
  <2> QED
    BY <2>1, <2>2
<1> USE DEF storeVars, postVars, inboxVars, markVars, usageVars, restoreVars, removeVars,
        doneVars
<1>3. CASE Admit
  <2>1. PICK x \in Events, k \in Kinds :
          /\ x = posted + 1 /\ UNCHANGED deferred
          /\ Enqueue(x, k) \/ UNCHANGED <<batch, queue>>
    BY <1>3 DEF Admit, PostFolded, PostRowFolded, Post, PostPersisted, PostClosed, Fresh,
       Arrive
  <2> QED
    BY <1>1, <1>2, <2>1 DEF Enqueue, Ids
<1>4. CASE StoreStep
  <2>1. PICK x \in Events :
          /\ UNCHANGED deferred
          /\ \/ x \in persisting /\ Enqueue(x, kind[x])
             \/ UNCHANGED <<batch, queue>>
    BY <1>4 DEF StoreStep, WriteEnds, Persisted, PersistRefused
  <2> QED
    BY <1>1, <1>2, <2>1 DEF Enqueue, Ids
<1>5. CASE Pump
  <2>1. CASE PumpNext \/ PumpRelease \/ PumpStartTurn \/ SettleHeld
    BY <1>0, <2>1, MovePlaces
  <2>2. CASE \/ PumpShortCircuit \/ PumpCheck \/ PumpRecovered \/ TurnAnswered
             \/ TurnHitsLimit \/ TurnFails
    BY <1>1, <2>2 DEF PumpShortCircuit, PumpCheck, PumpRecovered, TurnAnswered,
       TurnHitsLimit, TurnFails, TurnEnds
  <2>3. CASE SettleForget \/ Forget
    <3>1. CASE Settled
      <4>1. pc \in {"settle", "forget"} /\ batch' = Tail(batch) /\ UNCHANGED <<deferred, queue>>
        BY <2>3, <3>1 DEF SettleForget, Forget, Settled
      <4> QED
        BY <1>0, <4>1, SettledPlaces
    <3>2. CASE ~Settled
      BY <1>1, <2>3, <3>2 DEF SettleForget, Forget
    <3> QED
      BY <3>1, <3>2
  <2> QED
    BY <1>5, <2>1, <2>2, <2>3 DEF Pump
<1>6. CASE RateLimited \/ LimitAges \/ UNCHANGED vars
  BY <1>1, <1>6 DEF RateLimited, LimitAges, vars
<1>7. CASE Restoring \/ RestoreEnds
  BY <1>1, <1>7 DEF Restoring, ClaimPending, ClaimAbandoned, RegisterRepresentatives,
     RestoreLoop, RestoreEnds
<1>8. CASE RestoreRecord
  <2>1. Head(todo) \in Ids /\ Head(todo) \in Range(todo)
    BY <1>0, <1>8, TailContents DEF RestoreRecord, Typed, TypeOK, Ids
  <2>2. restore = "loop" /\ ~Closed /\ UNCHANGED deferred
    BY <1>8 DEF RestoreRecord
  <2>3. \/ UNCHANGED <<batch, queue>>
        \/ /\ Enqueue(Head(todo), kind[Head(todo)])
           /\ Head(todo) \notin postedBeforeRestored
           /\ Head(todo) \notin droppedWhileRestoring
    BY <1>8 DEF RestoreRecord, Dropped
  <2> QED
    BY <1>1, <1>2, <2>1, <2>2, <2>3 DEF Enqueue
<1>9. CASE Request
  <2>1. PICK x \in Events : StopDelivery(x) \/ UNCHANGED <<deferred, batch, queue>>
    BY <1>9 DEF Request, RemoveRow, Withdraw, WithdrawRemoves
  <2> QED
    BY <1>0, <1>1, <2>1, DropPlaces
<1>10. CASE Stop \/ Close
  <2>1. UNCHANGED deferred /\ (Push(Distill, HumanPriority) \/ UNCHANGED <<batch, queue>>)
    BY <1>10 DEF Stop, Close
  <2> QED
    BY <1>1, <1>2, <2>1 DEF Ids
<1>11. CASE Restart
  <2>1. deferred' = <<>> /\ batch' = <<>> /\ queue' = <<>>
    BY <1>11 DEF Restart
  <2> QED
    BY <1>0, <2>1, EmptyContents, PlacesNext
<1> QED
  BY <1>3, <1>4, <1>5, <1>6, <1>7, <1>8, <1>9, <1>10, <1>11 DEF Next, RestoreBody

(* An event whose turn ended is queued again only after a restart, and only  *)
(* because its row had not been removed.                                     *)
THEOREM FinishedNotQueuedAgain == Spec => NoRedeliveryOfFinished
<1>1. Inductive /\ [Next]_vars =>
        [ \A e \in concluded : InPipeline(e)' /\ ~InPipeline(e) => restarts > 0 /\ e \in rows \cup removed ]_vars
  <2> SUFFICES ASSUME Inductive, [Next]_vars, NEW e \in concluded, InPipeline(e)',
                      ~InPipeline(e)
               PROVE  restarts > 0 /\ e \in rows \cup removed
    OBVIOUS
  <2>1. e \in InHand' /\ e \notin InHand
    BY PlacesStep, PipelineContents, PlacesNext DEF Inductive
  <2>2. e # Distill /\ e # posted + 1 /\ e \notin persisting
    BY DEF Inductive, PlacesInv, Known, WrittenOnce, Typed, TypeOK, Events, Distill
  <2>3. /\ restore = "loop" /\ ~Closed /\ e \in Range(todo)
        /\ e \notin postedBeforeRestored
    BY <2>1, <2>2, ComesIntoHand
  <2>4. restarts # 0
    BY <2>3 DEF Inductive, PlacesInv, FirstLife
  <2>5. e \in rows \cup removed
    BY <2>3 DEF Inductive, PlacesInv, Claimed
  <2> QED
    BY <2>4, <2>5 DEF Inductive, Typed, TypeOK
<1> QED
  BY <1>1, PlacesStep, PlacesInductive, PTL DEF NoRedeliveryOfFinished, Spec

-----------------------------------------------------------------------------
(* Ticks while the limit is closed: the first is held, the others fold.      *)

OneTickAmongHeld ==
  \A e, f \in Range(deferred) : kind[e] = "tick" /\ kind[f] = "tick" => e = f

LEMMA TickStep ==
  ASSUME Inductive, OneTickAmongHeld, [Next]_vars
  PROVE  OneTickAmongHeld'
<1>0. Typed /\ Typed' /\ Once(Pipeline) /\ Range(deferred) \subseteq InHand
  BY PlacesStep, PipelineContents DEF Inductive, PlacesInv
<1> USE DEF OneTickAmongHeld
<1> USE DEF storeVars, postVars, inboxVars, markVars, usageVars, restoreVars, removeVars,
        doneVars
<1>1. ASSUME Range(deferred') \subseteq Range(deferred), UNCHANGED kind
      PROVE  OneTickAmongHeld'
  BY <1>1
<1>2. CASE Admit
  <2>1. PICK x \in Events, k \in Kinds :
          x = posted + 1 /\ UNCHANGED deferred /\ kind' = [kind EXCEPT ![x] = k]
    BY <1>2 DEF Admit, PostFolded, PostRowFolded, Post, PostPersisted, PostClosed, Fresh,
       Arrive
  <2>2. x \notin InHand
    BY <2>1 DEF Inductive, PlacesInv, Known, Typed, TypeOK, Events, Distill
  <2>3. \A e \in Range(deferred) : kind'[e] = kind[e]
    BY <1>0, <2>1, <2>2, PipelineContents DEF Typed, TypeOK
  <2> QED
    BY <2>1, <2>3
<1>3. CASE SettleHeld
  <2> DEFINE h == Head(batch)
  <2>1. /\ deferred \in Seq(Ids) /\ batch \in Seq(Ids) /\ batch # <<>>
        /\ deferred' = Append(deferred, h) /\ UNCHANGED kind
    BY <1>0, <1>3 DEF SettleHeld, Typed, TypeOK
  <2>2. Range(deferred') = Range(deferred) \cup {h}
    BY <2>1, TailContents, AppendContents
  <2>3. kind[h] = "tick" => \A e \in Range(deferred) : kind[e] # "tick"
    BY <1>3 DEF SettleHeld, FoldsIntoHeldTick, Range
  <2> HIDE DEF h
  <2> QED
    BY <2>1, <2>2, <2>3
<1>4. CASE Pump
  <2>1. CASE PumpRelease
    <3>1. Range(deferred') = {} /\ UNCHANGED kind
      BY <2>1, EmptyContents DEF PumpRelease
    <3> QED
      BY <1>1, <3>1
  <2>2. CASE ~PumpRelease /\ ~SettleHeld
    <3>1. UNCHANGED <<deferred, kind>>
      BY <1>4, <2>2 DEF Pump, PumpNext, PumpShortCircuit, PumpCheck, PumpRecovered,
         PumpStartTurn, TurnAnswered, TurnHitsLimit, TurnFails, TurnEnds, SettleForget,
         Forget
    <3> QED
      BY <1>1, <3>1
  <2> QED
    BY <1>3, <2>1, <2>2
<1>5. CASE Request
  <2>1. PICK x \in Events : StopDelivery(x) \/ UNCHANGED deferred
    BY <1>5 DEF Request, RemoveRow, Withdraw, WithdrawRemoves
  <2>2. UNCHANGED kind
    BY <1>5 DEF Request, RemoveRow, StopDelivery, Withdraw, WithdrawRemoves
  <2>3. CASE StopDelivery(x)
    <3>1. deferred \in Seq(Ids) /\ Once(deferred)
      BY <1>0, PipelineContents DEF Typed, TypeOK
    <3>2. deferred' = Without(deferred, x)
      BY <2>3 DEF StopDelivery
    <3>3. Range(deferred') = Range(deferred) \ {x}
      BY <3>1, <3>2, WithoutContents
    <3> QED
      BY <1>1, <2>2, <3>3
  <2> QED
    BY <1>1, <2>1, <2>2, <2>3
<1>6. CASE Restart
  BY <1>1, <1>6, EmptyContents DEF Restart
<1>7. CASE \/ StoreStep \/ RateLimited \/ LimitAges \/ Restoring \/ RestoreBody \/ Stop
           \/ Close \/ UNCHANGED vars
  <2>1. UNCHANGED <<deferred, kind>>
    BY <1>7 DEF StoreStep, WriteEnds, Persisted, PersistRefused, RateLimited, LimitAges,
       Restoring, ClaimPending, ClaimAbandoned, RegisterRepresentatives, RestoreLoop,
       RestoreBody, RestoreRecord, RestoreEnds, Stop, Close, vars
  <2> QED
    BY <1>1, <2>1
<1> QED
  BY <1>2, <1>4, <1>5, <1>6, <1>7 DEF Next

(* While the limit is closed and ticks keep coming, at most one is held:     *)
(* the kinds of events in hand never change, and a tick is held only when no *)
(* other one is.                                                             *)
THEOREM OneTickHeld == Spec => []OneHeldTick
<1>1. Init => OneTickAmongHeld
  BY EmptyContents DEF Init, OneTickAmongHeld
<1>2. OneTickAmongHeld /\ Inductive => OneHeldTick
  <2> SUFFICES ASSUME OneTickAmongHeld, Inductive, NEW i \in DOMAIN deferred,
                      NEW j \in DOMAIN deferred, kind[deferred[i]] = "tick",
                      kind[deferred[j]] = "tick"
               PROVE  i = j
    BY DEF OneHeldTick
  <2>1. deferred[i] \in Range(deferred) /\ deferred[j] \in Range(deferred)
    BY DEF Range
  <2>2. Once(deferred)
    BY PipelineContents DEF Inductive, PlacesInv
  <2> QED
    BY <2>1, <2>2 DEF OneTickAmongHeld, Once
<1>3. OneTickAmongHeld /\ Inductive /\ [Next]_vars => OneTickAmongHeld'
  BY TickStep
<1> QED
  BY <1>1, <1>2, <1>3, PlacesInductive, PTL DEF Spec

-----------------------------------------------------------------------------
(* The delivery implements InboxContract.  The contract sees an event by its *)
(* number, three of the sets and whether the process still knows of it; the  *)
(* rows claimed at start add nothing to that.                                *)

InMemory == InHand \cup writing \cup persisting \cup removing \cup withdrawing

Seen(e, last, done, gone, stored, memory) ==
  IF e > last THEN "unposted"
  ELSE IF e \in done THEN "finished"
  ELSE IF e \in gone THEN "removed"
  ELSE IF e \in stored THEN "stored"
  ELSE IF e \in memory THEN "memory" ELSE "gone"

LEMMA StatusSeen ==
  ASSUME Inductive
  PROVE  \A e \in Events : StatusOf(e) = Seen(e, posted, concluded, erased, rows, InMemory)
<1> SUFFICES ASSUME NEW e \in Events
             PROVE  StatusOf(e) = Seen(e, posted, concluded, erased, rows, InMemory)
  OBVIOUS
<1>1. InPipeline(e) <=> e \in InHand
  BY PipelineContents DEF Inductive
<1>2. OccursIn(todo, e) <=> e \in Range(todo)
  BY Contents DEF Inductive, Typed, TypeOK
<1>3. e \in Range(todo) => e \in rows \cup concluded \cup erased \cup removing \cup InHand
  BY DEF Inductive, PlacesInv, Claimed
<1> QED
  BY <1>1, <1>2, <1>3 DEF StatusOf, Seen, InMemory

LEMMA StatusSeenNext ==
  ASSUME Inductive'
  PROVE  \A e \in Events :
           StatusOf(e)' = Seen(e, posted', concluded', erased', rows', InMemory')
<1> SUFFICES ASSUME NEW e \in Events
             PROVE  StatusOf(e)' = Seen(e, posted', concluded', erased', rows', InMemory')
  OBVIOUS
<1>1. InPipeline(e)' <=> e \in InHand'
  BY PlacesNext DEF Inductive
<1>2. OccursIn(todo', e) <=> e \in Range(todo')
  BY Contents DEF Inductive, Typed, TypeOK
<1>3. e \in Range(todo')
        => e \in rows' \cup concluded' \cup erased' \cup removing' \cup InHand'
  BY DEF Inductive, PlacesInv, Claimed
<1> QED
  BY <1>1, <1>2, <1>3 DEF StatusOf, Seen, InMemory

status == [e \in Events |-> StatusOf(e)]

\* the moves the contract allows one event
Allowed(e) ==
  \/ StatusOf(e)' = StatusOf(e)
  \/ StatusOf(e) = "unposted" /\ StatusOf(e)' \in {"memory", "gone"}
  \/ StatusOf(e) = "memory" /\ StatusOf(e)' \in {"stored", "gone", "removed"}
  \/ StatusOf(e) = "stored" /\ StatusOf(e)' = "memory"

LEMMA OneMoves ==
  ASSUME NEW e \in Events, Allowed(e),
         \A x \in Events \ {e} : StatusOf(x)' = StatusOf(x)
  PROVE  [Contract!Next]_status
<1> DEFINE t == StatusOf(e)'
<1>1. /\ status' = [status EXCEPT ![e] = t] /\ status[e] = StatusOf(e)
      /\ (t = StatusOf(e) => status' = status)
  BY DEF status
<1> HIDE DEF t
<1>2. CASE t = StatusOf(e)
  BY <1>1, <1>2
<1>3. CASE StatusOf(e) = "unposted" /\ t = "memory"
  BY <1>1, <1>3 DEF Contract!Next, Contract!Change, Contract!Accept, Contract!Move, status
<1>4. CASE StatusOf(e) = "unposted" /\ t = "gone"
  BY <1>1, <1>4 DEF Contract!Next, Contract!Change, Contract!Fold, Contract!Move, status
<1>5. CASE StatusOf(e) = "memory" /\ t = "stored"
  BY <1>1, <1>5 DEF Contract!Next, Contract!Change, Contract!Store, Contract!Move, status
<1>6. CASE StatusOf(e) = "memory" /\ t = "gone"
  BY <1>1, <1>6 DEF Contract!Next, Contract!Change, Contract!Refuse, Contract!Move, status
<1>7. CASE StatusOf(e) = "memory" /\ t = "removed"
  BY <1>1, <1>7 DEF Contract!Next, Contract!Change, Contract!Remove, Contract!Move, status
<1>8. CASE StatusOf(e) = "stored" /\ t = "memory"
  BY <1>1, <1>8 DEF Contract!Next, Contract!Change, Contract!Unstore, Contract!Move, status
<1> QED
  BY <1>2, <1>3, <1>4, <1>5, <1>6, <1>7, <1>8 DEF Allowed, t

LEMMA NobodyMoves ==
  ASSUME \A x \in Events : StatusOf(x)' = StatusOf(x)
  PROVE  [Contract!Next]_status
  BY DEF status

LEMMA Numbers ==
  ASSUME Typed
  PROVE  posted \in Nat /\ Events \subseteq Nat /\ \A x \in Events : x \in Nat
<1>1. MaxEvents \in Nat
  BY InboxAssumption
<1>2. \A x \in 1..MaxEvents : x \in Nat
  OBVIOUS
<1> QED
  BY <1>1, <1>2 DEF Typed, TypeOK, Events

LEMMA AdmitContract ==
  ASSUME Inductive, Inductive', Admit
  PROVE  [Contract!Next]_status
<1> USE DEF storeVars, inboxVars, markVars, removeVars, doneVars
<1>0. /\ Typed /\ Typed' /\ Once(Pipeline)
      /\ posted \in Nat /\ \A x \in Events : x \in Nat
  BY Numbers DEF Inductive, PlacesInv
<1>1. PICK e \in Events, k \in Kinds :
        /\ e = posted + 1 /\ posted' = e /\ UNCHANGED deferred
        /\ Enqueue(e, k) \/ UNCHANGED <<batch, queue>>
        /\ writing' \in {writing, writing \cup {e}}
        /\ persisting' \in {persisting, persisting \cup {e}}
        /\ UNCHANGED <<rows, concluded, erased, removing, withdrawing>>
  BY DEF Admit, PostFolded, PostRowFolded, Post, PostPersisted, PostClosed, Fresh, Remember,
     Arrive
<1>2. e \notin 1..posted /\ e # Distill /\ e > posted /\ ~(e > posted') /\ e \in Ids
      /\ \A x \in Events \ {e} : x > posted' <=> x > posted
  BY <1>0, <1>1 DEF Distill, Ids
<1>3. e \notin InHand /\ e \notin concluded /\ e \notin erased /\ e \notin rows
  BY <1>2 DEF Inductive, PlacesInv, Known, GoneForGood
<1>4. InHand' = InHand \/ InHand' = InHand \cup {e}
  <2>1. CASE Enqueue(e, k)
    BY <1>0, <1>1, <1>2, <1>3, <2>1, PushPlaces DEF Enqueue
  <2>2. CASE UNCHANGED <<batch, queue>>
    BY <1>1, <2>2 DEF InHand, Pipeline
  <2> QED
    BY <1>1, <2>1, <2>2
<1>5. \A x \in Events \ {e} : x \in InMemory' <=> x \in InMemory
  BY <1>1, <1>4 DEF InMemory
<1>6. \A x \in Events \ {e} : StatusOf(x)' = StatusOf(x)
  BY <1>1, <1>2, <1>5, StatusSeen, StatusSeenNext DEF Seen
<1>7. StatusOf(e) = "unposted" /\ StatusOf(e)' \in {"memory", "gone"}
  BY <1>1, <1>2, <1>3, StatusSeen, StatusSeenNext DEF Seen
<1> QED
  BY <1>6, <1>7, OneMoves DEF Allowed

LEMMA StoreContract ==
  ASSUME Inductive, Inductive', StoreStep
  PROVE  [Contract!Next]_status
<1> USE DEF postVars, inboxVars, markVars, removeVars, doneVars
<1>0. PICK e \in Events : WriteEnds(e) \/ Persisted(e) \/ PersistRefused(e)
  BY DEF StoreStep
<1>1. /\ e \in writing \cup persisting /\ (rows' = rows \/ rows' = rows \cup {e})
      /\ writing' = writing \/ writing' = writing \ {e}
      /\ persisting' = persisting \/ persisting' = persisting \ {e}
      /\ UNCHANGED <<posted, concluded, erased, removing, withdrawing, deferred>>
  BY <1>0 DEF WriteEnds, Persisted, PersistRefused
<1>2. e \in 1..posted /\ e \notin erased /\ e \notin rows /\ e \in Nat /\ posted \in Nat
  BY <1>1 DEF Inductive, PlacesInv, Known, GoneForGood, WrittenOnce, Typed, TypeOK, Events
<1>3. InHand' = InHand \/ InHand' = InHand \cup {e}
  <2>1. CASE Persisted(e) /\ ~Closed
    <3>1. Push(e, HumanPriority /\ kind[e] = "human") /\ e \in Ids
      BY <2>1 DEF Persisted, Enqueue, Ids
    <3>2. e \notin InHand
      BY <2>1 DEF Persisted, Inductive, PlacesInv, WrittenOnce
    <3> QED
      BY <1>1, <3>1, <3>2, PushPlaces DEF Inductive, PlacesInv
  <2>2. CASE ~(Persisted(e) /\ ~Closed)
    BY <1>0, <2>2 DEF WriteEnds, Persisted, PersistRefused, InHand, Pipeline
  <2> QED
    BY <2>1, <2>2
<1>4. \A x \in Events \ {e} : x \in InMemory' <=> x \in InMemory
  BY <1>1, <1>3 DEF InMemory
<1>5. \A x \in Events \ {e} : StatusOf(x)' = StatusOf(x)
  BY <1>1, <1>4, StatusSeen, StatusSeenNext DEF Seen
<1>6. StatusOf(e) \in {"finished", "memory"}
  BY <1>1, <1>2, StatusSeen DEF Seen, InMemory
<1>7. /\ StatusOf(e) = "finished" => StatusOf(e)' = "finished"
      /\ StatusOf(e) = "memory" => StatusOf(e)' \in {"stored", "memory", "gone"}
  BY <1>1, <1>2, StatusSeen, StatusSeenNext DEF Seen
<1>8. Allowed(e)
  BY <1>6, <1>7 DEF Allowed
<1> QED
  BY <1>5, <1>8, OneMoves

(* A turn has answered for some events of the batch, all at once.            *)
LEMMA FinishContract ==
  ASSUME Inductive, Inductive', NEW C \in SUBSET (Range(batch) \cap Events),
         concluded' = concluded \cup C, NEW h, h \in Events => h \in concluded',
         InHand' = InHand \/ InHand' = InHand \ {h},
         rows' = rows \/ rows' = rows \ {h},
         UNCHANGED <<posted, erased, writing, persisting, removing, withdrawing>>
  PROVE  [Contract!Next]_status
<1> DEFINE S == C \ concluded
<1>1. C \subseteq InHand /\ C \subseteq Events /\ posted \in Nat /\ Events \subseteq Nat
  BY PipelineContents, Numbers DEF Inductive
<1>2. ASSUME NEW x \in Events, x \in S
      PROVE  StatusOf(x) \in {"memory", "stored"} /\ StatusOf(x)' = "finished"
  <2>1. x \in InHand /\ x \in 1..posted /\ x \notin erased /\ x \notin concluded
    BY <1>1, <1>2 DEF Inductive, PlacesInv, Known, GoneForGood, Events, Distill
  <2>2. x \in concluded' /\ ~(x > posted)
    BY <1>1, <1>2, <2>1
  <2> QED
    BY <2>1, <2>2, StatusSeen, StatusSeenNext DEF Seen, InMemory
<1>3. ASSUME NEW x \in Events, x \notin S PROVE StatusOf(x)' = StatusOf(x)
  <2>1. CASE x = h
    <3>1. x \in concluded /\ x \in concluded'
      BY <1>3, <2>1
    <3> QED
      BY <3>1, StatusSeen, StatusSeenNext DEF Seen
  <2>2. CASE x # h
    <3>1. (x \in InMemory' <=> x \in InMemory) /\ (x \in concluded' <=> x \in concluded)
          /\ (x \in rows' <=> x \in rows)
      BY <1>3, <2>2 DEF InMemory
    <3> QED
      BY <3>1, StatusSeen, StatusSeenNext DEF Seen
  <2> QED
    BY <2>1, <2>2
<1>4. CASE S = {}
  BY <1>3, <1>4, NobodyMoves
<1>5. CASE S # {}
  <2>1. S \in SUBSET Events
    BY <1>1
  <2>2. Contract!Finish(S)
    <3>1. \A x \in S : status[x] \in {"memory", "stored"}
      BY <1>2, <2>1 DEF status
    <3>2. status' = [x \in Events |-> IF x \in S THEN "finished" ELSE status[x]]
      BY <1>2, <1>3 DEF status
    <3> QED
      BY <1>5, <3>1, <3>2 DEF Contract!Finish, status
  <2> HIDE DEF S
  <2>3. Contract!Change
    BY <2>1, <2>2 DEF Contract!Change
  <2> QED
    BY <2>3 DEF Contract!Next, status
<1> QED
  BY <1>4, <1>5

LEMMA PumpContract ==
  ASSUME Inductive, Inductive', Pump
  PROVE  [Contract!Next]_status
<1> USE DEF storeVars, postVars, markVars, usageVars, restoreVars, removeVars, doneVars
<1>0. Typed /\ Typed' /\ Once(Pipeline) /\ Distill \notin Events
  BY DEF Inductive, PlacesInv, Events, Distill
<1>1. UNCHANGED <<posted, erased, writing, persisting, removing, withdrawing>>
  BY DEF Pump, PumpNext, PumpRelease, PumpShortCircuit, PumpCheck, PumpRecovered,
     PumpStartTurn, TurnAnswered, TurnHitsLimit, TurnFails, TurnEnds, SettleHeld,
     SettleForget, Forget
<1>2. CASE \/ PumpNext \/ PumpRelease \/ PumpShortCircuit \/ PumpCheck \/ PumpStartTurn
           \/ SettleHeld
  <2>1. InHand' = InHand
    <3>1. CASE PumpShortCircuit \/ PumpCheck
      BY <3>1 DEF PumpShortCircuit, PumpCheck, InHand, Pipeline
    <3> QED
      BY <1>0, <1>2, <3>1, MovePlaces
  <2>2. UNCHANGED <<rows, concluded>>
    BY <1>2 DEF PumpNext, PumpRelease, PumpShortCircuit, PumpCheck, PumpStartTurn,
       SettleHeld
  <2>3. InMemory' = InMemory
    BY <1>1, <2>1 DEF InMemory
  <2>4. \A x \in Events : StatusOf(x)' = StatusOf(x)
    BY <1>1, <2>2, <2>3, StatusSeen, StatusSeenNext
  <2> QED
    BY <2>4, NobodyMoves
<1>3. CASE PumpRecovered \/ TurnAnswered \/ TurnHitsLimit \/ TurnFails
  <2>1. UNCHANGED <<rows, deferred, batch, queue>>
    BY <1>3 DEF PumpRecovered, TurnAnswered, TurnHitsLimit, TurnFails, TurnEnds
  <2>2. InHand' = InHand
    BY <2>1 DEF InHand, Pipeline
  <2>3. PICK C \in SUBSET (Range(batch) \cap Events) : concluded' = concluded \cup C
    <3>1. CASE PumpRecovered
      <4>1. Head(batch) \in Range(batch) /\ Head(batch) \in Ids
        BY <1>0, <3>1, TailContents DEF PumpRecovered, Typed, TypeOK
      <4>2. Head(batch) \in Events
        BY <1>0, <3>1, <4>1 DEF PumpRecovered, Typed, Ids
      <4>3. {Head(batch)} \in SUBSET (Range(batch) \cap Events)
        BY <4>1, <4>2
      <4> QED
        BY <3>1, <4>3 DEF PumpRecovered
    <3>2. ASSUME NEW b, TurnEnds(b)
          PROVE  \E C \in SUBSET (Range(batch) \cap Events) : concluded' = concluded \cup C
      <4>1. \/ concluded' = concluded \cup {}
            \/ concluded' = concluded \cup (Range(batch) \cap Events)
        BY <3>2 DEF TurnEnds
      <4> QED
        BY <4>1
    <3> QED
      BY <1>3, <3>1, <3>2 DEF TurnAnswered, TurnHitsLimit, TurnFails
  <2> QED
    BY <1>0, <1>1, <2>1, <2>2, <2>3, FinishContract
<1>4. CASE SettleForget \/ Forget
  <2> DEFINE h == Head(batch)
  <2>1. /\ pc \in {"settle", "forget"} /\ batch \in Seq(Ids) /\ batch # <<>>
        /\ UNCHANGED <<deferred, queue>>
    BY <1>0, <1>4 DEF SettleForget, Forget, Typed, TypeOK
  <2>2. h \in Range(batch) /\ h \in Ids
    BY <2>1, TailContents
  <2>3. InHand' = InHand \/ (InHand' = InHand \ {h} /\ Settled)
    <3>1. CASE Settled
      BY <1>0, <2>1, <3>1, SettledPlaces DEF Settled
    <3>2. CASE ~Settled
      BY <1>4, <2>1, <3>2 DEF SettleForget, Forget, InHand, Pipeline
    <3> QED
      BY <3>1, <3>2
  <2>4. CASE Forget
    <3>1. h \in concluded /\ concluded' = concluded \cup {}
      BY <2>4 DEF Forget, Inductive, DoneInv, ForgetsConcluded
    <3>2. rows' = rows \/ rows' = rows \ {h}
      BY <2>4 DEF Forget
    <3>3. {} \in SUBSET (Range(batch) \cap Events) /\ (h \in Events => h \in concluded')
      BY <3>1
    <3> HIDE DEF h
    <3> QED
      BY <1>1, <2>3, <3>1, <3>2, <3>3, FinishContract
  <2>5. CASE SettleForget
    <3> DEFINE C == IF defer THEN {h} \cap Events ELSE {}
    <3>1. rows' = rows /\ concluded' = IF defer THEN concluded \cup {h} ELSE concluded
      BY <2>5 DEF SettleForget
    <3>2. h \in Events => h \in concluded'
      <4>1. ~defer => Range(batch) \cap Events \subseteq concluded
        BY <2>1 DEF Inductive, DoneInv, AnsweredConcluded
      <4> QED
        BY <2>2, <3>1, <4>1
    <3>3. concluded' = concluded \cup C /\ C \in SUBSET (Range(batch) \cap Events)
      <4>1. concluded' \subseteq Events
        BY <1>0 DEF Typed, TypeOK
      <4> QED
        BY <2>2, <3>1, <4>1
    <3> HIDE DEF h, C
    <3> QED
      BY <1>1, <2>3, <3>1, <3>2, <3>3, FinishContract
  <2> QED
    BY <1>4, <2>4, <2>5
<1> QED
  BY <1>2, <1>3, <1>4 DEF Pump

LEMMA RestoreContract ==
  ASSUME Inductive, Inductive', Restoring \/ RestoreBody
  PROVE  [Contract!Next]_status
<1> USE DEF storeVars, postVars, inboxVars, markVars, removeVars, doneVars
<1>0. Typed /\ Typed' /\ Once(Pipeline)
  BY DEF Inductive, PlacesInv
<1>1. /\ UNCHANGED <<rows, posted, concluded, erased, writing, persisting, removing,
                     withdrawing, deferred>>
      /\ RestoreRecord \/ UNCHANGED <<batch, queue>>
  BY DEF Restoring, ClaimPending, ClaimAbandoned, RegisterRepresentatives, RestoreLoop,
     RestoreBody, RestoreRecord, RestoreEnds
<1>2. CASE UNCHANGED <<batch, queue>>
  <2>1. InHand' = InHand
    BY <1>1, <1>2 DEF InHand, Pipeline
  <2>2. InMemory' = InMemory
    BY <1>1, <2>1 DEF InMemory
  <2>3. \A x \in Events : StatusOf(x)' = StatusOf(x)
    BY <1>1, <2>2, StatusSeen, StatusSeenNext
  <2> QED
    BY <2>3, NobodyMoves
<1>3. CASE RestoreRecord /\ ~UNCHANGED <<batch, queue>>
  <2>0. PICK e : e = Head(todo)   \* the record, whatever todo becomes
    OBVIOUS
  <2>1. Push(e, HumanPriority /\ kind[e] = "human") /\ e \notin postedBeforeRestored
    BY <1>3, <2>0 DEF RestoreRecord, Enqueue
  <2>2. e \in Range(todo) /\ e \in Events
    BY <1>0, <1>3, <2>0, TailContents DEF RestoreRecord, Typed, TypeOK
  <2>3. e \in Ids /\ e \notin InHand
    BY <2>1, <2>2 DEF Ids, Inductive, PlacesInv, RestoredOnce
  <2>4. InHand' = InHand \cup {e}
    BY <1>0, <1>1, <2>1, <2>3, PushPlaces
  <2>5. e \in rows \cup concluded \cup erased \cup removing
    BY <2>2, <2>3 DEF Inductive, PlacesInv, Claimed
  <2>6. InMemory' = InMemory \cup {e}
    BY <1>1, <2>4 DEF InMemory
  <2>7. StatusOf(e)' = StatusOf(e)
    <3>1. e \in rows \cup concluded \cup erased \/ (e \in InMemory /\ e \in InMemory')
      BY <2>5, <2>6 DEF InMemory
    <3>2. /\ StatusOf(e) = Seen(e, posted, concluded, erased, rows, InMemory)
          /\ StatusOf(e)' = Seen(e, posted, concluded, erased, rows, InMemory')
      BY <1>1, <2>2, StatusSeen, StatusSeenNext
    <3> QED
      BY <3>1, <3>2 DEF Seen
  <2>8. ASSUME NEW x \in Events, x # e PROVE StatusOf(x)' = StatusOf(x)
    <3>1. x \in InMemory' <=> x \in InMemory
      BY <2>6, <2>8
    <3> QED
      BY <1>1, <3>1, StatusSeen, StatusSeenNext DEF Seen
  <2>9. \A x \in Events : StatusOf(x)' = StatusOf(x)
    BY <2>7, <2>8
  <2> QED
    BY <2>9, NobodyMoves
<1> QED
  BY <1>1, <1>2, <1>3

LEMMA RequestContract ==
  ASSUME Inductive, Inductive', Request
  PROVE  [Contract!Next]_status
<1> USE DEF storeVars, postVars, inboxVars, markVars, doneVars
<1>0. PICK e \in Events :
        RemoveRow(e) \/ StopDelivery(e) \/ Withdraw(e) \/ WithdrawRemoves(e)
  BY DEF Request
<1>1. Typed /\ Typed' /\ Once(Pipeline)
  BY DEF Inductive, PlacesInv
<1>2. UNCHANGED <<posted, concluded, writing, persisting>>
  BY <1>0 DEF RemoveRow, StopDelivery, Withdraw, WithdrawRemoves
<1>3. ASSUME UNCHANGED erased, \A x \in Events \ {e} : x \in rows' <=> x \in rows,
             \A x \in Events \ {e} : x \in InMemory' <=> x \in InMemory
      PROVE  \A x \in Events \ {e} : StatusOf(x)' = StatusOf(x)
  BY <1>2, <1>3, StatusSeen, StatusSeenNext DEF Seen
<1>4. ASSUME UNCHANGED <<deferred, batch, queue>> PROVE InHand' = InHand
  BY <1>4 DEF InHand, Pipeline
<1>5. CASE RemoveRow(e)
  <2>1. /\ e \in rows /\ rows' = rows \ {e} /\ removing' = removing \cup {e}
        /\ UNCHANGED <<withdrawing, erased>> /\ InHand' = InHand
    BY <1>4, <1>5 DEF RemoveRow
  <2>2. e \notin erased
    BY <2>1 DEF Inductive, PlacesInv, GoneForGood
  <2>3. \A x \in Events \ {e} : StatusOf(x)' = StatusOf(x)
    BY <1>2, <1>3, <2>1 DEF InMemory
  <2>4. Allowed(e)
    BY <1>2, <2>1, <2>2, StatusSeen, StatusSeenNext DEF Allowed, Seen, InMemory
  <2> QED
    BY <2>3, <2>4, OneMoves
<1>6. CASE StopDelivery(e)
  <2>1. /\ e \in removing /\ removing' = removing \ {e} /\ UNCHANGED <<rows, withdrawing>>
        /\ erased' = IF OccursIn(batch, e) THEN erased ELSE erased \cup {e}
        /\ InHand' = IF e \in Range(batch) THEN InHand ELSE InHand \ {e}
        /\ OccursIn(batch, e) <=> e \in Range(batch)
    BY <1>1, <1>6, DropPlaces DEF StopDelivery
  <2>2. /\ e \notin rows /\ (e \in Range(batch) => e \in InHand)
    BY <1>1, <2>1, PipelineContents DEF Inductive, PlacesInv, GoneForGood
  <2>3. \A x \in Events \ {e} : /\ x \in InMemory' <=> x \in InMemory
                                /\ x \in erased' <=> x \in erased
    BY <1>2, <2>1 DEF InMemory
  <2>4. \A x \in Events \ {e} : StatusOf(x)' = StatusOf(x)
    BY <1>2, <2>1, <2>3, StatusSeen, StatusSeenNext DEF Seen
  <2>5. CASE e \in Range(batch)
    <3>1. e \in InMemory /\ e \in InMemory' /\ erased' = erased
      BY <2>1, <2>2, <2>5 DEF InMemory
    <3>2. StatusOf(e)' = StatusOf(e)
      BY <1>2, <2>1, <3>1, StatusSeen, StatusSeenNext DEF Seen
    <3> QED
      BY <2>4, <3>2, OneMoves DEF Allowed
  <2>6. CASE e \notin Range(batch)
    <3>1. e \in InMemory /\ e \in erased'
      BY <2>1, <2>6 DEF InMemory
    <3>2. Allowed(e)
      BY <1>2, <2>1, <2>2, <3>1, StatusSeen, StatusSeenNext DEF Allowed, Seen
    <3> QED
      BY <2>4, <3>2, OneMoves
  <2> QED
    BY <2>5, <2>6
<1>7. CASE Withdraw(e)
  <2>1. /\ withdrawing' = withdrawing \cup {e} /\ UNCHANGED <<rows, removing, erased>>
        /\ InHand' = InHand /\ InPipeline(e)
    BY <1>4, <1>7 DEF Withdraw, InPipeline
  <2>2. e \in InHand
    BY <1>1, <2>1, PipelineContents
  <2>3. InMemory' = InMemory
    BY <1>2, <2>1, <2>2 DEF InMemory
  <2>4. \A x \in Events : StatusOf(x)' = StatusOf(x)
    BY <1>2, <2>1, <2>3, StatusSeen, StatusSeenNext
  <2> QED
    BY <2>4, NobodyMoves
<1>8. CASE WithdrawRemoves(e)
  <2>1. /\ e \in withdrawing /\ withdrawing' = withdrawing \ {e} /\ UNCHANGED erased
        /\ InHand' = InHand
        /\ \/ rows' = rows \ {e} /\ removing' = removing \cup {e}
           \/ UNCHANGED <<rows, removing>>
    BY <1>4, <1>8 DEF WithdrawRemoves
  <2>2. e \in InMemory /\ e \in 1..posted
    BY <2>1 DEF InMemory, Inductive, PlacesInv, Known
  <2>3. \A x \in Events \ {e} : StatusOf(x)' = StatusOf(x)
    BY <1>2, <1>3, <2>1 DEF InMemory
  <2>4. CASE rows' = rows \ {e} /\ removing' = removing \cup {e}
    <3>1. e \in InMemory' /\ e \notin rows'
      BY <2>4 DEF InMemory
    <3>2. Allowed(e)
      BY <1>2, <2>1, <2>2, <3>1, StatusSeen, StatusSeenNext DEF Allowed, Seen
    <3> QED
      BY <2>3, <3>2, OneMoves
  <2>5. CASE UNCHANGED <<rows, removing>>
    <3>1. Allowed(e)
      BY <1>2, <2>1, <2>2, <2>5, StatusSeen, StatusSeenNext DEF Allowed, Seen
    <3> QED
      BY <2>3, <3>1, OneMoves
  <2> QED
    BY <2>1, <2>4, <2>5
<1> QED
  BY <1>0, <1>5, <1>6, <1>7, <1>8

LEMMA StopContract ==
  ASSUME Inductive, Inductive', Stop \/ Close
  PROVE  [Contract!Next]_status
<1> USE DEF storeVars, postVars, markVars, removeVars, doneVars
<1>1. UNCHANGED <<rows, posted, concluded, erased, writing, persisting, removing,
                  withdrawing, deferred>>
  BY DEF Stop, Close
<1>2. InHand' = InHand \/ InHand' = InHand \cup {Distill}
  <2>1. CASE Stop /\ Push(Distill, HumanPriority)
    <3>1. Distill \in Ids /\ Distill \notin InHand
      BY <2>1 DEF Ids, Stop, Inductive, PlacesInv, LastWord
    <3> QED
      BY <1>1, <2>1, <3>1, PushPlaces DEF Inductive, PlacesInv
  <2>2. CASE UNCHANGED <<batch, queue>>
    BY <1>1, <2>2 DEF InHand, Pipeline
  <2> QED
    BY <2>1, <2>2 DEF Stop, Close
<1>3. ASSUME NEW x \in Events PROVE x \in InMemory' <=> x \in InMemory
  <2>1. x # Distill
    BY DEF Events, Distill
  <2> QED
    BY <1>1, <1>2, <2>1 DEF InMemory
<1>4. \A x \in Events : StatusOf(x)' = StatusOf(x)
  BY <1>1, <1>3, StatusSeen, StatusSeenNext DEF Seen
<1> QED
  BY <1>4, NobodyMoves

LEMMA LimitContract ==
  ASSUME Inductive, Inductive', RateLimited \/ LimitAges \/ UNCHANGED vars
  PROVE  [Contract!Next]_status
<1>1. /\ UNCHANGED <<rows, posted, concluded, erased, writing, persisting, removing>>
      /\ UNCHANGED <<withdrawing, deferred, batch, queue>>
  BY DEF RateLimited, LimitAges, storeVars, postVars, inboxVars, markVars, restoreVars,
     removeVars, doneVars, vars
<1>2. InMemory' = InMemory
  BY <1>1 DEF InMemory, InHand, Pipeline
<1>3. \A x \in Events : StatusOf(x)' = StatusOf(x)
  BY <1>1, <1>2, StatusSeen, StatusSeenNext
<1> QED
  BY <1>3, NobodyMoves

(* A crash: what was being removed counts as removed, the rest of the memory *)
(* is gone.                                                                  *)
LEMMA RestartContract ==
  ASSUME Inductive, Inductive', Restart
  PROVE  [Contract!Next]_status
<1> DEFINE R == (removing \ (concluded \cup erased)) \cap Events
<1>1. /\ UNCHANGED <<rows, posted, concluded>> /\ erased' = erased \cup removing
      /\ InMemory' = {}
  <2>1. /\ writing' = {} /\ persisting' = {} /\ removing' = {} /\ withdrawing' = {}
        /\ deferred' = <<>> /\ batch' = <<>> /\ queue' = <<>>
    BY DEF Restart
  <2>2. Pipeline' = <<>>
    BY <2>1 DEF Pipeline
  <2>3. InHand' = {}
    BY <2>2, EmptyContents DEF InHand
  <2> QED
    BY <2>1, <2>3 DEF Restart, InMemory, storeVars, postVars, doneVars
<1>2. removing \subseteq InMemory /\ removing \cap rows = {} /\ removing \subseteq 1..posted
  BY DEF InMemory, Inductive, PlacesInv, GoneForGood, Known
<1>3. posted \in Nat /\ \A x \in 1..posted : ~(x > posted)
  BY Numbers DEF Inductive
<1>4. ASSUME NEW x \in Events
      PROVE  /\ x \in R => StatusOf(x) = "memory"
             /\ StatusOf(x)' = IF x \in R THEN "removed"
                               ELSE IF StatusOf(x) = "memory" THEN "gone" ELSE StatusOf(x)
  <2>1. /\ StatusOf(x) = Seen(x, posted, concluded, erased, rows, InMemory)
        /\ StatusOf(x)' = Seen(x, posted, concluded, erased', rows, {})
    BY <1>1, StatusSeen, StatusSeenNext
  <2>2. CASE x \in removing
    <3>1. x \in InMemory /\ x \notin rows /\ ~(x > posted) /\ x \in erased'
      BY <1>1, <1>2, <1>3, <2>2
    <3> QED
      BY <2>1, <2>2, <3>1 DEF Seen
  <2>3. CASE x \notin removing
    <3>1. x \in erased' <=> x \in erased
      BY <1>1, <2>3
    <3> QED
      BY <2>1, <2>3, <3>1 DEF Seen
  <2> QED
    BY <2>2, <2>3
<1>5. R \in SUBSET Events
  OBVIOUS
<1> HIDE DEF R
<1>6. Contract!Crash(R)
  <2>1. \A x \in R : status[x] = "memory"
    BY <1>4, <1>5 DEF status
  <2>2. status' = [x \in Events |-> IF x \in R THEN "removed"
                     ELSE IF status[x] = "memory" THEN "gone" ELSE status[x]]
    BY <1>4 DEF status
  <2> QED
    BY <2>1, <2>2 DEF Contract!Crash, status
<1>7. Contract!Change
  BY <1>5, <1>6 DEF Contract!Change
<1> QED
  BY <1>7 DEF Contract!Next, status

LEMMA ContractStart ==
  ASSUME Init
  PROVE  Contract!Init
<1>1. posted = 0 /\ \A x \in Events : x > 0
  BY InboxAssumption DEF Init, Events
<1>2. \A x \in Events : StatusOf(x) = "unposted"
  BY <1>1 DEF StatusOf
<1> QED
  BY <1>2 DEF Contract!Init

LEMMA ContractStep ==
  ASSUME Inductive, Inductive', [Next]_vars
  PROVE  [Contract!Next]_status
  BY AdmitContract, StoreContract, PumpContract, RestoreContract, RequestContract,
     StopContract, LimitContract, RestartContract DEF Next

(* Whatever is posted, written, read, held, merged, removed and restored, in *)
(* whatever order, with crashes and failing writes, the process never does   *)
(* with an event what the contract rules out: one that is stored is finished *)
(* or removed on request and is never lost.                                  *)
THEOREM InboxKeepsContract == Spec => KeepsContract
<1>1. Init => Contract!Init
  BY ContractStart
<1>2. Inductive /\ Inductive' /\ [Next]_vars => [Contract!Next]_status
  BY ContractStep
<1> QED
  BY <1>1, <1>2, PlacesInductive, PTL DEF Spec, KeepsContract, Contract!Spec, status
=============================================================================
