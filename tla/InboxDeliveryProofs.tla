------------------------ MODULE InboxDeliveryProofs ------------------------
(***************************************************************************)
(* Proofs about InboxDelivery, for any number of events, restarts and      *)
(* faults and any limit on a batch: its types, that held events always     *)
(* have a limit to wait for, that nothing is pushed into a closed inbox,   *)
(* and that a row leaves the store only when its event is done.            *)
(***************************************************************************)
EXTENDS InboxDelivery, EventQueueProofs, FiniteSetTheorems

-----------------------------------------------------------------------------
(* The type invariant, with the two facts it leans on: the distillation      *)
(* keeps its kind, and the pump takes one event before it merges others.     *)

OneTaken == pc \in {"taken", "checking"} => Len(batch) = 1

Typed == TypeOK /\ kind[Distill] = "distill" /\ OneTaken

LEMMA TypedInit == Init => Typed
<1> SUFFICES ASSUME Init PROVE Typed
  OBVIOUS
<1>1. kind \in [Ids -> Kind] /\ kind[Distill] = "distill"
  BY DEF Init, Ids, Kind
<1>2. /\ queue \in Seq(Ids) /\ deferred \in Seq(Ids) /\ batch \in Seq(Ids)
      /\ todo \in Seq(Events) /\ batch = <<>> /\ pc = "next"
  BY DEF Init
<1>3. posted \in 0..MaxEvents /\ restarts \in 0..MaxRestarts /\ faults \in 0..MaxFaults
  BY InboxAssumption DEF Init
<1>4. /\ stage = "up" /\ usageBlocked \in Blocked /\ restore \in RestorePc /\ pc \in PumpPc
      /\ defer \in BOOLEAN /\ releaseRequested \in BOOLEAN /\ pushedClosed \in BOOLEAN
  BY DEF Init, Blocked, RestorePc, PumpPc
<1>5. /\ rows = {} /\ writing = {} /\ unread = {} /\ rep = {} /\ heldForUsage = {}
      /\ persisting = {} /\ postedBeforeRestored = {} /\ droppedWhileRestoring = {}
      /\ removing = {} /\ withdrawing = {} /\ concluded = {} /\ refused = {}
      /\ removed = {} /\ erased = {}
  BY DEF Init
<1> QED
  BY <1>1, <1>2, <1>3, <1>4, <1>5 DEF Typed, TypeOK, OneTaken

(* Queueing an event: the pump is woken with it, or it joins the queue.      *)
LEMMA PushTyped ==
  ASSUME Typed, NEW e \in Ids, NEW jumps \in BOOLEAN, Push(e, jumps)
  PROVE  /\ queue' \in Seq(Ids) /\ batch' \in Seq(Ids) /\ pushedClosed' \in BOOLEAN
         /\ pc' \in PumpPc /\ (batch' = <<>> <=> pc' \in {"next", "waiting", "ended"})
         /\ OneTaken'
<1> USE DEF Typed, TypeOK
<1>1. CASE pc = "waiting"
  <2>1. pc' = "taken" /\ batch' = <<e>> /\ queue' = queue
        /\ pushedClosed' = (pushedClosed \/ Closed)
    BY <1>1 DEF Push
  <2>2. batch' \in Seq(Ids) /\ Len(batch') = 1 /\ batch' # <<>>
    BY <2>1
  <2>3. pushedClosed' \in BOOLEAN
    BY <2>1 DEF Closed
  <2> QED
    BY <2>1, <2>2, <2>3 DEF OneTaken, PumpPc
<1>2. CASE pc # "waiting"
  <2>1. PICK at \in 0..Len(queue) : queue' = InsertAt(queue, at + 1, e)
    BY <1>2 DEF Push
  <2>2. queue' \in Seq(Ids)
    BY <2>1, InsertType
  <2> QED
    BY <1>2, <2>2 DEF Push, OneTaken
<1> QED
  BY <1>1, <1>2

(* Settling the first event of the batch.                                    *)
LEMMA SettledTyped ==
  ASSUME Typed, pc \in {"settle", "forget"}, Settled
  PROVE  /\ batch' \in Seq(Ids) /\ pc' \in PumpPc
         /\ (batch' = <<>> <=> pc' \in {"next", "waiting", "ended"})
         /\ stage' \in {"up", "distilling", "distilled", "closed"} /\ OneTaken'
<1> USE DEF Typed, TypeOK
<1>1. batch # <<>>
  OBVIOUS
<1>2. Tail(batch) \in Seq(Ids) /\ Len(Tail(batch)) = Len(batch) - 1
  BY <1>1, HeadTailProperties
<1>3. Tail(batch) = <<>> <=> Len(batch) = 1
  <2>1. Len(batch) \in Nat /\ batch \in Seq(Ids)
    BY EmptyLen
  <2>2. Tail(batch) = <<>> <=> Len(Tail(batch)) = 0
    BY ONLY <1>2, EmptyLen
  <2> QED
    BY <1>2, <2>1, <2>2
<1>4. batch' = Tail(batch) /\ pc' = IF Len(batch) = 1 THEN "next" ELSE "settle"
  BY DEF Settled
<1>5. stage' \in {"up", "distilling", "distilled", "closed"}
  BY DEF Settled
<1> QED
  <2>1. pc' \in {"next", "settle"} /\ (pc' = "next" <=> Len(batch) = 1)
    BY <1>4
  <2> QED
    BY <1>2, <1>3, <1>4, <1>5, <2>1 DEF PumpPc, OneTaken

LEMMA AdmitTyped == Typed /\ Admit => Typed'
<1> SUFFICES ASSUME Typed, NEW e \in Events, NEW k \in Kinds, Arrive(e, k),
                    PostFolded(e, k) \/ PostRowFolded(e, k) \/ Post(e, k)
                      \/ PostPersisted(e, k) \/ PostClosed(e, k)
             PROVE  Typed'
  BY DEF Admit, PostFolded, PostRowFolded, Post, PostPersisted, PostClosed, Fresh
<1> USE DEF Typed, TypeOK
<1>1. posted' \in 0..MaxEvents /\ kind' \in [Ids -> Kind] /\ kind'[Distill] = "distill"
      /\ e \in Ids
  BY InboxAssumption DEF Arrive, Ids, Events, Distill
<1>2. ASSUME Rearm(k) PROVE releaseRequested' \in BOOLEAN
  BY <1>2 DEF Rearm
<1>3. ASSUME Fresh(e, k) PROVE rep' \subseteq Ids
  BY <1>1, <1>3 DEF Fresh
<1>4. ASSUME Enqueue(e, k)
      PROVE  /\ queue' \in Seq(Ids) /\ batch' \in Seq(Ids) /\ pushedClosed' \in BOOLEAN
             /\ pc' \in PumpPc /\ (batch' = <<>> <=> pc' \in {"next", "waiting", "ended"})
             /\ OneTaken'
  <2>1. (HumanPriority /\ k = "human") \in BOOLEAN
    OBVIOUS
  <2> QED
    BY <1>1, <1>4, <2>1, PushTyped DEF Enqueue
<1>5. ASSUME UNCHANGED inboxVars
      PROVE  /\ queue' \in Seq(Ids) /\ batch' \in Seq(Ids) /\ pushedClosed' \in BOOLEAN
             /\ pc' \in PumpPc /\ (batch' = <<>> <=> pc' \in {"next", "waiting", "ended"})
             /\ OneTaken'
  BY <1>5 DEF inboxVars, OneTaken
<1> USE DEF storeVars, postVars, markVars, restoreVars, removeVars, doneVars
<1>6. CASE PostFolded(e, k)
  BY <1>1, <1>2, <1>5, <1>6 DEF PostFolded
<1>7. CASE PostRowFolded(e, k)
  BY <1>1, <1>2, <1>4, <1>7 DEF PostRowFolded
<1>8. CASE Post(e, k)
  BY <1>1, <1>2, <1>3, <1>4, <1>8 DEF Post, Fresh, Remember, NoteUnrestored
<1>9. CASE PostPersisted(e, k)
  BY <1>1, <1>2, <1>3, <1>5, <1>9 DEF PostPersisted, Fresh, NoteUnrestored
<1>10. CASE PostClosed(e, k)
  BY <1>1, <1>2, <1>3, <1>5, <1>10 DEF PostClosed, Fresh, Remember
<1> QED
  BY <1>6, <1>7, <1>8, <1>9, <1>10

LEMMA StoreTyped == Typed /\ StoreStep => Typed'
<1> SUFFICES ASSUME Typed, NEW e \in Events,
                    WriteEnds(e) \/ Persisted(e) \/ PersistRefused(e)
             PROVE  Typed'
  BY DEF StoreStep
<1> USE DEF Typed, TypeOK
<1> USE DEF storeVars, postVars, inboxVars, markVars, usageVars, restoreVars, removeVars,
        doneVars
<1>0. e \in Ids
  BY DEF Ids
<1>1. CASE WriteEnds(e)
  BY <1>1, InboxAssumption DEF WriteEnds, OneTaken
<1>2. CASE Persisted(e)
  <2>1. CASE Closed
    BY <1>2, <2>1 DEF Persisted, OneTaken
  <2>2. CASE ~Closed
    <3>1. (HumanPriority /\ kind[e] = "human") \in BOOLEAN /\
          Push(e, HumanPriority /\ kind[e] = "human")
      BY <1>2, <2>2 DEF Persisted, Enqueue
    <3>2. /\ queue' \in Seq(Ids) /\ batch' \in Seq(Ids) /\ pushedClosed' \in BOOLEAN
          /\ pc' \in PumpPc /\ (batch' = <<>> <=> pc' \in {"next", "waiting", "ended"})
          /\ OneTaken'
      BY <1>0, <3>1, PushTyped
    <3> QED
      BY <1>2, <3>2 DEF Persisted
  <2> QED
    BY <2>1, <2>2
<1>3. CASE PersistRefused(e)
  BY <1>3, InboxAssumption DEF PersistRefused, OneTaken
<1> QED
  BY <1>1, <1>2, <1>3

LEMMA PumpTyped == Typed /\ Pump => Typed'
<1> SUFFICES ASSUME Typed, Pump PROVE Typed'
  OBVIOUS
<1> USE DEF storeVars, postVars, markVars, usageVars, restoreVars, removeVars, doneVars
<1>1. CASE PumpNext
  <2> USE DEF Typed, TypeOK
  <2>1. CASE queue # <<>>
    <3>1. Head(queue) \in Ids /\ Tail(queue) \in Seq(Ids)
      BY <2>1, HeadTailProperties
    <3>2. batch' = <<Head(queue)>> /\ queue' = Tail(queue) /\ pc' = "taken"
      BY <1>1, <2>1 DEF PumpNext
    <3>3. batch' \in Seq(Ids) /\ Len(batch') = 1 /\ batch' # <<>>
      BY <3>1, <3>2
    <3> QED
      BY <1>1, <3>1, <3>2, <3>3 DEF PumpNext, PumpPc, OneTaken
  <2>2. CASE queue = <<>>
    BY <1>1, <2>2 DEF PumpNext, PumpPc, OneTaken
  <2> QED
    BY <2>1, <2>2
<1>2. CASE PumpRelease
  <2> USE DEF Typed, TypeOK
  <2>1. deferred \o batch \o queue \in Seq(Ids)
    BY ConcatProperties
  <2>2. Closed \in BOOLEAN
    BY DEF Closed
  <2>3. queue' \in Seq(Ids) /\ batch' = <<>> /\ deferred' = <<>> /\ pc' = "next"
    BY <1>2, <2>1 DEF PumpRelease, Released
  <2>4. pushedClosed' \in BOOLEAN /\ usageBlocked' = "no" /\ ~releaseRequested'
    BY <1>2, <2>2 DEF PumpRelease
  <2>5. batch' \in Seq(Ids) /\ deferred' \in Seq(Ids)
    BY <2>3
  <2> QED
    BY <1>2, <2>3, <2>4, <2>5 DEF PumpRelease, PumpPc, Blocked, OneTaken
<1>3. CASE PumpShortCircuit
  BY <1>3 DEF PumpShortCircuit, Typed, TypeOK, PumpPc, OneTaken
<1>4. CASE PumpCheck
  BY <1>4 DEF PumpCheck, Typed, TypeOK, PumpPc, OneTaken
<1>5. CASE PumpRecovered
  <2> USE DEF Typed, TypeOK
  <2>1. Head(batch) \in Ids
    BY <1>5, HeadTailProperties DEF PumpRecovered
  <2>2. Head(batch) \in Events
    BY <1>5, <2>1 DEF PumpRecovered, Ids
  <2> QED
    BY <1>5, <2>2 DEF PumpRecovered, PumpPc, OneTaken
<1>6. CASE PumpStartTurn
  <2> USE DEF Typed, TypeOK
  <2>1. PICK n \in 0..Len(queue) : batch' = batch \o SubSeq(queue, 1, n)
                                   /\ queue' = SubSeq(queue, n + 1, Len(queue))
    BY <1>6 DEF PumpStartTurn
  <2>2. Len(queue) \in Nat /\ \A i \in 1..Len(queue) : queue[i] \in Ids
    BY LenProperties, ElementOfSeq
  <2>3. SubSeq(queue, 1, n) \in Seq(Ids)
    BY <2>2, SubSeqProperties
  <2>4. queue' \in Seq(Ids)
    BY <2>1, <2>2, SubSeqProperties
  <2>5. batch # <<>> /\ batch \in Seq(Ids)
    BY <1>6 DEF PumpStartTurn
  <2>6. batch' \in Seq(Ids) /\ batch' # <<>>
    BY <2>1, <2>3, <2>5, ConcatProperties, ConcatSimplifications
  <2> QED
    BY <1>6, <2>4, <2>6 DEF PumpStartTurn, PumpPc, OneTaken
<1>7. CASE TurnAnswered \/ TurnHitsLimit \/ TurnFails
  <2> USE DEF Typed, TypeOK
  <2>1. PICK b \in Blocked : TurnEnds(b)
    BY <1>7 DEF TurnAnswered, TurnHitsLimit, TurnFails, Blocked
  <2>2. (b # "no") \in BOOLEAN
    OBVIOUS
  <2> QED
    BY <2>1, <2>2 DEF TurnEnds, PumpPc, OneTaken
<1>8. CASE SettleHeld
  <2> USE DEF Typed, TypeOK
  <2>1. pc = "settle" /\ Settled
    BY <1>8 DEF SettleHeld
  <2>2. Head(batch) \in Ids
    BY <2>1, HeadTailProperties
  <2>3. deferred' \in Seq(Ids) /\ rep' \subseteq Ids /\ heldForUsage' \subseteq Ids
    BY <1>8, <2>2 DEF SettleHeld
  <2>4. /\ batch' \in Seq(Ids) /\ pc' \in PumpPc
        /\ (batch' = <<>> <=> pc' \in {"next", "waiting", "ended"})
        /\ stage' \in {"up", "distilling", "distilled", "closed"} /\ OneTaken'
    BY <2>1, SettledTyped
  <2> QED
    BY <1>8, <2>3, <2>4 DEF SettleHeld
<1>9. CASE SettleForget
  <2> USE DEF Typed, TypeOK
  <2>1. pc = "settle" /\ Head(batch) \in Ids
    BY <1>9, HeadTailProperties DEF SettleForget
  <2>2. concluded' \subseteq Events /\ heldForUsage' \subseteq Ids
    BY <1>9, <2>1 DEF SettleForget, FoldsIntoHeldTick, Ids
  <2>3. CASE Settled
    <3>1. /\ batch' \in Seq(Ids) /\ pc' \in PumpPc
          /\ (batch' = <<>> <=> pc' \in {"next", "waiting", "ended"})
          /\ stage' \in {"up", "distilling", "distilled", "closed"} /\ OneTaken'
      BY <2>1, <2>3, SettledTyped
    <3> QED
      BY <1>9, <2>2, <3>1 DEF SettleForget
  <2>4. CASE pc' = "forget" /\ UNCHANGED <<batch, stage>>
    BY <1>9, <2>1, <2>2, <2>4 DEF SettleForget, PumpPc, OneTaken
  <2> QED
    BY <1>9, <2>3, <2>4 DEF SettleForget
<1>10. CASE Forget
  <2>1. pc = "forget" /\ Settled
    BY <1>10 DEF Forget
  <2>2. /\ batch' \in Seq(Ids) /\ pc' \in PumpPc
        /\ (batch' = <<>> <=> pc' \in {"next", "waiting", "ended"})
        /\ stage' \in {"up", "distilling", "distilled", "closed"} /\ OneTaken'
    BY <2>1, SettledTyped
  <2> QED
    BY <1>10, <2>2, InboxAssumption DEF Forget, Typed, TypeOK
<1> QED
  BY <1>1, <1>2, <1>3, <1>4, <1>5, <1>6, <1>7, <1>8, <1>9, <1>10 DEF Pump

LEMMA LimitTyped == Typed /\ (RateLimited \/ LimitAges) => Typed'
<1> USE DEF storeVars, postVars, inboxVars, markVars, restoreVars, removeVars, doneVars
<1>1. Typed /\ RateLimited => Typed'
  BY DEF RateLimited, Typed, TypeOK, OneTaken
<1>2. Typed /\ LimitAges => Typed'
  BY DEF LimitAges, Typed, TypeOK, OneTaken, Blocked
<1> QED
  BY <1>1, <1>2

(* The claimed rows form a sequence of events.                               *)
LEMMA ClaimTyped == Typed /\ ClaimPending => todo' \in Seq(Events)
<1> SUFFICES ASSUME Typed, ClaimPending PROVE todo' \in Seq(Events)
  OBVIOUS
<1>1. IsFiniteSet(1..MaxEvents)
  BY InboxAssumption, FS_Interval
<1>2. Cardinality(rows) \in Nat
  BY <1>1, FS_Subset, FS_CardinalityType DEF Typed, TypeOK, Events
<1>3. PICK s \in [1..Cardinality(rows) -> rows] : todo' = s
  BY DEF ClaimPending
<1>4. s \in Seq(rows)
  BY <1>2, <1>3
<1> QED
  BY <1>3, <1>4, SeqMonotonic DEF Typed, TypeOK

LEMMA RestoreTyped == Typed /\ (Restoring \/ RestoreBody) => Typed'
<1> SUFFICES ASSUME Typed, Restoring \/ RestoreBody PROVE Typed'
  OBVIOUS
<1> USE DEF storeVars, postVars, markVars, usageVars, restoreVars, removeVars, doneVars
<1>1. CASE ClaimPending
  BY <1>1, ClaimTyped DEF ClaimPending, Typed, TypeOK, inboxVars, OneTaken, RestorePc
<1>2. CASE ClaimAbandoned
  BY <1>2 DEF ClaimAbandoned, Typed, TypeOK, inboxVars, OneTaken, RestorePc
<1>3. CASE RegisterRepresentatives
  <2>1. Range(todo) \subseteq Events
    BY LenProperties, ElementOfSeq DEF Range, Typed, TypeOK
  <2>2. rep' \subseteq Ids
    BY <1>3, <2>1 DEF RegisterRepresentatives, Typed, TypeOK, Ids
  <2> QED
    BY <1>3, <2>2 DEF RegisterRepresentatives, Typed, TypeOK, inboxVars, OneTaken, RestorePc
<1>4. CASE RestoreLoop
  BY <1>4 DEF RestoreLoop, Typed, TypeOK, inboxVars, OneTaken, RestorePc
<1>5. CASE RestoreEnds
  BY <1>5 DEF RestoreEnds, Typed, TypeOK, inboxVars, OneTaken, RestorePc
<1>6. CASE RestoreRecord
  <2>1. Head(todo) \in Events /\ Tail(todo) \in Seq(Events)
    BY <1>6, HeadTailProperties DEF RestoreRecord, Typed, TypeOK
  <2>2. CASE UNCHANGED inboxVars
    BY <1>6, <2>1, <2>2 DEF RestoreRecord, Typed, TypeOK, inboxVars, OneTaken, RestorePc
  <2>3. CASE Enqueue(Head(todo), kind[Head(todo)]) /\ UNCHANGED <<restore, rep>>
    <3>1. Head(todo) \in Ids /\ (HumanPriority /\ kind[Head(todo)] = "human") \in BOOLEAN
      BY <2>1 DEF Ids
    <3>2. /\ queue' \in Seq(Ids) /\ batch' \in Seq(Ids) /\ pushedClosed' \in BOOLEAN
          /\ pc' \in PumpPc /\ (batch' = <<>> <=> pc' \in {"next", "waiting", "ended"})
          /\ OneTaken'
      BY <2>3, <3>1, PushTyped DEF Enqueue
    <3> QED
      BY <1>6, <2>1, <2>3, <3>2 DEF RestoreRecord, Typed, TypeOK
  <2> QED
    BY <1>6, <2>2, <2>3 DEF RestoreRecord
<1> QED
  BY <1>1, <1>2, <1>3, <1>4, <1>5, <1>6 DEF Restoring, RestoreBody

LEMMA RequestTyped == Typed /\ Request => Typed'
<1> SUFFICES ASSUME Typed, NEW e \in Events,
                    RemoveRow(e) \/ StopDelivery(e) \/ Withdraw(e) \/ WithdrawRemoves(e)
             PROVE  Typed'
  BY DEF Request
<1> USE DEF storeVars, postVars, inboxVars, markVars, usageVars, restoreVars, doneVars
<1>1. CASE RemoveRow(e)
  BY <1>1 DEF RemoveRow, Typed, TypeOK, OneTaken
<1>2. CASE StopDelivery(e)
  <2>1. Without(queue, e) \in Seq(Ids) /\ Without(deferred, e) \in Seq(Ids)
    BY WithoutType DEF Typed, TypeOK
  <2> QED
    BY <1>2, <2>1 DEF StopDelivery, Typed, TypeOK, OneTaken
<1>3. CASE Withdraw(e)
  BY <1>3 DEF Withdraw, Typed, TypeOK, OneTaken
<1>4. CASE WithdrawRemoves(e)
  BY <1>4, InboxAssumption DEF WithdrawRemoves, Typed, TypeOK, OneTaken
<1> QED
  BY <1>1, <1>2, <1>3, <1>4

LEMMA LifeTyped == Typed /\ (Stop \/ Close \/ Restart) => Typed'
<1> SUFFICES ASSUME Typed, Stop \/ Close \/ Restart PROVE Typed'
  OBVIOUS
<1> USE DEF storeVars, postVars, markVars, usageVars, restoreVars, removeVars, doneVars
<1>1. pc' = Woken /\ UNCHANGED batch
        => pc' \in PumpPc /\ (batch' = <<>> <=> pc' \in {"next", "waiting", "ended"})
           /\ OneTaken'
  BY DEF Woken, Typed, TypeOK, OneTaken, PumpPc
<1>2. CASE Stop
  <2>1. CASE stage' = "distilling" /\ Push(Distill, HumanPriority)
    <3>1. Distill \in Ids /\ HumanPriority \in BOOLEAN
      BY InboxAssumption DEF Ids
    <3>2. /\ queue' \in Seq(Ids) /\ batch' \in Seq(Ids) /\ pushedClosed' \in BOOLEAN
          /\ pc' \in PumpPc /\ (batch' = <<>> <=> pc' \in {"next", "waiting", "ended"})
          /\ OneTaken'
      BY <2>1, <3>1, PushTyped
    <3> QED
      BY <1>2, <2>1, <3>2 DEF Stop, Typed, TypeOK
  <2>2. CASE stage' = "closed" /\ pc' = Woken /\ UNCHANGED <<queue, batch, pushedClosed>>
    BY <1>1, <1>2, <2>2 DEF Stop, Typed, TypeOK
  <2> QED
    BY <1>2, <2>1, <2>2 DEF Stop
<1>3. CASE Close
  BY <1>1, <1>3 DEF Close, Typed, TypeOK
<1>4. CASE Restart
  <2>1. restarts' \in 0..MaxRestarts
    BY <1>4, InboxAssumption DEF Restart, Typed, TypeOK
  <2>2. <<>> \in Seq(Ids) /\ <<>> \in Seq(Events)
    OBVIOUS
  <2> QED
    BY <1>4, <2>1, <2>2 DEF Restart, Typed, TypeOK, OneTaken, PumpPc, Blocked, RestorePc
<1> QED
  BY <1>2, <1>3, <1>4

LEMMA TypedStep == Typed /\ [Next]_vars => Typed'
<1>1. Typed /\ UNCHANGED vars => Typed'
  BY DEF vars, Typed, TypeOK, OneTaken
<1> QED
  BY <1>1, AdmitTyped, StoreTyped, PumpTyped, LimitTyped, RestoreTyped, RequestTyped,
     LifeTyped DEF Next

(* The type invariant holds for any number of events, restarts and faults.   *)
THEOREM InboxTypeCorrect == Spec => []TypeOK
<1>1. Typed => TypeOK
  BY DEF Typed
<1> QED
  BY <1>1, TypedInit, TypedStep, PTL DEF Spec

-----------------------------------------------------------------------------
(* Most steps leave the pump and the held events alone, or wake the pump.    *)

Calm ==
  /\ UNCHANGED <<deferred, defer, usageBlocked, concluded>>
  /\ UNCHANGED <<pc, batch>> \/ (pc = "waiting" /\ pc' \in {"taken", "ended"})

LEMMA PushCalm ==
  ASSUME NEW e, NEW jumps, Push(e, jumps)
  PROVE  UNCHANGED <<pc, batch>> \/ (pc = "waiting" /\ pc' \in {"taken", "ended"})
  BY DEF Push

LEMMA CalmSteps ==
  ASSUME Admit \/ StoreStep \/ Restoring \/ RestoreBody \/ Stop \/ Close \/ UNCHANGED vars
           \/ \E e \in Events : RemoveRow(e) \/ Withdraw(e) \/ WithdrawRemoves(e)
  PROVE  Calm
<1> USE DEF storeVars, postVars, inboxVars, markVars, usageVars, restoreVars, removeVars,
        doneVars
<1>1. CASE Admit
  BY <1>1, PushCalm DEF Admit, PostFolded, PostRowFolded, Post, PostPersisted, PostClosed,
     Fresh, Enqueue, Calm
<1>2. CASE StoreStep
  BY <1>2, PushCalm DEF StoreStep, WriteEnds, Persisted, PersistRefused, Enqueue, Calm
<1>3. CASE Restoring
  BY <1>3 DEF Restoring, ClaimPending, ClaimAbandoned, RegisterRepresentatives,
     RestoreLoop, Calm
<1>4. CASE RestoreBody
  BY <1>4, PushCalm DEF RestoreBody, RestoreRecord, RestoreEnds, Enqueue, Calm
<1>5. CASE Stop \/ Close
  BY <1>5, PushCalm DEF Stop, Close, Woken, Calm
<1>6. CASE UNCHANGED vars
  BY <1>6 DEF vars, Calm
<1>7. CASE \E e \in Events : RemoveRow(e) \/ Withdraw(e) \/ WithdrawRemoves(e)
  BY <1>7 DEF RemoveRow, Withdraw, WithdrawRemoves, Calm
<1> QED
  BY <1>1, <1>2, <1>3, <1>4, <1>5, <1>6, <1>7

-----------------------------------------------------------------------------
(* Held events wait for a limit.  The pump reads the limit before it starts  *)
(* a turn and again when the turn is settled: no event is held in between,   *)
(* and those it holds afterwards are held because of what it read.           *)

NoneHeldInTurn == pc \in {"checking", "turn"} => deferred = <<>>

DeferBehindLimit == pc \in {"settle", "forget"} /\ defer => usageBlocked # "no"

HeldInv == HeldBehindLimit /\ NoneHeldInTurn /\ DeferBehindLimit

LEMMA HeldInit == Init => HeldInv
  BY DEF Init, HeldInv, HeldBehindLimit, NoneHeldInTurn, DeferBehindLimit

LEMMA HeldPump == Typed /\ HeldInv /\ Pump => HeldInv'
<1> SUFFICES ASSUME Typed, HeldInv, Pump PROVE HeldInv'
  OBVIOUS
<1> USE DEF HeldInv, HeldBehindLimit, NoneHeldInTurn, DeferBehindLimit, usageVars
<1>1. CASE PumpNext
  BY <1>1 DEF PumpNext
<1>2. CASE PumpRelease
  BY <1>2 DEF PumpRelease
<1>3. CASE PumpShortCircuit \/ PumpCheck
  BY <1>3 DEF PumpShortCircuit, PumpCheck
<1>4. CASE PumpRecovered \/ PumpStartTurn
  BY <1>4 DEF PumpRecovered, PumpStartTurn
<1>5. CASE TurnAnswered \/ TurnHitsLimit \/ TurnFails
  BY <1>5 DEF TurnAnswered, TurnHitsLimit, TurnFails, TurnEnds
<1>6. CASE SettleHeld \/ SettleForget \/ Forget
  <2>1. pc \in {"settle", "forget"} /\ pc' \in {"next", "settle", "forget"}
    BY <1>6 DEF SettleHeld, SettleForget, Forget, Settled
  <2>2. UNCHANGED <<defer, usageBlocked>>
    BY <1>6 DEF SettleHeld, SettleForget, Forget
  <2>3. deferred' = deferred \/ defer
    BY <1>6 DEF SettleHeld, SettleForget, Forget
  <2> QED
    BY <2>1, <2>2, <2>3
<1> QED
  BY <1>1, <1>2, <1>3, <1>4, <1>5, <1>6 DEF Pump

LEMMA HeldStep == Typed /\ HeldInv /\ [Next]_vars => HeldInv'
<1> SUFFICES ASSUME Typed, HeldInv, [Next]_vars PROVE HeldInv'
  OBVIOUS
<1> USE DEF HeldInv, HeldBehindLimit, NoneHeldInTurn, DeferBehindLimit
<1>1. CASE Calm
  BY <1>1 DEF Calm
<1>2. CASE RateLimited \/ LimitAges
  BY <1>2 DEF RateLimited, LimitAges, inboxVars
<1>3. ASSUME NEW e \in Events, StopDelivery(e) PROVE HeldInv'
  <2>1. deferred = <<>> => deferred' = <<>>
    BY <1>3, WithoutEmpty DEF StopDelivery
  <2> QED
    BY <1>3, <2>1 DEF StopDelivery, usageVars
<1>4. CASE Restart
  BY <1>4 DEF Restart
<1> QED
  BY <1>1, <1>2, <1>3, <1>4, CalmSteps, HeldPump DEF Next, Request

(* No event is ever held without a limit to wait for: whatever closes or     *)
(* reopens the limit, the pump's next decision sees it.                      *)
THEOREM HeldWaitForLimit == Spec => []HeldBehindLimit
<1>1. Init => Typed /\ HeldInv
  BY TypedInit, HeldInit
<1>2. (Typed /\ HeldInv) /\ [Next]_vars => (Typed /\ HeldInv)'
  BY TypedStep, HeldStep
<1>3. HeldInv => HeldBehindLimit
  BY DEF HeldInv
<1> QED
  BY <1>1, <1>2, <1>3, PTL DEF Spec

-----------------------------------------------------------------------------
(* A row is forgotten after its event is concluded.  The pump decides once   *)
(* for a whole batch, concludes every event of it unless it holds the batch, *)
(* and forgets them one by one.                                              *)

AnsweredConcluded ==
  pc \in {"settle", "forget"} /\ ~defer => Range(batch) \cap Events \subseteq concluded

ForgetsConcluded == pc = "forget" => Head(batch) \in concluded

DoneInv == AnsweredConcluded /\ ForgetsConcluded

LEMMA DoneInit == Init => DoneInv
  BY DEF Init, DoneInv, AnsweredConcluded, ForgetsConcluded

LEMMA TailRange ==
  ASSUME NEW S, NEW s \in Seq(S), s # <<>>
  PROVE  Range(Tail(s)) \subseteq Range(s) /\ Head(s) \in Range(s)
<1>1. /\ Tail(s) \in Seq(S) /\ Len(Tail(s)) = Len(s) - 1
      /\ \A i \in 1..Len(Tail(s)) : Tail(s)[i] = s[i + 1]
  BY HeadTailProperties
<1>2. Len(s) \in Nat /\ Len(s) # 0 /\ DOMAIN s = 1..Len(s)
  BY EmptyLen, LenProperties
<1>3. DOMAIN Tail(s) = 1..Len(Tail(s))
  BY <1>1, LenProperties
<1>4. Head(s) = s[1]
  BY <1>2
<1> QED
  BY <1>1, <1>2, <1>3, <1>4 DEF Range

LEMMA DonePump == Typed /\ DoneInv /\ Pump => DoneInv'
<1> SUFFICES ASSUME Typed, DoneInv, Pump PROVE DoneInv'
  OBVIOUS
<1> USE DEF DoneInv, AnsweredConcluded, ForgetsConcluded, doneVars
<1>1. CASE PumpNext \/ PumpRelease \/ PumpShortCircuit \/ PumpCheck \/ PumpStartTurn
  BY <1>1 DEF PumpNext, PumpRelease, PumpShortCircuit, PumpCheck, PumpStartTurn
<1>2. CASE PumpRecovered
  <2>1. batch \in Seq(Ids) /\ Len(batch) = 1
    BY <1>2 DEF PumpRecovered, Typed, TypeOK, OneTaken
  <2>2. Range(batch) = {Head(batch)}
    BY <2>1, LenProperties DEF Range
  <2> QED
    BY <1>2, <2>2 DEF PumpRecovered
<1>3. CASE TurnAnswered \/ TurnHitsLimit \/ TurnFails
  BY <1>3 DEF TurnAnswered, TurnHitsLimit, TurnFails, TurnEnds
<1>4. CASE SettleHeld \/ SettleForget \/ Forget
  <2>1. pc \in {"settle", "forget"} /\ batch \in Seq(Ids) /\ batch # <<>>
        /\ unread \subseteq Events
    BY <1>4 DEF SettleHeld, SettleForget, Forget, Typed, TypeOK
  <2>2. Range(Tail(batch)) \subseteq Range(batch) /\ Head(batch) \in Range(batch)
    BY <2>1, TailRange
  <2>3. CASE Settled
    <3>1. batch' = Tail(batch) /\ pc' \in {"next", "settle"}
      BY <2>3 DEF Settled
    <3>2. concluded \subseteq concluded' /\ defer' = defer
      BY <1>4 DEF SettleHeld, SettleForget, Forget
    <3> QED
      BY <2>1, <2>2, <3>1, <3>2
  <2>4. CASE SettleForget /\ pc' = "forget" /\ UNCHANGED batch
    <3>1. CASE defer
      BY <2>4, <3>1 DEF SettleForget
    <3>2. CASE ~defer
      <4>1. Head(batch) \in unread
        BY <2>4 DEF SettleForget, Settled
      <4> QED
        BY <2>1, <2>2, <2>4, <3>2, <4>1 DEF SettleForget
    <3> QED
      BY <3>1, <3>2
  <2> QED
    BY <1>4, <2>3, <2>4 DEF SettleHeld, SettleForget, Forget
<1> QED
  BY <1>1, <1>2, <1>3, <1>4 DEF Pump

LEMMA DoneStep == Typed /\ DoneInv /\ [Next]_vars => DoneInv'
<1> SUFFICES ASSUME Typed, DoneInv, [Next]_vars PROVE DoneInv'
  OBVIOUS
<1> USE DEF DoneInv, AnsweredConcluded, ForgetsConcluded
<1>1. CASE Calm
  BY <1>1 DEF Calm
<1>2. CASE RateLimited \/ LimitAges
  BY <1>2 DEF RateLimited, LimitAges, inboxVars, doneVars
<1>3. ASSUME NEW e \in Events, StopDelivery(e) PROVE DoneInv'
  BY <1>3 DEF StopDelivery, doneVars
<1>4. CASE Restart
  BY <1>4 DEF Restart
<1> QED
  BY <1>1, <1>2, <1>3, <1>4, CalmSteps, DonePump DEF Next, Request

(* The only steps that delete rows: #forget and the two removals.            *)
LEMMA RowsLeave ==
  Typed /\ DoneInv /\ [Next]_vars
    => [\A e \in rows \ rows' : e \in concluded' \/ e \in removed']_vars
<1> SUFFICES ASSUME Typed, DoneInv, Next, NEW e \in rows, e \notin rows'
             PROVE  e \in concluded' \/ e \in removed'
  OBVIOUS
<1> USE DEF storeVars, postVars, inboxVars, markVars, usageVars, restoreVars, removeVars,
        doneVars
<1>1. CASE Admit
  BY <1>1 DEF Admit, PostFolded, PostRowFolded, Post, PostPersisted, PostClosed, Fresh
<1>2. CASE StoreStep
  BY <1>2 DEF StoreStep, WriteEnds, Persisted, PersistRefused
<1>3. CASE Pump
  <2>1. ASSUME Forget PROVE e = Head(batch) /\ pc = "forget" /\ UNCHANGED concluded
    BY <2>1 DEF Forget
  <2>2. CASE Forget
    BY <2>1, <2>2 DEF DoneInv, ForgetsConcluded
  <2> QED
    BY <1>3, <2>2 DEF Pump, PumpNext, PumpRelease, PumpShortCircuit, PumpCheck,
       PumpRecovered, PumpStartTurn, TurnAnswered, TurnHitsLimit, TurnFails, TurnEnds,
       SettleHeld, SettleForget
<1>4. CASE RateLimited \/ LimitAges
  BY <1>4 DEF RateLimited, LimitAges
<1>5. CASE Restoring \/ RestoreBody
  BY <1>5 DEF Restoring, ClaimPending, ClaimAbandoned, RegisterRepresentatives,
     RestoreLoop, RestoreBody, RestoreRecord, RestoreEnds
<1>6. CASE Request
  BY <1>6 DEF Request, RemoveRow, StopDelivery, Withdraw, WithdrawRemoves
<1>7. CASE Stop \/ Close \/ Restart
  BY <1>7 DEF Stop, Close, Restart
<1> QED
  BY <1>1, <1>2, <1>3, <1>4, <1>5, <1>6, <1>7 DEF Next

(* A row leaves the store only when a turn has answered for its event, it    *)
(* was folded into a held tick, or its removal was asked for.                *)
THEOREM RowsLeaveDone == Spec => RowsLeaveWhenDone
<1>1. Init => Typed /\ DoneInv
  BY TypedInit, DoneInit
<1>2. (Typed /\ DoneInv) /\ [Next]_vars => (Typed /\ DoneInv)'
  BY TypedStep, DoneStep
<1> QED
  BY <1>1, <1>2, RowsLeave, PTL DEF Spec, RowsLeaveWhenDone

-----------------------------------------------------------------------------
LEMMA OpenStep == NeverPushedClosed /\ [Next]_vars => NeverPushedClosed'
<1> SUFFICES ASSUME ~pushedClosed, [Next]_vars PROVE ~pushedClosed'
  BY DEF NeverPushedClosed
<1> USE DEF inboxVars
<1>1. ASSUME NEW e, NEW jumps, Push(e, jumps), ~Closed PROVE ~pushedClosed'
  BY <1>1 DEF Push
<1>2. CASE Admit
  BY <1>1, <1>2 DEF Admit, PostFolded, PostRowFolded, Post, PostPersisted, PostClosed,
     Enqueue
<1>3. CASE StoreStep
  BY <1>1, <1>3 DEF StoreStep, WriteEnds, Persisted, PersistRefused, Enqueue
<1>4. CASE Pump
  BY <1>4 DEF Pump, PumpNext, PumpRelease, Releasing, PumpShortCircuit, PumpCheck,
     PumpRecovered, PumpStartTurn, TurnAnswered, TurnHitsLimit, TurnFails, TurnEnds,
     SettleHeld, SettleForget, Forget
<1>5. CASE RateLimited \/ LimitAges
  BY <1>5 DEF RateLimited, LimitAges
<1>6. CASE Restoring \/ RestoreBody
  BY <1>1, <1>6 DEF Restoring, ClaimPending, ClaimAbandoned, RegisterRepresentatives,
     RestoreLoop, RestoreBody, RestoreRecord, RestoreEnds, Enqueue
<1>7. CASE Request
  BY <1>7 DEF Request, RemoveRow, StopDelivery, Withdraw, WithdrawRemoves
<1>8. CASE Stop
  BY <1>1, <1>8 DEF Stop, Closed
<1>9. CASE Close \/ Restart \/ UNCHANGED vars
  BY <1>9 DEF Close, Restart, vars
<1> QED
  BY <1>2, <1>3, <1>4, <1>5, <1>6, <1>7, <1>8, <1>9 DEF Next

(* push and unshift are never called on a closed inbox.                      *)
THEOREM ClosedIsNotPushed == Spec => []NeverPushedClosed
<1>1. Init => NeverPushedClosed
  BY DEF Init, NeverPushedClosed
<1> QED
  BY <1>1, OpenStep, PTL DEF Spec
=============================================================================
