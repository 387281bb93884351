------------------------ MODULE AnswerDeliveryProofs ------------------------
(***************************************************************************)
(* Proofs about AnswerDelivery, for any number of approvals, restarts and  *)
(* faults: an answer grants its permission once, is read once per life of  *)
(* the process and keeps its consent; it is never left with nothing        *)
(* durable as long as the writes that say so succeed and a turn that fails *)
(* holds the last copy of its answer.                                      *)
(***************************************************************************)
EXTENDS AnswerDelivery, TLAPS

USE AnswerAssumption
USE DEF durableVars, inboxVars, pumpVars, restoreVars, historyVars, Goto, Fails, Works

(* The part of the type invariant that does not count copies.                *)
Typed ==
  /\ approval \in [Approvals -> {"open", "answered", "withdrawn"}]
  /\ delivery \in [Approvals -> {"none", "pending", "delivered"}]
  /\ consented \subseteq Approvals /\ grants \in [Approvals -> Nat] /\ rows \subseteq Approvals
  /\ call \in [Approvals -> {"idle", "grant", "put", "mark", "post"}]
  /\ writing \subseteq Approvals /\ queued \in [Approvals -> Nat] /\ held \in [Approvals -> Nat]
  /\ handled \subseteq Approvals
  /\ pc \in {"next", "mark", "turn", "reopen", "forget"}
  /\ turn \in Approvals \cup {None} /\ (turn = None <=> pc = "next")
  /\ claimed \subseteq Approvals /\ todo \subseteq Approvals
  /\ restore \in {"claim", "queue", "list", "grant", "put", "mark", "post", "done"}
  /\ IF restore \in {"grant", "put", "mark", "post"} THEN cur \in todo ELSE cur = None
  /\ life \in Nat /\ answeredIn \in [Approvals -> Nat]

LEMMA TypedInit == Init => Typed
  BY DEF Init, Typed

LEMMA TypedStep == Typed /\ [Next]_vars => Typed'
<1> SUFFICES ASSUME Typed, [Next]_vars PROVE Typed'
  OBVIOUS
<1> USE DEF Typed
<1>1. ASSUME NEW a \in Approvals, Answer(a) PROVE Typed'
  BY <1>1 DEF Answer
<1>2. ASSUME NEW a \in Approvals, Withdraw(a) PROVE Typed'
  BY <1>2 DEF Withdraw
<1>3. ASSUME NEW a \in Approvals, Grant(a) PROVE Typed'
  BY <1>3 DEF Grant, RecordGrant
<1>4. ASSUME NEW a \in Approvals, Put(a) PROVE Typed'
  BY <1>4 DEF Put
<1>5. ASSUME NEW a \in Approvals, Mark(a) PROVE Typed'
  BY <1>5 DEF Mark, MarkDelivered
<1>6. ASSUME NEW a \in Approvals, Post(a) PROVE Typed'
  BY <1>6 DEF Post, PostEvent
<1>7. ASSUME NEW a \in Approvals, WriteEnds(a) PROVE Typed'
  BY <1>7 DEF WriteEnds
<1>8. ASSUME NEW a \in Approvals, Take(a) PROVE Typed'
  BY <1>8 DEF Take, Taken
<1>9. ASSUME NEW a \in Approvals, Hold(a) PROVE Typed'
  BY <1>9 DEF Hold
<1>10. ASSUME Release PROVE Typed'
  BY <1>10 DEF Release
<1>11. ASSUME LimitCloses PROVE Typed'
  BY <1>11 DEF LimitCloses
<1>12. ASSUME MarkOnHandle PROVE Typed'
  BY <1>12 DEF MarkOnHandle, MarkDelivered
<1>13. ASSUME TurnAnswered PROVE Typed'
  BY <1>13 DEF TurnAnswered
<1>14. ASSUME TurnHeld PROVE Typed'
  BY <1>14 DEF TurnHeld
<1>15. ASSUME TurnFailed PROVE Typed'
  BY <1>15 DEF TurnFailed
<1>16. ASSUME Reopen PROVE Typed'
  BY <1>16 DEF Reopen, Reopened
<1>17. ASSUME Forget PROVE Typed'
  BY <1>17 DEF Forget
<1>18. ASSUME Claim PROVE Typed'
  BY <1>18 DEF Claim
<1>19. ASSUME QueueClaimed PROVE Typed'
  BY <1>19 DEF QueueClaimed
<1>20. ASSUME ListUndelivered PROVE Typed'
  BY <1>20 DEF ListUndelivered, Undelivered
<1>21. ASSUME ReconcileGrant PROVE Typed'
  BY <1>21 DEF ReconcileGrant, GrantMissing, RecordGrant
<1>22. ASSUME ReconcilePut PROVE Typed'
  BY <1>22 DEF ReconcilePut, NextUndelivered
<1>23. ASSUME ReconcileMark PROVE Typed'
  BY <1>23 DEF ReconcileMark, MarkDelivered, NextUndelivered
<1>24. ASSUME ReconcilePost PROVE Typed'
  BY <1>24 DEF ReconcilePost, PostEvent, NextUndelivered
<1>25. ASSUME Crash PROVE Typed'
  BY <1>25 DEF Crash
<1>26. CASE UNCHANGED vars
  BY <1>26 DEF vars
<1> QED
  BY <1>1, <1>2, <1>3, <1>4, <1>5, <1>6, <1>7, <1>8, <1>9, <1>10, <1>11, <1>12, <1>13,
     <1>14, <1>15, <1>16, <1>17, <1>18, <1>19, <1>20, <1>21, <1>22, <1>23, <1>24, <1>25,
     <1>26 DEF Next, AnswerCall, Pump, Restoring

-----------------------------------------------------------------------------
(* One grant.  An answer is granted by answerApproval in the life that took  *)
(* it, or by the reconciliation of a later one, which looks first.           *)

Ours(a) ==
  /\ answeredIn[a] <= life
  /\ call[a] # "idle" => answeredIn[a] = life
  /\ a \in todo => answeredIn[a] < life

Ungiven(a) ==
  /\ approval[a] = "open" => grants[a] = 0 /\ call[a] = "idle" /\ a \notin todo
  /\ call[a] = "grant" => grants[a] = 0
  /\ grants[a] <= 1

GrantInv == \A a \in Approvals : Ours(a) /\ Ungiven(a)

LEMMA GrantInit == Init => GrantInv
  BY DEF Init, GrantInv, Ours, Ungiven

LEMMA GrantStep == Typed /\ GrantInv /\ [Next]_vars => GrantInv'
<1> SUFFICES ASSUME Typed, GrantInv, [Next]_vars PROVE GrantInv'
  OBVIOUS
<1> USE DEF Typed, GrantInv, Ours, Ungiven
<1>1. ASSUME NEW a \in Approvals, Answer(a) PROVE GrantInv'
  BY <1>1 DEF Answer
<1>2. ASSUME NEW a \in Approvals, Withdraw(a) PROVE GrantInv'
  BY <1>2 DEF Withdraw
<1>3. ASSUME NEW a \in Approvals, Grant(a) PROVE GrantInv'
  BY <1>3 DEF Grant, RecordGrant
<1>4. ASSUME NEW a \in Approvals, Put(a) PROVE GrantInv'
  BY <1>4 DEF Put
<1>5. ASSUME NEW a \in Approvals, Mark(a) PROVE GrantInv'
  BY <1>5 DEF Mark, MarkDelivered
<1>6. ASSUME NEW a \in Approvals, Post(a) PROVE GrantInv'
  BY <1>6 DEF Post, PostEvent
<1>7. ASSUME NEW a \in Approvals, WriteEnds(a) PROVE GrantInv'
  BY <1>7 DEF WriteEnds
<1>8. ASSUME NEW a \in Approvals, Take(a) PROVE GrantInv'
  BY <1>8 DEF Take, Taken
<1>9. ASSUME NEW a \in Approvals, Hold(a) PROVE GrantInv'
  BY <1>9 DEF Hold
<1>10. ASSUME Release PROVE GrantInv'
  BY <1>10 DEF Release
<1>11. ASSUME LimitCloses PROVE GrantInv'
  BY <1>11 DEF LimitCloses
<1>12. ASSUME MarkOnHandle PROVE GrantInv'
  BY <1>12 DEF MarkOnHandle, MarkDelivered
<1>13. ASSUME TurnAnswered PROVE GrantInv'
  BY <1>13 DEF TurnAnswered
<1>14. ASSUME TurnHeld PROVE GrantInv'
  BY <1>14 DEF TurnHeld
<1>15. ASSUME TurnFailed PROVE GrantInv'
  BY <1>15 DEF TurnFailed
<1>16. ASSUME Reopen PROVE GrantInv'
  BY <1>16 DEF Reopen, Reopened
<1>17. ASSUME Forget PROVE GrantInv'
  BY <1>17 DEF Forget
<1>18. ASSUME Claim PROVE GrantInv'
  BY <1>18 DEF Claim
<1>19. ASSUME QueueClaimed PROVE GrantInv'
  BY <1>19 DEF QueueClaimed
<1>20. ASSUME ListUndelivered PROVE GrantInv'
  BY <1>20 DEF ListUndelivered, Undelivered
<1>21. ASSUME ReconcileGrant PROVE GrantInv'
  BY <1>21 DEF ReconcileGrant, GrantMissing, RecordGrant
<1>22. ASSUME ReconcilePut PROVE GrantInv'
  BY <1>22 DEF ReconcilePut, NextUndelivered
<1>23. ASSUME ReconcileMark PROVE GrantInv'
  BY <1>23 DEF ReconcileMark, MarkDelivered, NextUndelivered
<1>24. ASSUME ReconcilePost PROVE GrantInv'
  BY <1>24 DEF ReconcilePost, PostEvent, NextUndelivered
<1>25. ASSUME Crash PROVE GrantInv'
  BY <1>25 DEF Crash
<1>26. CASE UNCHANGED vars
  BY <1>26 DEF vars
<1> QED
  BY <1>1, <1>2, <1>3, <1>4, <1>5, <1>6, <1>7, <1>8, <1>9, <1>10, <1>11, <1>12, <1>13,
     <1>14, <1>15, <1>16, <1>17, <1>18, <1>19, <1>20, <1>21, <1>22, <1>23, <1>24, <1>25,
     <1>26 DEF Next, AnswerCall, Pump, Restoring

(* No answer grants its permission twice, whatever fails and whenever the    *)
(* process dies.                                                             *)
THEOREM GrantsAreSingle == Spec => []OneGrant
<1>1. GrantInv => OneGrant
  BY DEF GrantInv, Ungiven, OneGrant
<1> QED
  BY <1>1, TypedInit, TypedStep, GrantInit, GrantStep, PTL DEF Spec

-----------------------------------------------------------------------------
(* One reading per life.  What is handled is what this life has answered     *)
(* for, and the answer of the turn that runs.                                *)

HandledInv ==
  /\ concludedNow \subseteq handled /\ concludedNow \subseteq concluded
  /\ pc \in {"mark", "turn"} => turn \in handled \ concludedNow
  /\ \A a \in handled \ concludedNow : pc \in {"mark", "turn"} /\ turn = a

LEMMA HandledInit == Init => HandledInv
  BY DEF Init, HandledInv

LEMMA HandledStep == Typed /\ HandledInv /\ [Next]_vars => HandledInv'
<1> SUFFICES ASSUME Typed, HandledInv, [Next]_vars PROVE HandledInv'
  OBVIOUS
<1> USE DEF Typed, HandledInv
<1>1. ASSUME NEW a \in Approvals, Answer(a) PROVE HandledInv'
  BY <1>1 DEF Answer
<1>2. ASSUME NEW a \in Approvals, Withdraw(a) PROVE HandledInv'
  BY <1>2 DEF Withdraw
<1>3. ASSUME NEW a \in Approvals, Grant(a) PROVE HandledInv'
  BY <1>3 DEF Grant, RecordGrant
<1>4. ASSUME NEW a \in Approvals, Put(a) PROVE HandledInv'
  BY <1>4 DEF Put
<1>5. ASSUME NEW a \in Approvals, Mark(a) PROVE HandledInv'
  BY <1>5 DEF Mark, MarkDelivered
<1>6. ASSUME NEW a \in Approvals, Post(a) PROVE HandledInv'
  BY <1>6 DEF Post, PostEvent
<1>7. ASSUME NEW a \in Approvals, WriteEnds(a) PROVE HandledInv'
  BY <1>7 DEF WriteEnds
<1>8. ASSUME NEW a \in Approvals, Take(a) PROVE HandledInv'
  BY <1>8 DEF Take, Taken
<1>9. ASSUME NEW a \in Approvals, Hold(a) PROVE HandledInv'
  BY <1>9 DEF Hold
<1>10. ASSUME Release PROVE HandledInv'
  BY <1>10 DEF Release
<1>11. ASSUME LimitCloses PROVE HandledInv'
  BY <1>11 DEF LimitCloses
<1>12. ASSUME MarkOnHandle PROVE HandledInv'
  BY <1>12 DEF MarkOnHandle, MarkDelivered
<1>13. ASSUME TurnAnswered PROVE HandledInv'
  BY <1>13 DEF TurnAnswered
<1>14. ASSUME TurnHeld PROVE HandledInv'
  BY <1>14 DEF TurnHeld
<1>15. ASSUME TurnFailed PROVE HandledInv'
  BY <1>15 DEF TurnFailed
<1>16. ASSUME Reopen PROVE HandledInv'
  BY <1>16 DEF Reopen, Reopened
<1>17. ASSUME Forget PROVE HandledInv'
  BY <1>17 DEF Forget
<1>18. ASSUME Claim PROVE HandledInv'
  BY <1>18 DEF Claim
<1>19. ASSUME QueueClaimed PROVE HandledInv'
  BY <1>19 DEF QueueClaimed
<1>20. ASSUME ListUndelivered PROVE HandledInv'
  BY <1>20 DEF ListUndelivered, Undelivered
<1>21. ASSUME ReconcileGrant PROVE HandledInv'
  BY <1>21 DEF ReconcileGrant, GrantMissing, RecordGrant
<1>22. ASSUME ReconcilePut PROVE HandledInv'
  BY <1>22 DEF ReconcilePut, NextUndelivered
<1>23. ASSUME ReconcileMark PROVE HandledInv'
  BY <1>23 DEF ReconcileMark, MarkDelivered, NextUndelivered
<1>24. ASSUME ReconcilePost PROVE HandledInv'
  BY <1>24 DEF ReconcilePost, PostEvent, NextUndelivered
<1>25. ASSUME Crash PROVE HandledInv'
  BY <1>25 DEF Crash
<1>26. CASE UNCHANGED vars
  BY <1>26 DEF vars
<1> QED
  BY <1>1, <1>2, <1>3, <1>4, <1>5, <1>6, <1>7, <1>8, <1>9, <1>10, <1>11, <1>12, <1>13,
     <1>14, <1>15, <1>16, <1>17, <1>18, <1>19, <1>20, <1>21, <1>22, <1>23, <1>24, <1>25,
     <1>26 DEF Next, AnswerCall, Pump, Restoring

(* No copy of an answer is read again in the life that has answered for it.  *)
THEOREM AnswersAreReadOnce == Spec => []ReadOncePerLife
<1>1. HandledInv => ReadOncePerLife
  BY DEF HandledInv, ReadOncePerLife
<1> QED
  BY <1>1, TypedInit, TypedStep, HandledInit, HandledStep, PTL DEF Spec

-----------------------------------------------------------------------------
(* Consent.  Whatever has come past the grant, in answerApproval or in the   *)
(* reconciliation, has it, or the failure was reported.                      *)

PastGrant(a) ==
  \/ a \in rows \/ a \in writing \/ a \in claimed \/ queued[a] > 0 \/ held[a] > 0 \/ turn = a
  \/ call[a] \in {"put", "mark", "post"} \/ delivery[a] = "delivered"
  \/ cur = a /\ restore \in {"put", "mark", "post"}

Granted(a) == a \in consented => grants[a] > 0 \/ a \in refused

ConsentInv ==
  \A a \in Approvals :
    /\ PastGrant(a) => approval[a] = "answered" /\ Granted(a)
    /\ call[a] # "idle" \/ a \in todo => approval[a] = "answered"

LEMMA ConsentInit == Init => ConsentInv
  BY DEF Init, ConsentInv, PastGrant, Typed

LEMMA ConsentStep == Typed /\ ConsentInv /\ [Next]_vars => ConsentInv'
<1> SUFFICES ASSUME Typed, ConsentInv, [Next]_vars PROVE ConsentInv'
  OBVIOUS
<1> USE DEF Typed, ConsentInv, PastGrant, Granted
<1>1. ASSUME NEW a \in Approvals, Answer(a) PROVE ConsentInv'
  BY <1>1 DEF Answer
<1>2. ASSUME NEW a \in Approvals, Withdraw(a) PROVE ConsentInv'
  BY <1>2 DEF Withdraw
<1>3. ASSUME NEW a \in Approvals, Grant(a) PROVE ConsentInv'
  BY <1>3 DEF Grant, RecordGrant
<1>4. ASSUME NEW a \in Approvals, Put(a) PROVE ConsentInv'
  BY <1>4 DEF Put
<1>5. ASSUME NEW a \in Approvals, Mark(a) PROVE ConsentInv'
  BY <1>5 DEF Mark, MarkDelivered
<1>6. ASSUME NEW a \in Approvals, Post(a) PROVE ConsentInv'
  BY <1>6 DEF Post, PostEvent
<1>7. ASSUME NEW a \in Approvals, WriteEnds(a) PROVE ConsentInv'
  BY <1>7 DEF WriteEnds
<1>8. ASSUME NEW a \in Approvals, Take(a) PROVE ConsentInv'
  BY <1>8 DEF Take, Taken
<1>9. ASSUME NEW a \in Approvals, Hold(a) PROVE ConsentInv'
  BY <1>9 DEF Hold
<1>10. ASSUME Release PROVE ConsentInv'
  BY <1>10 DEF Release
<1>11. ASSUME LimitCloses PROVE ConsentInv'
  BY <1>11 DEF LimitCloses
<1>12. ASSUME MarkOnHandle PROVE ConsentInv'
  BY <1>12 DEF MarkOnHandle, MarkDelivered
<1>13. ASSUME TurnAnswered PROVE ConsentInv'
  BY <1>13 DEF TurnAnswered
<1>14. ASSUME TurnHeld PROVE ConsentInv'
  BY <1>14 DEF TurnHeld
<1>15. ASSUME TurnFailed PROVE ConsentInv'
  BY <1>15 DEF TurnFailed
<1>16. ASSUME Reopen PROVE ConsentInv'
  BY <1>16 DEF Reopen, Reopened
<1>17. ASSUME Forget PROVE ConsentInv'
  BY <1>17 DEF Forget
<1>18. ASSUME Claim PROVE ConsentInv'
  BY <1>18 DEF Claim
<1>19. ASSUME QueueClaimed PROVE ConsentInv'
  BY <1>19 DEF QueueClaimed
<1>20. ASSUME ListUndelivered PROVE ConsentInv'
  BY <1>20 DEF ListUndelivered, Undelivered
<1>21. ASSUME ReconcileGrant PROVE ConsentInv'
  BY <1>21 DEF ReconcileGrant, GrantMissing, RecordGrant
<1>22. ASSUME ReconcilePut PROVE ConsentInv'
  BY <1>22 DEF ReconcilePut, NextUndelivered
<1>23. ASSUME ReconcileMark PROVE ConsentInv'
  BY <1>23 DEF ReconcileMark, MarkDelivered, NextUndelivered
<1>24. ASSUME ReconcilePost PROVE ConsentInv'
  BY <1>24 DEF ReconcilePost, PostEvent, NextUndelivered
<1>25. ASSUME Crash PROVE ConsentInv'
  BY <1>25 DEF Crash
<1>26. CASE UNCHANGED vars
  BY <1>26 DEF vars
<1> QED
  BY <1>1, <1>2, <1>3, <1>4, <1>5, <1>6, <1>7, <1>8, <1>9, <1>10, <1>11, <1>12, <1>13,
     <1>14, <1>15, <1>16, <1>17, <1>18, <1>19, <1>20, <1>21, <1>22, <1>23, <1>24, <1>25,
     <1>26 DEF Next, AnswerCall, Pump, Restoring

(* An answer marked delivered has its grant, or the failure was reported,    *)
(* wherever the process died and whatever failed.                            *)
THEOREM ConsentsAreKept == Spec => []ConsentIsKept
<1>1. Typed /\ ConsentInv => ConsentIsKept
  BY DEF Typed, ConsentInv, PastGrant, Granted, ConsentIsKept
<1> QED
  BY <1>1, TypedInit, TypedStep, ConsentInit, ConsentStep, PTL DEF Spec

-----------------------------------------------------------------------------
(* At least once.  The assumption is needed: after a put that fails the turn *)
(* marks its answer delivered while the row is not written, and a turn may   *)
(* fail only when nothing else is about to mark its answer (answer_race).    *)

Careful == "put" \notin Faulty /\ "reopen" \notin Faulty /\ TurnsFail # "posted"

(* The answer is stored, or need not be any more.                            *)
Known(a) == a \in rows \/ a \in concluded

CopiesKnown ==
  \A a \in Approvals :
    queued[a] > 0 \/ held[a] > 0 \/ call[a] \in {"mark", "post"} => Known(a)

RestoredKnown ==
  /\ restore # "done" => \A a \in claimed : Known(a)
  /\ restore \in {"mark", "post"} => Known(cur)

TurnKnown == pc \in {"mark", "turn"} => Known(turn)

(* An answer whose turn has failed is nowhere else, and pending once it has  *)
(* been reopened: its row may go.                                            *)
FailedAlone ==
  pc \in {"reopen", "forget"} /\ turn \notin concluded =>
    /\ restore = "done" /\ call[turn] = "idle" /\ queued[turn] = 0 /\ held[turn] = 0
    /\ pc = "forget" => delivery[turn] # "delivered"

Marked == \A a \in Approvals : approval[a] = "answered" => delivery[a] # "none"

KeptInv == AnswerIsKept /\ CopiesKnown /\ RestoredKnown /\ TurnKnown /\ FailedAlone /\ Marked

LEMMA KeptInit == Init => KeptInv
  BY DEF Init, KeptInv, AnswerIsKept, CopiesKnown, RestoredKnown, TurnKnown, FailedAlone, Marked

LEMMA KeptStep ==
  Careful /\ Typed /\ HandledInv /\ ConsentInv /\ KeptInv /\ [Next]_vars => KeptInv'
<1> SUFFICES ASSUME Careful, Typed, HandledInv, ConsentInv, KeptInv, [Next]_vars PROVE KeptInv'
  OBVIOUS
<1> USE DEF Careful, Typed, KeptInv, AnswerIsKept, CopiesKnown, RestoredKnown, TurnKnown,
            FailedAlone, Marked, Known
<1>1. ASSUME NEW a \in Approvals, Answer(a) PROVE KeptInv'
  BY <1>1 DEF Answer, ConsentInv, PastGrant
<1>2. ASSUME NEW a \in Approvals, Withdraw(a) PROVE KeptInv'
  BY <1>2 DEF Withdraw
<1>3. ASSUME NEW a \in Approvals, Grant(a) PROVE KeptInv'
  BY <1>3 DEF Grant, RecordGrant
<1>4. ASSUME NEW a \in Approvals, Put(a) PROVE KeptInv'
  BY <1>4 DEF Put
<1>5. ASSUME NEW a \in Approvals, Mark(a) PROVE KeptInv'
  BY <1>5 DEF Mark, MarkDelivered
<1>6. ASSUME NEW a \in Approvals, Post(a) PROVE KeptInv'
  BY <1>6 DEF Post, PostEvent
<1>7. ASSUME NEW a \in Approvals, WriteEnds(a) PROVE KeptInv'
  BY <1>7 DEF WriteEnds
<1>8. ASSUME NEW a \in Approvals, Take(a) PROVE KeptInv'
  BY <1>8 DEF Take, Taken, HandledInv
<1>9. ASSUME NEW a \in Approvals, Hold(a) PROVE KeptInv'
  BY <1>9 DEF Hold
<1>10. ASSUME Release PROVE KeptInv'
  BY <1>10 DEF Release
<1>11. ASSUME LimitCloses PROVE KeptInv'
  BY <1>11 DEF LimitCloses
<1>12. ASSUME MarkOnHandle PROVE KeptInv'
  BY <1>12 DEF MarkOnHandle, MarkDelivered
<1>13. ASSUME TurnAnswered PROVE KeptInv'
  BY <1>13 DEF TurnAnswered
<1>14. ASSUME TurnHeld PROVE KeptInv'
  BY <1>14 DEF TurnHeld
<1>15. ASSUME TurnFailed PROVE KeptInv'
  BY <1>15 DEF TurnFailed
<1>16. ASSUME Reopen PROVE KeptInv'
  BY <1>16 DEF Reopen, Reopened
<1>17. ASSUME Forget PROVE KeptInv'
  BY <1>17 DEF Forget
<1>18. ASSUME Claim PROVE KeptInv'
  BY <1>18 DEF Claim
<1>19. ASSUME QueueClaimed PROVE KeptInv'
  BY <1>19 DEF QueueClaimed
<1>20. ASSUME ListUndelivered PROVE KeptInv'
  BY <1>20 DEF ListUndelivered, Undelivered
<1>21. ASSUME ReconcileGrant PROVE KeptInv'
  BY <1>21 DEF ReconcileGrant, GrantMissing, RecordGrant
<1>22. ASSUME ReconcilePut PROVE KeptInv'
  BY <1>22 DEF ReconcilePut, NextUndelivered
<1>23. ASSUME ReconcileMark PROVE KeptInv'
  BY <1>23 DEF ReconcileMark, MarkDelivered, NextUndelivered
<1>24. ASSUME ReconcilePost PROVE KeptInv'
  BY <1>24 DEF ReconcilePost, PostEvent, NextUndelivered
<1>25. ASSUME Crash PROVE KeptInv'
  BY <1>25 DEF Crash
<1>26. CASE UNCHANGED vars
  BY <1>26 DEF vars
<1> QED
  BY <1>1, <1>2, <1>3, <1>4, <1>5, <1>6, <1>7, <1>8, <1>9, <1>10, <1>11, <1>12, <1>13,
     <1>14, <1>15, <1>16, <1>17, <1>18, <1>19, <1>20, <1>21, <1>22, <1>23, <1>24, <1>25,
     <1>26 DEF Next, AnswerCall, Pump, Restoring

(* No answer is ever left with nothing durable.                              *)
THEOREM AnswersAreKept == Careful /\ Spec => []AnswerIsKept
<1> SUFFICES ASSUME Careful PROVE Spec => []AnswerIsKept
  OBVIOUS
<1> DEFINE Inv == Typed /\ HandledInv /\ ConsentInv /\ KeptInv
<1>1. Init => Inv
  BY TypedInit, HandledInit, ConsentInit, KeptInit
<1>2. Inv /\ [Next]_vars => Inv'
  BY TypedStep, HandledStep, ConsentStep, KeptStep
<1>3. Inv => AnswerIsKept
  BY DEF KeptInv
<1> QED
  BY <1>1, <1>2, <1>3, PTL DEF Spec

-----------------------------------------------------------------------------
(* The copies.  In one life answerApproval posts an answer at most once, and *)
(* the restore pass queues it at most once: from its row, or, when it had no *)
(* row to claim, by the reconciliation.                                      *)

One(b) == IF b THEN 1 ELSE 0

Waiting(a) == queued[a] + held[a] + One(turn = a)

\* what answerApproval and the restore pass may yet post
ToCall(a) == One(approval[a] = "open" \/ call[a] # "idle")

ToRestore(a) ==
  One(\/ restore \in {"claim", "queue"}
      \/ restore = "list" /\ a \notin claimed
      \/ restore \in {"grant", "put", "mark", "post"} /\ a \in todo \ claimed)

CopiesInv ==
  /\ \A a \in Approvals : Waiting(a) + ToCall(a) + ToRestore(a) <= 2
  /\ restore \in {"put", "post"} => cur \notin claimed

\* the rest of the type invariant
Bounded ==
  /\ blocked \in BOOLEAN /\ posted \subseteq Approvals /\ life <= MaxRestarts
  /\ faults \in 0..MaxFaults /\ refused \subseteq Approvals
  /\ concluded \subseteq Approvals /\ failedNow \subseteq Approvals

LEMMA CopiesInit == Init => CopiesInv /\ Bounded
<1> SUFFICES ASSUME Init PROVE CopiesInv /\ Bounded
  OBVIOUS
<1>1. Bounded
  <2>1. MaxRestarts \in Nat /\ MaxFaults \in Nat
    OBVIOUS
  <2>2. life <= MaxRestarts /\ faults \in 0..MaxFaults
    BY <2>1 DEF Init
  <2>3. /\ blocked \in BOOLEAN /\ posted \subseteq Approvals /\ refused \subseteq Approvals
        /\ concluded \subseteq Approvals /\ failedNow \subseteq Approvals
    BY DEF Init
  <2> QED
    BY <2>2, <2>3 DEF Bounded
<1>2. CopiesInv
  <2>1. ASSUME NEW a \in Approvals PROVE Waiting(a) = 0 /\ ToCall(a) = 1 /\ ToRestore(a) = 1
    BY DEF Init, Waiting, ToCall, ToRestore, One
  <2> QED
    BY <2>1 DEF Init, CopiesInv
<1> QED
  BY <1>1, <1>2

LEMMA BoundedStep == Typed /\ Bounded /\ [Next]_vars => Bounded'
<1> SUFFICES ASSUME Typed, Bounded, [Next]_vars PROVE Bounded'
  OBVIOUS
<1> USE DEF Typed, Bounded
<1>1. ASSUME NEW a \in Approvals, Answer(a) PROVE Bounded'
  BY <1>1 DEF Answer
<1>2. ASSUME NEW a \in Approvals, Withdraw(a) PROVE Bounded'
  BY <1>2 DEF Withdraw
<1>3. ASSUME NEW a \in Approvals, Grant(a) PROVE Bounded'
  BY <1>3 DEF Grant, RecordGrant
<1>4. ASSUME NEW a \in Approvals, Put(a) PROVE Bounded'
  BY <1>4 DEF Put
<1>5. ASSUME NEW a \in Approvals, Mark(a) PROVE Bounded'
  BY <1>5 DEF Mark, MarkDelivered
<1>6. ASSUME NEW a \in Approvals, Post(a) PROVE Bounded'
  BY <1>6 DEF Post, PostEvent
<1>7. ASSUME NEW a \in Approvals, WriteEnds(a) PROVE Bounded'
  BY <1>7 DEF WriteEnds
<1>8. ASSUME NEW a \in Approvals, Take(a) PROVE Bounded'
  BY <1>8 DEF Take, Taken
<1>9. ASSUME NEW a \in Approvals, Hold(a) PROVE Bounded'
  BY <1>9 DEF Hold
<1>10. ASSUME Release PROVE Bounded'
  BY <1>10 DEF Release
<1>11. ASSUME LimitCloses PROVE Bounded'
  BY <1>11 DEF LimitCloses
<1>12. ASSUME MarkOnHandle PROVE Bounded'
  BY <1>12 DEF MarkOnHandle, MarkDelivered
<1>13. ASSUME TurnAnswered PROVE Bounded'
  BY <1>13 DEF TurnAnswered
<1>14. ASSUME TurnHeld PROVE Bounded'
  BY <1>14 DEF TurnHeld
<1>15. ASSUME TurnFailed PROVE Bounded'
  BY <1>15 DEF TurnFailed
<1>16. ASSUME Reopen PROVE Bounded'
  BY <1>16 DEF Reopen, Reopened
<1>17. ASSUME Forget PROVE Bounded'
  BY <1>17 DEF Forget
<1>18. ASSUME Claim PROVE Bounded'
  BY <1>18 DEF Claim
<1>19. ASSUME QueueClaimed PROVE Bounded'
  BY <1>19 DEF QueueClaimed
<1>20. ASSUME ListUndelivered PROVE Bounded'
  BY <1>20 DEF ListUndelivered, Undelivered
<1>21. ASSUME ReconcileGrant PROVE Bounded'
  BY <1>21 DEF ReconcileGrant, GrantMissing, RecordGrant
<1>22. ASSUME ReconcilePut PROVE Bounded'
  BY <1>22 DEF ReconcilePut, NextUndelivered
<1>23. ASSUME ReconcileMark PROVE Bounded'
  BY <1>23 DEF ReconcileMark, MarkDelivered, NextUndelivered
<1>24. ASSUME ReconcilePost PROVE Bounded'
  BY <1>24 DEF ReconcilePost, PostEvent, NextUndelivered
<1>25. ASSUME Crash PROVE Bounded'
  <2>1. life' = life + 1 /\ life < MaxRestarts /\ life \in Nat /\ MaxRestarts \in Nat
    BY <1>25 DEF Crash
  <2>2. life' <= MaxRestarts
    BY <2>1
  <2> QED
    BY <1>25, <2>2 DEF Crash
<1>26. CASE UNCHANGED vars
  BY <1>26 DEF vars
<1> QED
  BY <1>1, <1>2, <1>3, <1>4, <1>5, <1>6, <1>7, <1>8, <1>9, <1>10, <1>11, <1>12, <1>13,
     <1>14, <1>15, <1>16, <1>17, <1>18, <1>19, <1>20, <1>21, <1>22, <1>23, <1>24, <1>25,
     <1>26 DEF Next, AnswerCall, Pump, Restoring

LEMMA CopiesStep ==
  Typed /\ ConsentInv /\ CopiesInv /\ [Next]_vars => CopiesInv'
<1> SUFFICES ASSUME Typed, ConsentInv, CopiesInv, [Next]_vars PROVE CopiesInv'
  OBVIOUS
<1> USE DEF Typed, CopiesInv, Waiting, ToCall, ToRestore, One
<1>1. ASSUME NEW a \in Approvals, Answer(a) PROVE CopiesInv'
  BY <1>1 DEF Answer
<1>2. ASSUME NEW a \in Approvals, Withdraw(a) PROVE CopiesInv'
  BY <1>2 DEF Withdraw
<1>3. ASSUME NEW a \in Approvals, Grant(a) PROVE CopiesInv'
  BY <1>3 DEF Grant, RecordGrant
<1>4. ASSUME NEW a \in Approvals, Put(a) PROVE CopiesInv'
  BY <1>4 DEF Put
<1>5. ASSUME NEW a \in Approvals, Mark(a) PROVE CopiesInv'
  BY <1>5 DEF Mark, MarkDelivered
<1>6. ASSUME NEW a \in Approvals, Post(a) PROVE CopiesInv'
  BY <1>6 DEF Post, PostEvent, ConsentInv
<1>7. ASSUME NEW a \in Approvals, WriteEnds(a) PROVE CopiesInv'
  BY <1>7 DEF WriteEnds
<1>8. ASSUME NEW a \in Approvals, Take(a) PROVE CopiesInv'
  BY <1>8 DEF Take, Taken
<1>9. ASSUME NEW a \in Approvals, Hold(a) PROVE CopiesInv'
  BY <1>9 DEF Hold
<1>10. ASSUME Release PROVE CopiesInv'
  BY <1>10 DEF Release
<1>11. ASSUME LimitCloses PROVE CopiesInv'
  BY <1>11 DEF LimitCloses
<1>12. ASSUME MarkOnHandle PROVE CopiesInv'
  BY <1>12 DEF MarkOnHandle, MarkDelivered
<1>13. ASSUME TurnAnswered PROVE CopiesInv'
  BY <1>13 DEF TurnAnswered
<1>14. ASSUME TurnHeld PROVE CopiesInv'
  BY <1>14 DEF TurnHeld
<1>15. ASSUME TurnFailed PROVE CopiesInv'
  BY <1>15 DEF TurnFailed
<1>16. ASSUME Reopen PROVE CopiesInv'
  BY <1>16 DEF Reopen, Reopened
<1>17. ASSUME Forget PROVE CopiesInv'
  BY <1>17 DEF Forget
<1>18. ASSUME Claim PROVE CopiesInv'
  BY <1>18 DEF Claim
<1>19. ASSUME QueueClaimed PROVE CopiesInv'
  BY <1>19 DEF QueueClaimed
<1>20. ASSUME ListUndelivered PROVE CopiesInv'
  BY <1>20 DEF ListUndelivered, Undelivered
<1>21. ASSUME ReconcileGrant PROVE CopiesInv'
  BY <1>21 DEF ReconcileGrant, GrantMissing, RecordGrant
<1>22. ASSUME ReconcilePut PROVE CopiesInv'
  BY <1>22 DEF ReconcilePut, NextUndelivered
<1>23. ASSUME ReconcileMark PROVE CopiesInv'
  BY <1>23 DEF ReconcileMark, MarkDelivered, NextUndelivered
<1>24. ASSUME ReconcilePost PROVE CopiesInv'
  BY <1>24 DEF ReconcilePost, PostEvent, NextUndelivered
<1>25. ASSUME Crash PROVE CopiesInv'
  BY <1>25 DEF Crash
<1>26. CASE UNCHANGED vars
  BY <1>26 DEF vars
<1> QED
  BY <1>1, <1>2, <1>3, <1>4, <1>5, <1>6, <1>7, <1>8, <1>9, <1>10, <1>11, <1>12, <1>13,
     <1>14, <1>15, <1>16, <1>17, <1>18, <1>19, <1>20, <1>21, <1>22, <1>23, <1>24, <1>25,
     <1>26 DEF Next, AnswerCall, Pump, Restoring

(* Every variable stays in its range: of an answer at most two copies wait   *)
(* or are held at once, whatever fails and however often the process starts  *)
(* again.                                                                    *)
THEOREM AnswerTypes == Spec => []TypeOK
<1> DEFINE Inv == Typed /\ GrantInv /\ HandledInv /\ ConsentInv /\ CopiesInv /\ Bounded
<1>1. Init => Inv
  BY TypedInit, GrantInit, HandledInit, ConsentInit, CopiesInit
<1>2. Inv /\ [Next]_vars => Inv'
  BY TypedStep, GrantStep, HandledStep, ConsentStep, CopiesStep, BoundedStep
<1>3. Inv => TypeOK
  <2> SUFFICES ASSUME Inv PROVE TypeOK
    OBVIOUS
  <2>1. queued \in [Approvals -> Copies] /\ held \in [Approvals -> Copies]
    <3>1. \A a \in Approvals : queued[a] \in Copies /\ held[a] \in Copies
      <4> TAKE a \in Approvals
      <4>1. queued[a] \in Nat /\ held[a] \in Nat
        BY DEF Typed
      <4>2. Waiting(a) + ToCall(a) + ToRestore(a) <= 2
        BY DEF CopiesInv
      <4>3. One(turn = a) \in Nat /\ ToCall(a) \in Nat /\ ToRestore(a) \in Nat
        BY DEF ToCall, ToRestore, One
      <4>4. queued[a] + held[a] <= 2
        <5>1. Waiting(a) = queued[a] + held[a] + One(turn = a)
          BY DEF Waiting
        <5> QED
          BY <4>1, <4>2, <4>3, <5>1
      <4>5. queued[a] \in 0..2 /\ held[a] \in 0..2
        BY <4>1, <4>4
      <4> QED
        BY <4>5 DEF Copies
    <3> QED
      BY <3>1 DEF Typed
  <2>2. grants \in [Approvals -> Copies]
    <3>1. \A a \in Approvals : grants[a] \in Copies
      BY DEF GrantInv, Ungiven, Typed, Copies
    <3> QED
      BY <3>1 DEF Typed
  <2>3. answeredIn \in [Approvals -> 0..MaxRestarts]
    <3>1. \A a \in Approvals : answeredIn[a] \in 0..MaxRestarts
      BY DEF GrantInv, Ours, Typed, Bounded
    <3> QED
      BY <3>1 DEF Typed
  <2>4. life \in 0..MaxRestarts /\ cur \in Approvals \cup {None} /\ concludedNow \subseteq concluded
    BY DEF Typed, Bounded, HandledInv
  <2> QED
    BY <2>1, <2>2, <2>3, <2>4 DEF TypeOK, Typed, Bounded
<1> QED
  BY <1>1, <1>2, <1>3, PTL DEF Spec
=============================================================================
