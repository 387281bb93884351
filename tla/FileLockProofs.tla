--------------------------- MODULE FileLockProofs ---------------------------
(***************************************************************************)
(* Proofs about FileLock: its type invariant, that the calls of a process  *)
(* take turns whatever fails, ages or crashes, and that sections exclude   *)
(* each other and lose no update as long as no lock grows stale under a    *)
(* running section, no system call fails (Calm) and one process at most    *)
(* reclaims what a crash has left (OneReclaimer).                          *)
(***************************************************************************)
EXTENDS FileLock, TLAPS

LEMMA TypeInit == Init => TypeOK
  BY LockAssumption DEF Init, TypeOK

LEMMA TypeStep == TypeOK /\ [Next]_vars => TypeOK'
<1> SUFFICES ASSUME TypeOK, [Next]_vars PROVE TypeOK'
  OBVIOUS
<1> USE LockAssumption DEF TypeOK, Lock, Goto, Inside, Settled, Holding, Running, Acquiring
<1>1. ASSUME NEW c \in Calls, Call(c) PROVE TypeOK'
  BY <1>1 DEF Call
<1>2. ASSUME NEW c \in Calls, PassDeadline(c) PROVE TypeOK'
  BY <1>2 DEF PassDeadline
<1>3. ASSUME NEW c \in Calls, Begin(c) PROVE TypeOK'
  BY <1>3 DEF Begin
<1>4. ASSUME NEW c \in Calls, TimeOut(c) PROVE TypeOK'
  BY <1>4 DEF TimeOut, Settle, DropChain
<1>5. ASSUME NEW c \in Calls, Open(c) PROVE TypeOK'
  BY <1>5 DEF Open
<1>6. ASSUME NEW c \in Calls, Exists(c) PROVE TypeOK'
  BY <1>6 DEF Exists
<1>7. ASSUME NEW c \in Calls, WritePayload(c) PROVE TypeOK'
  BY <1>7 DEF WritePayload, Mine
<1>8. ASSUME NEW c \in Calls, WriteFails(c) PROVE TypeOK'
  BY <1>8 DEF WriteFails, Settle, DropChain, Fault
<1>9. ASSUME NEW c \in Calls, Stat(c) \/ Restat(c) PROVE TypeOK'
  BY <1>9 DEF Stat, Restat, Look
<1>10. ASSUME NEW c \in Calls, Unlink(c) PROVE TypeOK'
  BY <1>10 DEF Unlink, Fault
<1>11. ASSUME NEW c \in Calls, Read(c) \/ Update(c) PROVE TypeOK'
  BY <1>11 DEF Read, Update
<1>12. ASSUME NEW c \in Calls, FnThrows(c) PROVE TypeOK'
  BY <1>12 DEF FnThrows, Fault
<1>13. ASSUME NEW c \in Calls, KeepOthers(c) PROVE TypeOK'
  BY <1>13 DEF KeepOthers, Settle, DropChain
<1>14. ASSUME NEW c \in Calls, Check(c) PROVE TypeOK'
  BY <1>14 DEF Check
<1>15. ASSUME NEW c \in Calls, Remove(c) PROVE TypeOK'
  BY <1>15 DEF Remove, Settle, DropChain, Fault
<1>16. CASE Age
  <2>1. faults' \in 0..MaxFaults
    BY <1>16 DEF Age, Fault
  <2>2. lock' \in Lock
    BY <1>16 DEF Age
  <2> QED
    BY <1>16, <2>1, <2>2 DEF Age
<1>17. ASSUME NEW p \in Procs, Crash(p) PROVE TypeOK'
  BY <1>17 DEF Crash
<1>18. CASE UNCHANGED vars
  BY <1>18 DEF vars
<1> QED
  BY <1>1, <1>2, <1>3, <1>4, <1>5, <1>6, <1>7, <1>8, <1>9, <1>10, <1>11, <1>12, <1>13,
     <1>14, <1>15, <1>16, <1>17, <1>18 DEF Next, Acquire, Section

(* The type invariant holds in every state of every instance.                *)
THEOREM LockTypeCorrect == Spec => []TypeOK
<1> QED
  BY TypeInit, TypeStep, PTL DEF Spec

-----------------------------------------------------------------------------
(* Calls of a process take turns.  The chain is a list: each call waits for  *)
(* the one called just before it among those still pending, `tail` is its    *)
(* last member, and only its first member waits for nobody.                  *)

CalledBefore == \A c \in Calls : pc[c] # "idle" => turn[c] < calls

Numbered ==
  \A c, d \in Calls : pc[c] # "idle" /\ pc[d] # "idle" /\ turn[c] = turn[d] => c = d

PriorPending ==
  \A d \in Calls : prior[d] # None =>
    /\ ProcOf[prior[d]] = ProcOf[d] /\ Pending(prior[d])
    /\ turn[prior[d]] < turn[d]

TailIsLast ==
  \A p \in Procs : tail[p] # None =>
    /\ ProcOf[tail[p]] = p /\ Pending(tail[p])
    /\ \A c \in Calls : ProcOf[c] = p /\ Pending(c) => turn[c] <= turn[tail[p]]

NoTailNoCall ==
  \A c \in Calls : tail[ProcOf[c]] = None => ~Pending(c)

FirstWaitsForNobody ==
  \A c, d \in Calls :
    ProcOf[c] = ProcOf[d] /\ c # d /\ Pending(c) /\ Pending(d) /\ prior[d] = None
      => turn[d] < turn[c]

NobodyBetween ==
  \A c, d \in Calls :
    ProcOf[c] = ProcOf[d] /\ prior[d] # None /\ Pending(c) /\ turn[c] < turn[d]
      => turn[c] <= turn[prior[d]]

Chain ==
  /\ CalledBefore /\ Numbered /\ PriorPending /\ TailIsLast
  /\ NoTailNoCall /\ FirstWaitsForNobody /\ NobodyBetween

LEMMA ChainInit == Init => Chain
  BY LockAssumption DEF Init, Chain, CalledBefore, Numbered, PriorPending, TailIsLast,
     NoTailNoCall, FirstWaitsForNobody, NobodyBetween, Pending, Settled

(* A step that neither makes nor settles a call leaves the chain alone.      *)
LEMMA ChainQuiet ==
  ASSUME Chain, UNCHANGED <<prior, tail, calls, turn>>,
         \A c \in Calls : (Pending(c))' = Pending(c) /\ (pc'[c] = "idle") = (pc[c] = "idle"),
         TypeOK
  PROVE  Chain'
<1> USE DEF TypeOK
<1>1. CalledBefore' /\ Numbered' /\ PriorPending' /\ TailIsLast'
  BY LockAssumption DEF Chain, CalledBefore, Numbered, PriorPending, TailIsLast
<1>2. NoTailNoCall' /\ FirstWaitsForNobody' /\ NobodyBetween'
  BY LockAssumption DEF Chain, NoTailNoCall, FirstWaitsForNobody, NobodyBetween
<1> QED
  BY <1>1, <1>2 DEF Chain

LEMMA ChainCall ==
  ASSUME TypeOK, Chain, NEW c \in Calls, Call(c)
  PROVE  Chain'
<1> DEFINE p == ProcOf[c]
<1>1. p \in Procs /\ calls \in Nat
  BY LockAssumption DEF TypeOK
<1>2. /\ pc[c] = "idle" /\ pc' = [pc EXCEPT ![c] = "queued"]
      /\ prior' = [prior EXCEPT ![c] = tail[p]] /\ tail' = [tail EXCEPT ![p] = c]
      /\ calls' = calls + 1 /\ turn' = [turn EXCEPT ![c] = calls]
  BY DEF Call, Goto
<1>3. \A d \in Calls : /\ (Pending(d))' <=> (d = c \/ Pending(d))
                       /\ d # c => turn'[d] = turn[d] /\ prior'[d] = prior[d]
                                   /\ pc'[d] = pc[d]
  BY <1>2 DEF TypeOK, Pending, Settled
<1>4. ~Pending(c) /\ pc'[c] = "queued" /\ turn'[c] = calls /\ prior'[c] = tail[p]
      /\ tail'[p] = c
  BY <1>1, <1>2 DEF TypeOK, Pending
<1>5. \A d \in Calls : Pending(d) => pc[d] # "idle"
  BY DEF Pending
<1> USE <1>1, <1>3, <1>4, <1>5
<1>6. CalledBefore'
  BY <1>2 DEF TypeOK, Chain, CalledBefore
<1>7. Numbered'
  BY <1>2 DEF TypeOK, Chain, CalledBefore, Numbered
<1>8. PriorPending'
  <2> SUFFICES ASSUME NEW d \in Calls, prior'[d] # None
               PROVE  /\ ProcOf[prior'[d]] = ProcOf[d] /\ (Pending(prior[d]))'
                      /\ turn'[prior'[d]] < turn'[d]
    BY DEF PriorPending
  <2> USE DEF Pending
  <2>1. CASE d = c
    <3>1. tail[p] \in Calls /\ ProcOf[tail[p]] = p /\ Pending(tail[p])
      BY <2>1 DEF TypeOK, Chain, TailIsLast
    <3> QED
      BY <2>1, <3>1 DEF TypeOK, Chain, CalledBefore
  <2>2. CASE d # c
    <3>1. prior[d] \in Calls /\ prior'[d] = prior[d]
      BY <2>2 DEF TypeOK
    <3> QED
      BY <2>2, <3>1 DEF Chain, PriorPending
  <2> QED
    BY <2>1, <2>2
<1>9. TailIsLast'
  <2> SUFFICES ASSUME NEW q \in Procs, tail'[q] # None
               PROVE  /\ ProcOf[tail'[q]] = q /\ (Pending(tail[q]))'
                      /\ \A d \in Calls : ProcOf[d] = q /\ (Pending(d))'
                                            => turn'[d] <= turn'[tail'[q]]
    BY DEF TailIsLast
  <2> USE DEF Pending
  <2>1. CASE q = p
    BY <2>1 DEF TypeOK, Chain, CalledBefore
  <2>2. CASE q # p
    <3>1. tail'[q] = tail[q] /\ tail[q] \in Calls
      BY <1>2, <2>2 DEF TypeOK
    <3> QED
      BY <2>2, <3>1 DEF Chain, TailIsLast
  <2> QED
    BY <2>1, <2>2
<1>10. NoTailNoCall'
  BY <1>2, LockAssumption DEF TypeOK, Chain, NoTailNoCall
<1>11. FirstWaitsForNobody'
  BY LockAssumption DEF TypeOK, Chain, FirstWaitsForNobody, CalledBefore, NoTailNoCall
<1>12. NobodyBetween'
  <2> SUFFICES ASSUME NEW e \in Calls, NEW d \in Calls, ProcOf[e] = ProcOf[d],
                      prior'[d] # None, (Pending(e))', turn'[e] < turn'[d]
               PROVE  turn'[e] <= turn'[prior'[d]]
    BY DEF NobodyBetween
  <2>1. CASE d = c
    <3>1. e # c /\ Pending(e)
      BY <2>1 DEF TypeOK
    <3>2. tail[p] \in Calls /\ tail[p] # c
      BY <2>1 DEF TypeOK, Chain, TailIsLast
    <3> QED
      BY <2>1, <3>1, <3>2 DEF Chain, TailIsLast
  <2>2. CASE d # c
    <3>1. prior[d] \in Calls /\ Pending(prior[d])
      BY <2>2 DEF TypeOK, Chain, PriorPending
    <3>2. pc[d] # "idle"
      BY <2>2 DEF TypeOK
    <3>3. e # c
      BY <2>2, <3>2 DEF TypeOK, Chain, CalledBefore
    <3> QED
      BY <2>2, <3>1, <3>3 DEF Chain, NobodyBetween
  <2> QED
    BY <2>1, <2>2
<1> QED
  BY <1>6, <1>7, <1>8, <1>9, <1>10, <1>11, <1>12 DEF Chain

LEMMA ChainSettle ==
  ASSUME TypeOK, Chain, NEW c \in Calls, NEW from \in Running, NEW to \in Settled,
         Settle(c, from, to), UNCHANGED <<calls, turn>>
  PROVE  Chain'
<1> DEFINE p == ProcOf[c]
<1>1. /\ pc[c] = from /\ pc' = [pc EXCEPT ![c] = to]
      /\ prior' = [d \in Calls |-> IF prior[d] = c THEN None ELSE prior[d]]
      /\ tail' = [tail EXCEPT ![p] = IF @ = c THEN None ELSE @]
  BY DEF Settle, Goto, DropChain
<1>2. p \in Procs /\ c # None
  BY LockAssumption
<1>3. from \notin {"idle", "queued", "dead"} \cup Settled /\ to \notin {"idle"}
  BY DEF Running, Acquiring, Holding, Inside, Settled
<1>4. Pending(c) /\ prior[c] = None
  BY <1>1, <1>3 DEF Pending, TypeOK
<1>5. \A d \in Calls : /\ (Pending(d))' <=> (d # c /\ Pending(d))
                       /\ (pc'[d] = "idle") <=> (pc[d] = "idle")
  BY <1>1, <1>3 DEF TypeOK, Pending
<1>6. \A d \in Calls : ProcOf[d] = p /\ Pending(d) /\ d # c => turn[c] < turn[d]
  BY <1>4 DEF Chain, FirstWaitsForNobody
<1>7. \A d \in Calls : turn[d] \in Nat /\ (Pending(d) => pc[d] # "idle")
  BY DEF TypeOK, Pending
<1> HIDE DEF p
<1> USE <1>2, <1>5
<1>8. CalledBefore' /\ Numbered'
  BY DEF Chain, CalledBefore, Numbered
<1>9. PriorPending'
  BY <1>1 DEF Chain, PriorPending, TypeOK
<1>10. TailIsLast'
  <2> SUFFICES ASSUME NEW q \in Procs, tail'[q] # None
               PROVE  /\ ProcOf[tail'[q]] = q /\ (Pending(tail[q]))'
                      /\ \A d \in Calls : ProcOf[d] = q /\ (Pending(d))'
                                            => turn'[d] <= turn'[tail'[q]]
    BY DEF TailIsLast
  <2>0. tail \in [Procs -> Calls \cup {None}]
    BY DEF TypeOK
  <2>1. tail'[q] = tail[q] /\ tail[q] \in Calls /\ (q = p => tail[q] # c)
    BY <1>1, <2>0
  <2>2. ProcOf[tail[q]] = q /\ Pending(tail[q])
        /\ \A d \in Calls : ProcOf[d] = q /\ Pending(d) => turn[d] <= turn[tail[q]]
    BY <2>1 DEF Chain, TailIsLast
  <2>3. (Pending(tail[q]))'
    <3>1. tail[q] # c
      BY <2>1, <2>2 DEF p
    <3> QED
      BY <1>1, <2>1, <2>2, <3>1 DEF Pending, TypeOK
  <2> QED
    BY <2>1, <2>2, <2>3
<1>11. NoTailNoCall'
  <2> SUFFICES ASSUME NEW d \in Calls, tail'[ProcOf[d]] = None, Pending(d), d # c
               PROVE  FALSE
    BY DEF NoTailNoCall
  <2>1. ProcOf[d] \in Procs /\ tail[ProcOf[d]] # None
    BY LockAssumption DEF Chain, NoTailNoCall
  <2>2. ProcOf[d] = p /\ tail[p] = c
    BY <1>1, <2>1 DEF TypeOK
  <2> QED
    BY <1>6, <1>7, <2>1, <2>2 DEF Chain, TailIsLast
<1>12. FirstWaitsForNobody'
  <2> SUFFICES ASSUME NEW e \in Calls, NEW d \in Calls, ProcOf[e] = ProcOf[d], e # d,
                      Pending(e), Pending(d), e # c, d # c, prior'[d] = None
               PROVE  turn[d] < turn[e]
    BY DEF FirstWaitsForNobody
  <2>1. CASE prior[d] = None
    BY <2>1 DEF Chain, FirstWaitsForNobody
  <2>2. CASE prior[d] # None
    <3>1. prior[d] = c
      BY <1>1, <2>2
    <3>2. ProcOf[d] = p
      BY <3>1, <2>2 DEF Chain, PriorPending, p
    <3>3. turn[c] < turn[e]
      BY <3>2, <1>6
    <3>4. ~(turn[e] < turn[d])
      BY <2>2, <3>1, <3>3, <1>7 DEF Chain, NobodyBetween
    <3>5. turn[e] # turn[d]
      BY <1>7 DEF Chain, Numbered
    <3> QED
      BY <3>4, <3>5, <1>7
  <2> QED
    BY <2>1, <2>2
<1>13. NobodyBetween'
  BY <1>1 DEF Chain, NobodyBetween
<1> QED
  BY <1>8, <1>9, <1>10, <1>11, <1>12, <1>13 DEF Chain

LEMMA ChainStep == TypeOK /\ Chain /\ [Next]_vars => Chain'
<1> SUFFICES ASSUME TypeOK, Chain, [Next]_vars PROVE Chain'
  OBVIOUS
<1> DEFINE Quiet == /\ UNCHANGED <<prior, tail, calls, turn>>
                    /\ \A c \in Calls : /\ (Pending(c))' = Pending(c)
                                        /\ (pc'[c] = "idle") = (pc[c] = "idle")
<1>1. Quiet => Chain'
  BY ChainQuiet
<1>2. ASSUME NEW c \in Calls, Call(c) PROVE Chain'
  BY <1>2, ChainCall
<1>3. ASSUME NEW c \in Calls, NEW from \in Running, NEW to \in {"done", "failed"},
             Settle(c, from, to), UNCHANGED <<calls, turn>>
      PROVE Chain'
  BY <1>3, ChainSettle DEF Settled
<1>4. ASSUME NEW c \in Calls, TimeOut(c) \/ WriteFails(c) \/ KeepOthers(c) \/ Remove(c)
      PROVE Chain'
  BY <1>3, <1>4 DEF TimeOut, WriteFails, KeepOthers, Remove, Running, Acquiring, Holding,
     Inside
<1>5. ASSUME NEW c \in Calls,
             PassDeadline(c) \/ Begin(c) \/ Open(c) \/ Exists(c) \/ WritePayload(c)
               \/ Stat(c) \/ Restat(c) \/ Unlink(c)
      PROVE Quiet
  BY <1>5 DEF PassDeadline, Begin, Open, Exists, WritePayload, Stat, Restat, Look, Unlink,
     Goto, Pending, Settled, TypeOK
<1>6. ASSUME NEW c \in Calls, Read(c) \/ Update(c) \/ FnThrows(c) \/ Check(c)
      PROVE Quiet
  BY <1>6 DEF Read, Update, FnThrows, Check, Goto, Pending, Settled, Inside, TypeOK
<1>7. CASE Age \/ UNCHANGED vars
  <2>1. Quiet
    BY <1>7 DEF Age, vars, Pending
  <2> QED
    BY <2>1, <1>1
<1>8. ASSUME NEW p \in Procs, Crash(p) PROVE Quiet
  BY <1>8 DEF Crash, Pending, Settled, TypeOK
<1> QED
  BY <1>1, <1>2, <1>4, <1>5, <1>6, <1>7, <1>8 DEF Next, Acquire, Section

LEMMA ChainTakesTurns == TypeOK /\ Chain => CallsTakeTurns
<1> SUFFICES ASSUME TypeOK, Chain, NEW c \in Calls, NEW d \in Calls,
                    ProcOf[c] = ProcOf[d], c # d, Before(c, d), pc[d] \in Running,
                    pc[c] \notin Settled
             PROVE  FALSE
  BY DEF CallsTakeTurns
<1>1. prior[d] = None /\ Pending(d) /\ Pending(c)
  BY DEF TypeOK, Pending, Before, Running, Acquiring, Holding, Inside, Settled
<1> QED
  BY <1>1 DEF Chain, FirstWaitsForNobody, Before, TypeOK

(* Calls of one process run one at a time and in the order they were made,   *)
(* for any number of processes and calls, and whatever fails, crashes or     *)
(* grows stale: the promise chain of withPathLock is enough by itself.       *)
THEOREM TurnsAreTaken == Spec => []CallsTakeTurns
<1>1. Init => TypeOK /\ Chain
  BY TypeInit, ChainInit
<1>2. (TypeOK /\ Chain) /\ [Next]_vars => (TypeOK /\ Chain)'
  BY TypeStep, ChainStep
<1>3. TypeOK /\ Chain => CallsTakeTurns
  BY ChainTakesTurns
<1> QED
  BY <1>1, <1>2, <1>3, PTL DEF Spec

-----------------------------------------------------------------------------
(* Sections of different processes.  The code is right under an assumption   *)
(* it does not state: two calls never try to reclaim the same stale lock     *)
(* (the run LockReclaim shows what happens otherwise).                       *)

OneReclaimer == \A q \in Crashing : \A p1, p2 \in Procs \ {q} : p1 = p2

(* The inductive invariant: a holder owns a fresh lock, a lock has a holder  *)
(* or a dead owner, and a lock being reclaimed is stale.                     *)
DeadProcesses ==
  /\ Procs \ alive \subseteq Crashing
  /\ \A c \in Calls : pc[c] = "dead" => ProcOf[c] \notin alive
  /\ \A c \in Calls : pc[c] \in Running \cup {"queued"} => ProcOf[c] \in alive

HolderOwns ==
  \A c \in Calls : pc[c] \in Holding =>
    Mine(c) /\ ~lock.stale /\ (pc[c] # "write" => lock.written)

OwnerHolds == lock # None => pc[lock.owner] \in Holding \cup {"dead"}

ReclaimsStale == \A c \in Calls : pc[c] \in {"restat", "unlink"} => lock # None /\ lock.stale

SeesAll ==
  updated \subseteq data /\ \A c \in Calls : pc[c] = "update" => updated \subseteq seen[c]

Locking == DeadProcesses /\ HolderOwns /\ OwnerHolds /\ ReclaimsStale /\ SeesAll

LEMMA OneRunning ==
  ASSUME TypeOK, Chain, NEW c \in Calls, NEW d \in Calls, ProcOf[c] = ProcOf[d],
         pc[c] \in Running, pc[d] \in Running
  PROVE  c = d
<1> SUFFICES ASSUME c # d PROVE FALSE
  OBVIOUS
<1>1. CallsTakeTurns
  BY ChainTakesTurns
<1>2. pc[c] # "idle" /\ pc[d] # "idle" /\ pc[c] \notin Settled /\ pc[d] \notin Settled
  BY DEF Running, Acquiring, Holding, Inside, Settled
<1>3. turn[c] # turn[d] /\ turn[c] \in Nat /\ turn[d] \in Nat
  BY <1>2 DEF TypeOK, Chain, Numbered
<1> QED
  BY <1>1, <1>2, <1>3 DEF CallsTakeTurns, Before

LEMMA LockingInit == Init => Locking
  BY DEF Init, Locking, DeadProcesses, HolderOwns, OwnerHolds, ReclaimsStale, SeesAll,
     Running, Acquiring, Holding, Inside

(* What is calm after a step was calm before it.                             *)
LEMMA CalmBefore ==
  ASSUME TypeOK, [Next]_vars, Calm'
  PROVE  Calm /\ ~Fault
<1> USE DEF Calm, TypeOK
<1>1. ~Fault
  BY LockAssumption DEF Fault
<1>2. ASSUME NEW c \in Calls, Call(c) \/ PassDeadline(c) PROVE Calm
  BY <1>2 DEF Call, PassDeadline
<1>3. ASSUME NEW c \in Calls, Acquire(c) PROVE Calm
  BY <1>1, <1>3 DEF Acquire, Begin, TimeOut, Open, Exists, WritePayload, WriteFails, Stat,
     Restat, Look, Unlink
<1>4. ASSUME NEW c \in Calls, Section(c) PROVE Calm
  BY <1>1, <1>4 DEF Section, Read, Update, FnThrows, KeepOthers, Check, Remove
<1>5. ASSUME NEW p \in Procs, Crash(p) PROVE Calm
  BY <1>5 DEF Crash
<1>6. CASE Age \/ UNCHANGED vars
  BY <1>1, <1>6 DEF Age, vars
<1> QED
  BY <1>1, <1>2, <1>3, <1>4, <1>5, <1>6 DEF Next

LEMMA LockingStep ==
  OneReclaimer /\ TypeOK /\ Chain /\ (Calm => Locking) /\ [Next]_vars
    => (Calm => Locking)'
<1> SUFFICES ASSUME OneReclaimer, TypeOK, Chain, Calm => Locking, [Next]_vars, Calm'
             PROVE  Locking'
  OBVIOUS
<1>0. Locking
  BY CalmBefore
<1>1. ~Fault
  BY CalmBefore
<1> USE <1>0, LockAssumption
<1> USE DEF Locking, DeadProcesses, HolderOwns, OwnerHolds, ReclaimsStale, SeesAll, Mine,
        Running, Acquiring, Holding, Inside, Settled, Goto, TypeOK, Lock
<1>2. ASSUME NEW c \in Calls, Call(c) \/ PassDeadline(c) \/ Begin(c) PROVE Locking'
  BY <1>2 DEF Call, PassDeadline, Begin
<1>3. ASSUME NEW c \in Calls, TimeOut(c) PROVE Locking'
  BY <1>3 DEF TimeOut, Settle
<1>4. ASSUME NEW c \in Calls, Open(c) \/ Exists(c) PROVE Locking'
  <2>1. CASE Open(c)
    <3>0. lock' \in Lock /\ lock'.owner = c /\ ~lock'.stale
      <4> DEFINE new == [owner |-> c, written |-> FALSE, stale |-> FALSE]
      <4>1. new \in Lock /\ new.owner = c /\ new.stale = FALSE
        BY Zenon
      <4>2. lock' = new
        BY ONLY <2>1 DEF Open
      <4> QED
        BY ONLY <4>1, <4>2
    <3>1. /\ lock = None /\ lock' # None
          /\ pc' = [pc EXCEPT ![c] = "write"] /\ pc[c] = "try"
          /\ UNCHANGED <<data, seen, alive, updated>>
      <4>1. /\ lock = None /\ UNCHANGED <<data, seen, alive, updated>>
            /\ pc' = [pc EXCEPT ![c] = "write"] /\ pc[c] = "try"
        BY ONLY <2>1 DEF Open, Goto
      <4>2. lock' # None
        BY ONLY <3>0, LockAssumption
      <4> QED
        BY ONLY <4>1, <4>2
    <3>2. \A d \in Calls : pc[d] \notin Holding /\ pc[d] \notin {"restat", "unlink"}
      BY <3>1
    <3>3. HolderOwns' /\ OwnerHolds' /\ ReclaimsStale'
      BY <3>0, <3>1, <3>2
    <3>4. DeadProcesses' /\ SeesAll'
      BY <3>1
    <3> QED
      BY <3>3, <3>4
  <2>2. CASE Exists(c)
    BY <2>2 DEF Exists
  <2> QED
    BY <1>4, <2>1, <2>2
<1>5. ASSUME NEW c \in Calls, WritePayload(c) PROVE Locking'
  <2>1. pc[c] = "write" /\ lock \in Lock /\ lock.owner = c /\ ~lock.stale
    BY <1>5 DEF WritePayload
  <2>2. /\ lock' = [lock EXCEPT !.written = TRUE] /\ pc' = [pc EXCEPT ![c] = "fn"]
        /\ UNCHANGED <<data, seen, alive, updated>>
    BY <1>5, <2>1 DEF WritePayload
  <2>3. lock' \in Lock /\ lock'.owner = c /\ ~lock'.stale /\ lock'.written
    BY <2>1, <2>2
  <2>4. lock # None /\ lock' # None
    BY <2>1, <2>3
  <2>5. HolderOwns' /\ OwnerHolds' /\ ReclaimsStale'
    BY <2>1, <2>2, <2>3, <2>4
  <2>6. DeadProcesses' /\ SeesAll'
    BY <2>1, <2>2
  <2> QED
    BY <2>5, <2>6
<1>6. ASSUME NEW c \in Calls, Stat(c) \/ Restat(c) PROVE Locking'
  BY <1>6 DEF Stat, Restat, Look
<1>7. ASSUME NEW c \in Calls, Unlink(c) PROVE Locking'
  <2>1. pc[c] = "unlink" /\ lock # None /\ lock.stale /\ lock.owner \in Calls
    BY <1>7 DEF Unlink
  <2>2. lock' = None /\ pc' = [pc EXCEPT ![c] = "try"]
        /\ UNCHANGED <<data, seen, alive, updated>>
    BY <1>1, <1>7 DEF Unlink
  <2>3. pc[lock.owner] = "dead"
    BY <2>1
  <2>4. ASSUME NEW d \in Calls, pc[d] \in {"restat", "unlink"} PROVE d = c
    <3> DEFINE q == ProcOf[lock.owner]
    <3>1. q \in Crashing /\ q \notin alive
      BY <2>1, <2>3
    <3>2. pc[c] \in Running /\ pc[d] \in Running
      BY <2>1, <2>4
    <3>3. ProcOf[c] \in Procs \ {q} /\ ProcOf[d] \in Procs \ {q}
      BY <3>1, <3>2
    <3>4. ProcOf[c] = ProcOf[d]
      BY <3>1, <3>3 DEF OneReclaimer
    <3> QED
      BY <3>2, <3>4, OneRunning
  <2>5. \A d \in Calls : pc[d] \notin Holding
    BY <2>1, <2>3
  <2> QED
    BY <2>1, <2>2, <2>4, <2>5
<1>8. ASSUME NEW c \in Calls, Read(c) \/ Check(c) PROVE Locking'
  <2>1. CASE Read(c)
    BY <2>1 DEF Read
  <2>2. CASE Check(c)
    BY <2>2 DEF Check
  <2> QED
    BY <1>8, <2>1, <2>2
<1>9. ASSUME NEW c \in Calls, Update(c) PROVE Locking'
  <2>1. /\ pc[c] = "update" /\ pc' = [pc EXCEPT ![c] = "release"] /\ Mine(c) /\ lock.written
        /\ data' = seen[c] \cup {c} /\ updated' = updated \cup {c} /\ ~lock.stale
        /\ UNCHANGED <<lock, seen, alive>>
    BY <1>9 DEF Update
  <2>2. \A d \in Calls : pc'[d] # "update"
    BY <2>1
  <2>3. SeesAll'
    BY <2>1, <2>2
  <2>4. DeadProcesses' /\ ReclaimsStale'
    BY <2>1
  <2>5. HolderOwns' /\ OwnerHolds'
    BY <2>1
  <2> QED
    BY <2>3, <2>4, <2>5
<1>10. ASSUME NEW c \in Calls, KeepOthers(c) PROVE Locking'
  BY <1>10 DEF KeepOthers, Settle, Owns
<1>11. ASSUME NEW c \in Calls, Remove(c) PROVE Locking'
  <2>1. pc[c] = "rm" /\ lock # None /\ lock.owner = c /\ ~lock.stale
    BY <1>11 DEF Remove, Settle
  <2>2. lock' = None /\ pc' = [pc EXCEPT ![c] = "done"]
        /\ UNCHANGED <<data, seen, alive, updated>>
    BY <1>1, <1>11 DEF Remove, Settle
  <2> QED
    BY <2>1, <2>2
<1>12. CASE Age
  BY <1>1, <1>12 DEF Age, Abandoned
<1>13. ASSUME NEW p \in Procs, Crash(p) PROVE Locking'
  BY <1>13 DEF Crash, Pending
<1>14. CASE UNCHANGED vars
  BY <1>14 DEF vars
<1> QED
  BY <1>1, <1>2, <1>3, <1>4, <1>5, <1>6, <1>7, <1>8, <1>9, <1>10, <1>11, <1>12, <1>13,
     <1>14 DEF Next, Acquire, Section, WriteFails, FnThrows

LEMMA LockingExcludes ==
  (Calm => Locking) => MutualExclusion /\ NoLostUpdate /\ SectionsStayLocked
  BY DEF Locking, HolderOwns, SeesAll, MutualExclusion, NoLostUpdate, SectionsStayLocked,
     Mine, Holding

LEMMA AlwaysLocked == OneReclaimer /\ Spec => [](TypeOK /\ Chain /\ (Calm => Locking))
<1> SUFFICES ASSUME OneReclaimer PROVE Spec => [](TypeOK /\ Chain /\ (Calm => Locking))
  OBVIOUS
<1>1. Init => TypeOK /\ Chain /\ (Calm => Locking)
  BY TypeInit, ChainInit, LockingInit
<1>2. (TypeOK /\ Chain /\ (Calm => Locking)) /\ [Next]_vars
        => (TypeOK /\ Chain /\ (Calm => Locking))'
  BY TypeStep, ChainStep, LockingStep
<1> QED
  BY <1>1, <1>2, PTL DEF Spec

(* At most one call is inside, in any process: any number of processes that  *)
(* do not crash, or one survivor reclaiming the lock a crash left.           *)
THEOREM SectionsExclude == OneReclaimer /\ Spec => []MutualExclusion
<1> QED
  BY AlwaysLocked, LockingExcludes, PTL

(* No section overwrites another's update, under the same assumption.        *)
THEOREM UpdatesAreKept == OneReclaimer /\ Spec => []NoLostUpdate
<1> QED
  BY AlwaysLocked, LockingExcludes, PTL

(* The lock of a running section is never reclaimed or released by another.  *)
THEOREM SectionsKeepTheirLock == OneReclaimer /\ Spec => []SectionsStayLocked
<1> QED
  BY AlwaysLocked, LockingExcludes, PTL
=============================================================================
