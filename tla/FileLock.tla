------------------------------ MODULE FileLock ------------------------------
(***************************************************************************)
(* withPathLock: an update of a file of the store, run under a lock file.  *)
(* packages/storage-fs/src/file-lock.ts (one lock path) and the            *)
(* read-modify-write its callers run in it (inbox.ts #update, atomic.ts).  *)
(*                                                                         *)
(* Calls of one process run one after the other (processChains); calls of  *)
(* different processes compete for `open(lockPath, 'wx')`.  One action is  *)
(* one system call, and processes interleave between any two of them.      *)
(***************************************************************************)
EXTENDS Naturals, FiniteSets

CONSTANTS
  Procs,      \* processes sharing the directory (daemon, cli, runner)
  Calls,      \* calls of withPathLock on the path
  ProcOf,     \* the process of each call
  None,       \* no call, no lock file
  Crashing,   \* the processes that may die
  MaxFaults   \* bound: system calls that fail, sections that outlast staleMs

Lock == [owner : Calls, written : BOOLEAN, stale : BOOLEAN]

ASSUME LockAssumption ==
  /\ ProcOf \in [Calls -> Procs] /\ None \notin Calls \cup Lock
  /\ Crashing \subseteq Procs /\ MaxFaults \in Nat

VARIABLES
  lock,    \* the lock file: None, or who created it, its payload and age
  data,    \* the file under the lock: the calls whose update it contains
  pc, prior, late, seen,    \* of each call: where it is, the guard it waits for
                            \* (None: resolved), past its deadline, what fn read
  tail,    \* processChains: the last call's guard of each process
  alive,   \* processes that have not crashed
  faults,
  updated, \* history: calls whose update reached the disk
  calls, turn  \* history: how many calls were made, and the number of each

vars == <<lock, data, pc, prior, late, seen, tail, alive, faults, updated, calls, turn>>

Acquiring == {"try", "stat", "restat", "unlink"}
Inside    == {"fn", "update"}                  \* fn runs
Holding   == {"write", "release", "rm"} \cup Inside
Settled   == {"done", "failed"}
Running   == Acquiring \cup Holding

Pending(c) == pc[c] \notin {"idle"} \cup Settled   \* called, its guard not resolved

TypeOK ==
  /\ lock \in Lock \cup {None} /\ data \subseteq Calls
  /\ pc \in [Calls -> {"idle", "queued", "dead"} \cup Settled \cup Running]
  /\ prior \in [Calls -> Calls \cup {None}] /\ tail \in [Procs -> Calls \cup {None}]
  /\ \A c \in Calls : prior[c] # None => pc[c] \in {"queued", "dead"}
  /\ late \subseteq Calls /\ seen \in [Calls -> SUBSET Calls]
  /\ alive \subseteq Procs /\ updated \subseteq Calls /\ faults \in 0..MaxFaults
  /\ calls \in Nat /\ turn \in [Calls -> Nat]

Init ==
  /\ lock = None /\ data = {} /\ pc = [c \in Calls |-> "idle"]
  /\ prior = [c \in Calls |-> None] /\ tail = [p \in Procs |-> None]
  /\ late = {} /\ seen = [c \in Calls |-> {}]
  /\ alive = Procs /\ updated = {} /\ faults = 0
  /\ calls = 0 /\ turn = [c \in Calls |-> 0]

-----------------------------------------------------------------------------
Goto(c, from, to) == pc[c] = from /\ pc' = [pc EXCEPT ![c] = to]

(* guard.finally: the calls waiting for this guard may run, and the chain    *)
(* is dropped only if no later call has taken its end.                       *)
DropChain(c) == tail' = [tail EXCEPT ![ProcOf[c]] = IF @ = c THEN None ELSE @]

\* mutant: the calls behind a failed one wait for the failed promise itself
SettleUncaught(c, from, to) ==
  /\ Goto(c, from, to) /\ DropChain(c)
  /\ prior' = [d \in Calls |-> IF prior[d] = c /\ to = "done" THEN None ELSE prior[d]]

Settle(c, from, to) ==
  /\ Goto(c, from, to) /\ DropChain(c)
  /\ prior' = [d \in Calls |-> IF prior[d] = c THEN None ELSE prior[d]]

Fault == faults < MaxFaults /\ faults' = faults + 1

(* withPathLock: the call lines up behind the process's last one.            *)
Call(c) ==
  /\ Goto(c, "idle", "queued") /\ ProcOf[c] \in alive
  /\ prior' = [prior EXCEPT ![c] = tail[ProcOf[c]]]
  /\ tail' = [tail EXCEPT ![ProcOf[c]] = c]
  /\ calls' = calls + 1 /\ turn' = [turn EXCEPT ![c] = calls]
  /\ UNCHANGED <<lock, data, late, seen, alive, updated, faults>>

\* mutant: the call does not wait for the chain
BeginAtOnce(c) ==
  /\ Goto(c, "queued", "try")
  /\ UNCHANGED <<lock, data, prior, late, seen, tail, alive, updated, faults, calls, turn>>

Begin(c) ==
  /\ Goto(c, "queued", "try") /\ prior[c] = None
  /\ UNCHANGED <<lock, data, prior, late, seen, tail, alive, updated, faults, calls, turn>>

(* The deadline passes while acquireFileLock is trying.                      *)
PassDeadline(c) ==
  /\ pc[c] \in Acquiring /\ c \notin late /\ late' = late \cup {c}
  /\ UNCHANGED <<lock, data, pc, prior, seen, tail, alive, updated, faults, calls, turn>>

TimeOut(c) ==   \* LockTimeoutError
  /\ c \in late /\ Settle(c, "try", "failed")
  /\ UNCHANGED <<lock, data, late, seen, alive, updated, faults, calls, turn>>

Open(c) ==   \* open(lockPath, 'wx') succeeds
  /\ c \notin late /\ lock = None /\ Goto(c, "try", "write")
  /\ lock' = [owner |-> c, written |-> FALSE, stale |-> FALSE]
  /\ UNCHANGED <<data, prior, late, seen, tail, alive, updated, faults, calls, turn>>

Exists(c) ==   \* EEXIST
  /\ c \notin late /\ lock # None /\ Goto(c, "try", "stat")
  /\ UNCHANGED <<lock, data, prior, late, seen, tail, alive, updated, faults, calls, turn>>

Mine(c) == lock # None /\ lock.owner = c

(* The payload goes into the file this call opened, wherever it is by now.   *)
WritePayload(c) ==
  /\ Goto(c, "write", "fn")
  /\ lock' = IF Mine(c) THEN [lock EXCEPT !.written = TRUE] ELSE lock
  /\ UNCHANGED <<data, prior, late, seen, tail, alive, updated, faults, calls, turn>>

(* A failed write is thrown at the caller, and the lock file stays behind.   *)
WriteFails(c) ==
  /\ Fault /\ Settle(c, "write", "failed")
  /\ UNCHANGED <<lock, data, late, seen, alive, updated, calls, turn>>

\* mutant: a lock in the way is reclaimed however old it is
LookAnyAge(c, from, to) ==
  /\ Goto(c, from, IF lock # None THEN to ELSE "try")
  /\ UNCHANGED <<lock, data, prior, late, seen, tail, alive, updated, faults, calls, turn>>

(* tryReclaimStale: a lock that is fresh, or gone, is tried again.           *)
Look(c, from, to) ==
  /\ Goto(c, from, IF lock # None /\ lock.stale THEN to ELSE "try")
  /\ UNCHANGED <<lock, data, prior, late, seen, tail, alive, updated, faults, calls, turn>>

Stat(c)   == Look(c, "stat", "restat")
Restat(c) == Look(c, "restat", "unlink")

Unlink(c) ==   \* its failure is ignored: the next open decides
  /\ Goto(c, "unlink", "try")
  /\ \/ lock' = None /\ UNCHANGED faults
     \/ Fault /\ UNCHANGED lock
  /\ UNCHANGED <<data, prior, late, seen, tail, alive, updated, calls, turn>>

-----------------------------------------------------------------------------
(* fn: read the file, then rename a new version over it. *)

Read(c) ==
  /\ Goto(c, "fn", "update") /\ seen' = [seen EXCEPT ![c] = data]
  /\ UNCHANGED <<lock, data, prior, late, tail, alive, updated, faults, calls, turn>>

Update(c) ==
  /\ Goto(c, "update", "release")
  /\ data' = seen[c] \cup {c} /\ updated' = updated \cup {c}
  /\ UNCHANGED <<lock, prior, late, seen, tail, alive, faults, calls, turn>>

FnThrows(c) ==
  /\ Fault /\ pc[c] \in Inside /\ pc' = [pc EXCEPT ![c] = "release"]
  /\ UNCHANGED <<lock, data, prior, late, seen, tail, alive, updated, calls, turn>>

Owns(c) == Mine(c) /\ lock.written   \* payload.token === token

KeepOthers(c) ==   \* releaseFileLock finds no lock, or another's
  /\ ~Owns(c) /\ Settle(c, "release", "done")
  /\ UNCHANGED <<lock, data, late, seen, alive, updated, faults, calls, turn>>

Check(c) ==
  /\ Owns(c) /\ Goto(c, "release", "rm")
  /\ UNCHANGED <<lock, data, prior, late, seen, tail, alive, updated, faults, calls, turn>>

Remove(c) ==   \* rm, whose failure is ignored too
  /\ Settle(c, "rm", "done")
  /\ \/ lock' = None /\ UNCHANGED faults
     \/ Fault /\ UNCHANGED lock
  /\ UNCHANGED <<data, late, seen, alive, updated, calls, turn>>

-----------------------------------------------------------------------------
(* The lock file grows older than staleMs: the one of a dead process, or of  *)
(* a call that left it behind, always does; for the one of a running section *)
(* it is a fault.                                                            *)
Abandoned == pc[lock.owner] \in Settled \cup {"dead"}

Age ==
  /\ lock # None /\ ~lock.stale /\ lock' = [lock EXCEPT !.stale = TRUE]
  /\ IF Abandoned THEN UNCHANGED faults ELSE Fault
  /\ UNCHANGED <<data, pc, prior, late, seen, tail, alive, updated, calls, turn>>

Crash(p) ==
  /\ p \in alive \cap Crashing /\ alive' = alive \ {p}
  /\ pc' = [c \in Calls |-> IF ProcOf[c] = p /\ Pending(c) THEN "dead" ELSE pc[c]]
  /\ UNCHANGED <<lock, data, prior, late, seen, tail, updated, faults, calls, turn>>

Acquire(c) == Begin(c) \/ TimeOut(c) \/ Open(c) \/ Exists(c) \/ WritePayload(c)
                \/ WriteFails(c) \/ Stat(c) \/ Restat(c) \/ Unlink(c)
Section(c) == Read(c) \/ Update(c) \/ FnThrows(c) \/ KeepOthers(c) \/ Check(c) \/ Remove(c)

Next ==
  \/ \E c \in Calls : Call(c) \/ PassDeadline(c) \/ Acquire(c) \/ Section(c)
  \/ Age \/ \E p \in Procs : Crash(p)

Spec == Init /\ [][Next]_vars

(* System calls return, sections end and the clock moves on.                 *)
Fairness == \A c \in Calls : WF_vars(Acquire(c) \/ Section(c)) /\ WF_vars(PassDeadline(c))

FairSpec == Spec /\ Fairness

-----------------------------------------------------------------------------
(* Properties. *)

(* What the lock promises it promises while no system call has failed and no *)
(* section has outlasted staleMs.                                            *)
Calm == faults = 0

(* At most one call runs fn at a time, whatever process it is in and however *)
(* late the lock of a crashed process is reclaimed.                          *)
MutualExclusion ==
  Calm => \A c, d \in Calls : pc[c] \in Inside /\ pc[d] \in Inside => c = d

(* Updates of the file are never lost: whatever a section has renamed into   *)
(* place is still there after the sections of the others.                    *)
NoLostUpdate == Calm => updated \subseteq data

Before(c, d) == pc[c] # "idle" /\ turn[c] < turn[d]   \* c was called before d

(* Calls of one process run one at a time and in the order they were made:   *)
(* the chain starts the next one only when every earlier one has settled.    *)
CallsTakeTurns ==
  \A c, d \in Calls :
    ProcOf[c] = ProcOf[d] /\ c # d /\ Before(c, d) /\ pc[d] \in Running
      => pc[c] \in Settled

(* A call that is inside still owns the lock file: nobody reclaimed or       *)
(* released the lock of a running section.                                   *)
SectionsStayLocked == Calm => \A c \in Calls : pc[c] \in Inside => Mine(c)

(* Every call of a live process ends, with fn's result or an error, even     *)
(* behind the lock of a dead one and behind failed calls of its own process. *)
CallsEnd ==
  \A c \in Calls : pc[c] = "queued" ~> pc[c] \in Settled \cup {"dead"}
=============================================================================
