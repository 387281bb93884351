------------------------ MODULE DelegationLeaseProofs ------------------------
(* What holds of DelegationLease for any runners, terms and bounds.          *)
(* Whatever is assumed of the surroundings: the types, that no fence is in   *)
(* use that the ledger does not have, and how the lease in the ledger changes*)
(* hands.  Under all the premises: that the delegation has one session at    *)
(* most, that a lease which is free has left none behind, and that what was  *)
(* stopped has none.                                                         *)
EXTENDS DelegationLease, FiniteSetTheorems, TLAPS

USE LeaseAssumption DEF ledger, daemon, runners, vars

-----------------------------------------------------------------------------
(* The rows that a step writes.                                              *)

LEMMA CapIsNat == Cap \in Nat /\ Cap >= 1
  BY DEF Cap

LEMMA OlderType == ASSUME NEW age \in 0 .. Cap PROVE Older(age) \in 0 .. Cap
  BY CapIsNat DEF Older

(* A row with the same lease but for its age and its release.                *)
SameTerm(j, k) == /\ j.lease.fence = k.lease.fence
                  /\ j.lease.runner = k.lease.runner
                  /\ j.lease.proc = k.lease.proc

LEMMA TouchedKeeps ==
  ASSUME NEW j \in Job
  PROVE  /\ Touched(j) \in Job /\ SameTerm(Touched(j), j)
         /\ Touched(j).lease.released = j.lease.released
         /\ Touched(j).status = j.status /\ Touched(j).runner = j.runner
  BY CapIsNat DEF Touched, Job, Lease, SameTerm

LEMMA GaveBackKeeps ==
  ASSUME NEW j \in Job
  PROVE  /\ GaveBack(j) \in Job /\ SameTerm(GaveBack(j), j) /\ GaveBack(j).lease.released
  BY DEF GaveBack, Job, Lease, SameTerm

LEMMA ConfirmedKeeps ==
  ASSUME job \in Job, NEW r
  PROVE  /\ Confirmed(r) \in Job /\ SameTerm(Confirmed(r), job)
         /\ job.lease.released => Confirmed(r).lease.released
  <1> CASE job.lease.runner = r /\ MayClaim(job.lease, r)
    BY GaveBackKeeps DEF Confirmed
  <1> CASE ~(job.lease.runner = r /\ MayClaim(job.lease, r))
    BY DEF Confirmed, SameTerm
  <1> QED  OBVIOUS

LEMMA PersistKeeps ==
  ASSUME NEW j \in Job, Persist(j)
  PROVE  /\ job' \in Job /\ store' = job' /\ SameTerm(job', j)
         /\ job'.lease.released = j.lease.released
  BY TouchedKeeps DEF Persist

-----------------------------------------------------------------------------
(* The ledger and the daemon's copy of the row.                              *)

Rows == store \in Job /\ job \in Job

(* The copy names the lease that the ledger has; a release may be ahead.     *)
Agreed == SameTerm(job, store) /\ (store.lease.released => job.lease.released)

Copy == /\ Rows /\ Agreed /\ roster \in [Runner -> Row]
        /\ resume.at # "idle" => resume.to \in Runner

(* What may become of the lease.                                             *)
Succeeds ==
  /\ store'.lease.fence >= store.lease.fence
  /\ store'.lease.fence = store.lease.fence =>
       /\ SameTerm(store', store)
       /\ store.lease.released => store'.lease.released

LedgerStep == (Rows /\ Agreed)' /\ Succeeds

LEMMA KeptStep == ASSUME Copy, UNCHANGED ledger PROVE LedgerStep
  BY DEF Copy, Rows, Agreed, LedgerStep, Succeeds, SameTerm, Job, Lease

LEMMA WrittenStep ==
  ASSUME Copy, NEW j \in Job, SameTerm(j, job), job.lease.released => j.lease.released,
         Persist(j)
  PROVE  LedgerStep
  BY PersistKeeps DEF Copy, Rows, Agreed, LedgerStep, Succeeds, SameTerm, Job, Lease

LEMMA RememberedStep ==
  ASSUME Copy, job' \in Job, store' = store, SameTerm(job', job),
         job.lease.released => job'.lease.released
  PROVE  LedgerStep
  BY DEF Copy, Rows, Agreed, LedgerStep, Succeeds, SameTerm, Job, Lease

LEMMA GrantType ==
  ASSUME Copy, NEW r \in Runner
  PROVE  /\ Grant(job.lease, r) \in Lease
         /\ Grant(job.lease, r).fence = store.lease.fence + 1
  BY CapIsNat DEF Copy, Rows, Agreed, SameTerm, Grant, Job, Lease, Row

LEMMA ClaimStep ==
  ASSUME Copy, NEW r \in Runner, NEW window, Claim(r, window)
  PROVE  LedgerStep
<1>1. CASE Verdict(job.lease, r) = "same-holder"
  <2>1. job' = [job EXCEPT !.lease.age = 0] /\ store' = store
    BY <1>1 DEF Claim
  <2>2. job' \in Job /\ SameTerm(job', job) /\ job'.lease.released = job.lease.released
    BY <2>1, CapIsNat DEF Copy, Rows, Job, Lease, SameTerm
  <2> QED
    BY <2>1, <2>2, RememberedStep
<1>2. CASE Verdict(job.lease, r) # "same-holder"
  <2>1. job' = [job EXCEPT !.lease = Grant(job.lease, r)] /\ store' = job'
    BY <1>2 DEF Claim
  <2>2. job' \in Job /\ job'.lease.fence = store.lease.fence + 1
    BY <2>1, GrantType DEF Copy, Rows, Job
  <2> QED
    BY <2>1, <2>2 DEF Copy, Rows, Agreed, SameTerm, LedgerStep, Succeeds, Job, Lease
<1> QED
  BY <1>1, <1>2

LEMMA NextLedger == ASSUME Copy, [Next]_vars PROVE LedgerStep
<1> USE DEF Copy
<1>1. ASSUME NEW r \in Runner, Reattach(r) PROVE LedgerStep
  BY <1>1, ClaimStep DEF Reattach
<1>2. ASSUME Send PROVE LedgerStep
  BY <1>2, ClaimStep DEF Send, Rows, Job
<1>3. ASSUME Deliver PROVE LedgerStep
  <2> DEFINE j == [job EXCEPT !.status = "running"]
  <2>1. j \in Job /\ SameTerm(j, job) /\ j.lease.released = job.lease.released
    BY DEF Rows, Job, Lease, Status, SameTerm
  <2> QED
    BY <1>3, <2>1, WrittenStep DEF Deliver
<1>4. ASSUME Answered \/ Listed PROVE LedgerStep
  <2>1. PICK gen : Accepted(gen)
    BY <1>4 DEF Answered, Listed
  <2>2. CASE image.stopping
    BY <2>1, <2>2, KeptStep DEF Accepted
  <2>3. CASE ~image.stopping
    <3> DEFINE status == IF job.status = "lost" /\ resume.window # "none"
                         THEN job.status ELSE "running"
    <3>1. store' = store /\ job' = [job EXCEPT !.runner = resume.to, !.status = status]
      BY <2>1, <2>3 DEF Accepted
    <3>2. resume.to \in Runner
      BY <1>4 DEF Answered, Listed
    <3>3. job' \in Job /\ SameTerm(job', job) /\ job'.lease.released = job.lease.released
      BY <3>1, <3>2 DEF Rows, Job, Lease, Status, SameTerm
    <3> QED
      BY <3>1, <3>3, RememberedStep
  <2> QED
    BY <2>2, <2>3
<1>5. ASSUME Declined PROVE LedgerStep
  <2>1. CASE UNCHANGED ledger
    BY <2>1, KeptStep
  <2>2. CASE Persist(GaveBack(job))
    BY <2>2, GaveBackKeeps, WrittenStep DEF Rows
  <2>3. CASE Persist([job EXCEPT !.status = "lost"])
    <3> DEFINE j == [job EXCEPT !.status = "lost"]
    <3>1. j \in Job /\ SameTerm(j, job) /\ j.lease.released = job.lease.released
      BY DEF Rows, Job, Lease, Status, SameTerm
    <3> QED
      BY <2>3, <3>1, WrittenStep
  <2> QED
    BY <1>5, <2>1, <2>2, <2>3 DEF Declined
<1>6. ASSUME Record PROVE LedgerStep
  BY <1>6, WrittenStep DEF Record, Rows, SameTerm
<1>7. ASSUME Fold PROVE LedgerStep
  <2>1. CASE UNCHANGED ledger
    BY <2>1, KeptStep
  <2>2. CASE Persist(Confirmed(resume.to))
    BY <2>2, ConfirmedKeeps, WrittenStep DEF Rows
  <2> QED
    BY <1>7, <2>1, <2>2 DEF Fold
<1>8. ASSUME HaltGone PROVE LedgerStep
  <2> DEFINE k == Confirmed(halt.on)
  <2>1. k \in Job /\ SameTerm(k, job) /\ (job.lease.released => k.lease.released)
    BY ConfirmedKeeps DEF Rows
  <2>2. CASE job' = k /\ store' = store
    BY <2>1, <2>2, RememberedStep
  <2>3. CASE Persist(k)
    BY <2>1, <2>3, WrittenStep
  <2>4. CASE Persist([k EXCEPT !.status = "stopped"])
    <3> DEFINE j == [k EXCEPT !.status = "stopped"]
    <3>1. j \in Job /\ SameTerm(j, k) /\ j.lease.released = k.lease.released
      BY <2>1 DEF Job, Lease, Status, SameTerm
    <3> QED
      BY <2>1, <2>4, <3>1, WrittenStep DEF SameTerm
  <2> QED
    BY <1>8, <2>2, <2>3, <2>4 DEF HaltGone
<1>9. ASSUME NEW e, HandleClosed(e) PROVE LedgerStep
  <2>1. CASE UNCHANGED ledger
    BY <2>1, KeptStep
  <2>2. CASE Persist(GaveBack(job))
    BY <2>2, GaveBackKeeps, WrittenStep DEF Rows
  <2>3. CASE Persist(GaveBack([job EXCEPT !.status = "ended"]))
    <3> DEFINE j == [job EXCEPT !.status = "ended"]
    <3>1. j \in Job /\ SameTerm(j, job)
      BY DEF Rows, Job, Lease, Status, SameTerm
    <3>2. GaveBack(j) \in Job /\ SameTerm(GaveBack(j), job) /\ GaveBack(j).lease.released
      BY <3>1, GaveBackKeeps DEF SameTerm
    <3> QED
      BY <2>3, <3>2, WrittenStep
  <2> QED
    BY <1>9, <2>1, <2>2, <2>3 DEF HandleClosed
<1>10. ASSUME NEW r \in Runner, Align(r) PROVE LedgerStep
  <2> DEFINE j == [job EXCEPT !.runner = r]
  <2>1. j \in Job /\ SameTerm(j, job) /\ j.lease.released = job.lease.released
    BY DEF Rows, Job, Lease, SameTerm
  <2> QED
    BY <1>10, <2>1, WrittenStep DEF Align
<1>11. ASSUME Tick PROVE LedgerStep
  <2>1. /\ job' = [job EXCEPT !.lease.age = Older(@)]
        /\ store' = [store EXCEPT !.lease.age = Older(@)]
    BY <1>11 DEF Tick
  <2>2. Older(job.lease.age) \in 0 .. Cap /\ Older(store.lease.age) \in 0 .. Cap
    BY OlderType DEF Rows, Job, Lease
  <2> QED
    BY <2>1, <2>2 DEF Rows, Agreed, LedgerStep, Succeeds, SameTerm, Job, Lease
<1>12. ASSUME Restart PROVE LedgerStep
  <2>1. job' = store /\ store' = store
    BY <1>12 DEF Restart
  <2> QED
    BY <2>1 DEF Rows, Agreed, LedgerStep, Succeeds, SameTerm, Job, Lease
<1>13. ASSUME Restore PROVE LedgerStep
  <2>1. CASE UNCHANGED ledger
    BY <2>1, KeptStep
  <2>2. ASSUME NEW r \in Runner, Persist([job EXCEPT !.status = "running", !.runner = r])
        PROVE LedgerStep
    <3> DEFINE j == [job EXCEPT !.status = "running", !.runner = r]
    <3>1. j \in Job /\ SameTerm(j, job) /\ j.lease.released = job.lease.released
      BY DEF Rows, Job, Lease, Status, SameTerm
    <3> QED
      BY <2>2, <3>1, WrittenStep
  <2> QED
    BY <1>13, <2>1, <2>2 DEF Restore
<1>14. CASE \/ Issue \/ Reach \/ GiveUp \/ Abort \/ HaltStop \/ HaltUnsure \/ UNCHANGED vars
           \/ \E r \in Runner : \/ Vacate(r) \/ Probe(r) \/ SelfFence(r) \/ Finish(r) \/ Swap(r)
                                \/ Drained(r) \/ Die(r)
  <2>1. UNCHANGED ledger
    BY <1>14 DEF Issue, Reach, GiveUp, Abort, HaltStop, HaltUnsure, Vacate, Probe, SelfFence,
                 Finish, Ends, Swap, Drained, Die, NewProcess
  <2> QED
    BY <2>1, KeptStep
<1> QED
  BY <1>1, <1>2, <1>3, <1>4, <1>5, <1>6, <1>7, <1>8, <1>9, <1>10, <1>11, <1>12, <1>13, <1>14
     DEF Next

-----------------------------------------------------------------------------
(* The rest of the state.                                                    *)

Image == image \in [gen : Nat \union {None}, stopping : BOOLEAN, absent : BOOLEAN]

Resume ==
  /\ resume \in [at : {"idle", "claimed", "issued", "reached", "fold", "record"},
                 to : Runner \union {None}, fence : Nat, gen : Nat \union {None},
                 window : {"none", "same", "move"}]
  /\ resume.at # "idle" => resume.to \in Runner

Halt == /\ halt \in [at : {"idle", "stop", "list"}, by : {"abort", "vacate"},
                    on : Runner \union {None}, again : BOOLEAN]
        /\ halt.at # "idle" => halt.on \in Runner

Roster == roster \in [Runner -> Row]

Runners ==
  /\ proc \in [Runner -> Nat]
  /\ cur \in [Runner -> Session \union {None}]
  /\ old \in [Runner -> Session \union {None}]
  /\ drain \in [Runner -> 0 .. Cap]
  /\ fmem \in [Runner -> Nat]
  /\ contact \in [Runner -> 0 .. Cap]
  /\ closed \subseteq Closed
  /\ sessions \in Nat /\ upsets \in Nat

(* No fence is in use that the ledger does not have.                         *)
Fences ==
  /\ resume.fence <= store.lease.fence
  /\ \A r \in Runner : /\ fmem[r] <= store.lease.fence
                       /\ cur[r] # None => cur[r].fence <= store.lease.fence
                       /\ old[r] # None => old[r].fence <= store.lease.fence

Typed == Rows /\ Agreed /\ Image /\ Resume /\ Halt /\ Roster /\ Runners /\ Fences

LEMMA NextImage == ASSUME Image, Resume, [Next]_vars PROVE Image'
<1> USE DEF Image
<1>1. ASSUME NEW gen \in Nat \union {None}, Accepted(gen) PROVE Image'
  BY <1>1 DEF Accepted
<1>2. CASE Answered \/ Listed
  BY <1>1, <1>2 DEF Answered, Listed, Resume
<1>3. ASSUME NEW halting \in BOOLEAN, Settled(halting) PROVE Image'
  BY <1>3 DEF Settled
<1>4. CASE Issue
  <2>1. CASE image.stopping
    BY <1>3, <1>4, <2>1 DEF Issue
  <2>2. CASE ~image.stopping
    BY <1>4, <2>2 DEF Issue
  <2> QED  BY <2>1, <2>2
<1>5. CASE GiveUp \/ Record \/ Fold
  BY <1>3, <1>5 DEF GiveUp, Record, Fold
<1>6. CASE Declined
  BY <1>6 DEF Declined
<1>7. ASSUME NEW r \in Runner, NEW window, Claim(r, window) PROVE Image'
  BY <1>7 DEF Claim
<1>8. CASE Send
  <2>1. image' = [image EXCEPT !.absent = FALSE]
    BY <1>8 DEF Send, Claim
  <2> QED  BY <2>1
<1>9. CASE Abort \/ HaltUnsure
  BY <1>9 DEF Abort, HaltUnsure
<1>10. CASE HaltGone
  BY <1>10 DEF HaltGone
<1>11. ASSUME NEW r \in Runner, Vacate(r) PROVE Image'
  BY <1>11 DEF Vacate
<1>12. ASSUME NEW e, HandleClosed(e) PROVE Image'
  <2>1. \/ image' = [image EXCEPT !.absent = FALSE]
        \/ image' = [image EXCEPT !.absent = FALSE, !.gen = image.gen]
        \/ image' = [image EXCEPT !.absent = FALSE, !.gen = None]
    BY <1>12 DEF HandleClosed
  <2> QED  BY <2>1
<1>13. CASE Restart \/ Restore
  BY <1>13 DEF Restart, Restore, NoImage
<1>14. CASE \/ Deliver \/ Reach \/ HaltStop \/ Tick \/ UNCHANGED vars
           \/ \E r \in Runner : \/ Align(r) \/ Probe(r) \/ SelfFence(r) \/ Finish(r) \/ Swap(r)
                                \/ Drained(r) \/ Die(r)
  <2>1. image' = image
    BY <1>14 DEF Deliver, Reach, HaltStop, Tick, Align, Probe, SelfFence, Finish, Ends, Swap,
                 Drained, Die, NewProcess
  <2> QED  BY <2>1
<1> QED
  BY <1>2, <1>4, <1>5, <1>6, <1>7, <1>8, <1>9, <1>10, <1>11, <1>12, <1>13, <1>14
     DEF Next, Reattach

LEMMA NextResume ==
  ASSUME Rows, Resume, Runners, [Next]_vars
  PROVE  /\ Resume'
         /\ resume'.fence = resume.fence \/ resume'.fence = 0 \/ resume'.fence = job.lease.fence
<1> DEFINE Good == /\ Resume'
                   /\ \/ resume'.fence = resume.fence \/ resume'.fence = 0
                      \/ resume'.fence = job.lease.fence
<1> USE DEF Resume
<1>1. CASE resume' = NoResume
  BY <1>1 DEF NoResume
<1>2. CASE Issue \/ GiveUp \/ Declined \/ Record \/ Fold
  <2>1. CASE Issue /\ ~image.stopping
    <3>1. resume' = [resume EXCEPT !.at = "issued", !.fence = job.lease.fence]
      BY <2>1 DEF Issue
    <3>2. job.lease.fence \in Nat
      BY DEF Rows, Job, Lease
    <3>3. resume.to \in Runner
      BY <2>1 DEF Issue
    <3> QED  BY <3>1, <3>2, <3>3
  <2> QED  BY <1>1, <1>2, <2>1 DEF Issue, GiveUp, Declined, Record, Fold, EndResume
<1>3. ASSUME NEW r \in Runner, NEW window \in {"none", "same", "move"}, Claim(r, window)
      PROVE Good
  BY <1>3 DEF Claim, NoResume
<1>4. CASE Send
  BY <1>3, <1>4 DEF Send, Rows, Job
<1>5. ASSUME NEW r \in Runner, Reattach(r) PROVE Good
  <2>1. PICK window \in {"same", "move"} : Claim(r, window)
    BY <1>5 DEF Reattach
  <2> QED  BY <1>3, <2>1
<1>6. CASE Reach
  <2> DEFINE gen == IF cur[resume.to] = None THEN sessions + 1 ELSE cur[resume.to].gen
  <2>1. resume.to \in Runner /\ resume.at = "issued"
    BY <1>6 DEF Reach
  <2>2. gen \in Nat
    BY <2>1 DEF Runners, Session
  <2>3. resume' = [resume EXCEPT !.at = "reached", !.gen = gen]
    BY <1>6 DEF Reach, Accept
  <2> QED  BY <2>1, <2>2, <2>3
<1>7. ASSUME NEW gen \in Nat \union {None}, Accepted(gen), resume.at # "idle" PROVE Good
  BY <1>7 DEF Accepted
<1>8. CASE Answered \/ Listed
  BY <1>7, <1>8 DEF Answered, Listed
<1>9. CASE Restart
  BY <1>1, <1>9 DEF Restart
<1>10. ASSUME NEW e, HandleClosed(e) PROVE Good
  BY <1>10 DEF HandleClosed
<1>11. CASE \/ Deliver \/ Abort \/ HaltStop \/ HaltGone \/ HaltUnsure \/ Tick \/ Restore
           \/ UNCHANGED vars
           \/ \E r \in Runner : \/ Vacate(r) \/ Align(r) \/ Probe(r) \/ SelfFence(r) \/ Finish(r)
                                \/ Swap(r) \/ Drained(r) \/ Die(r)
  <2>1. resume' = resume
    BY <1>11 DEF Deliver, Abort, HaltStop, HaltGone, HaltUnsure, Tick, Restore, Vacate, Align,
                 Probe, SelfFence, Finish, Ends, Swap, Drained, Die, NewProcess
  <2> QED  BY <2>1
<1> QED
  BY <1>2, <1>4, <1>5, <1>6, <1>8, <1>9, <1>10, <1>11 DEF Next

LEMMA NextHalt == ASSUME Rows, job' \in Job, Halt, [Next]_vars PROVE Halt'
<1> USE DEF Halt
<1>1. CASE halt' = NoHalt
  BY <1>1 DEF NoHalt
<1>2. job.runner \in Runner
  BY DEF Rows, Job
<1>3. CASE Abort
  BY <1>2, <1>3 DEF Abort, NoHalt
<1>4. ASSUME NEW r \in Runner, Vacate(r) PROVE Halt'
  BY <1>4 DEF Vacate, NoHalt
<1>5. CASE HaltStop
  BY <1>5 DEF HaltStop
<1>6. CASE HaltGone
  BY <1>1, <1>2, <1>6 DEF HaltGone
<1>7. CASE HaltUnsure \/ Restart
  BY <1>1, <1>7 DEF HaltUnsure, Restart
<1>8. ASSUME NEW r, NEW window, Claim(r, window) PROVE Halt'
  BY <1>8 DEF Claim
<1>9. ASSUME NEW gen, Accepted(gen) PROVE Halt'
  BY <1>9 DEF Accepted
<1>10. ASSUME NEW e, HandleClosed(e) PROVE Halt'
  BY <1>10 DEF HandleClosed
<1>11. CASE \/ Deliver \/ Issue \/ Reach \/ GiveUp \/ Declined \/ Record \/ Fold \/ Tick \/ Restore
           \/ UNCHANGED vars
           \/ \E r \in Runner : \/ Align(r) \/ Probe(r) \/ SelfFence(r) \/ Finish(r) \/ Swap(r)
                                \/ Drained(r) \/ Die(r)
  <2>1. halt' = halt
    BY <1>11 DEF Deliver, Issue, Reach, GiveUp, Declined, Record, Fold, Tick, Restore, Align,
                 Probe, SelfFence, Finish, Ends, Swap, Drained, Die, NewProcess
  <2> QED  BY <2>1
<1> QED
  BY <1>3, <1>4, <1>5, <1>6, <1>7, <1>8, <1>9, <1>10, <1>11
     DEF Next, Reattach, Send, Answered, Listed

LEMMA NextRoster == ASSUME Roster, proc \in [Runner -> Nat], [Next]_vars PROVE Roster'
<1> USE CapIsNat DEF Roster
<1>1. ASSUME NEW r \in Runner, Vacate(r) PROVE Roster'
  BY <1>1 DEF Vacate, Row
<1>2. ASSUME NEW r \in Runner, Probe(r) PROVE Roster'
  BY <1>2 DEF Probe, Row
<1>3. CASE Tick
  <2>1. ASSUME NEW r \in Runner PROVE roster'[r] \in Row
    <3>1. roster[r] \in Row /\ Older(roster[r].seen) \in 0 .. Cap /\ Older(roster[r].since) \in 0 .. Cap
      BY OlderType DEF Row
    <3> QED  BY <1>3, <3>1 DEF Tick, Row
  <2> QED  BY <1>3, <2>1 DEF Tick
<1>4. CASE Restart
  BY <1>4 DEF Restart, Unopened, Row
<1>5. ASSUME NEW r, NEW window, Claim(r, window) PROVE Roster'
  BY <1>5 DEF Claim
<1>6. ASSUME NEW gen, Accepted(gen) PROVE Roster'
  BY <1>6 DEF Accepted
<1>7. ASSUME NEW e, HandleClosed(e) PROVE Roster'
  BY <1>7 DEF HandleClosed
<1>8. CASE \/ Deliver \/ Issue \/ Reach \/ GiveUp \/ Declined \/ Record \/ Fold \/ Abort \/ HaltStop
          \/ HaltGone \/ HaltUnsure \/ Restore \/ UNCHANGED vars
          \/ \E r \in Runner : \/ Align(r) \/ SelfFence(r) \/ Finish(r) \/ Swap(r) \/ Drained(r)
                               \/ Die(r)
  <2>1. roster' = roster
    BY <1>8 DEF Deliver, Issue, Reach, GiveUp, Declined, Record, Fold, Abort, HaltStop, HaltGone,
                HaltUnsure, Restore, Align, SelfFence, Finish, Ends, Swap, Drained, Die, NewProcess
  <2> QED  BY <2>1
<1> QED
  BY <1>1, <1>2, <1>3, <1>4, <1>5, <1>6, <1>7, <1>8 DEF Next, Reattach, Send, Answered, Listed

(* The runners, and what they have accepted.                                 *)
Accepts == Runners /\ Fences

LEMMA ContactType ==
  ASSUME Runners, NEW r \in Runner, Contact(r) PROVE contact' \in [Runner -> 0 .. Cap]
  BY CapIsNat DEF Runners, Contact

LEMMA NextRunners ==
  ASSUME Rows, Resume, Halt, Runners, Fences, [Next]_vars, job' \in Job, store' \in Job,
         store'.lease.fence >= store.lease.fence, job.lease.fence = store.lease.fence
  PROVE  Accepts'
<1> USE CapIsNat DEF Accepts
<1>1. store.lease.fence \in Nat /\ store'.lease.fence \in Nat
  BY DEF Rows, Job, Lease
<1>2. resume'.fence <= store'.lease.fence
  BY <1>1, NextResume DEF Fences, Resume
<1>3. ASSUME UNCHANGED <<proc, cur, old, drain, fmem, closed, sessions>>, upsets' \in Nat,
             contact' \in [Runner -> 0 .. Cap]
      PROVE  Accepts'
  BY <1>1, <1>2, <1>3 DEF Runners, Fences, Session
<1>4. ASSUME NEW r \in Runner, Stops(r), UNCHANGED <<proc, old, drain, fmem, sessions>>,
             upsets' \in Nat, closed' \subseteq Closed
      PROVE  Accepts'
  BY <1>1, <1>2, <1>4 DEF Runners, Fences, Stops, Session
<1>5. ASSUME NEW gen \in Nat \union {None}, NEW taken \in BOOLEAN, EndResume(taken, gen)
      PROVE  closed' \subseteq Closed
  BY <1>5 DEF EndResume, Runners
<1>6. upsets \in Nat /\ contact \in [Runner -> 0 .. Cap] /\ closed \subseteq Closed
  BY DEF Runners
<1>7. ASSUME UNCHANGED <<proc, cur, old, drain, fmem, sessions, upsets>>, closed' \subseteq Closed,
             contact' \in [Runner -> 0 .. Cap]
      PROVE  Accepts'
  BY <1>1, <1>2, <1>6, <1>7 DEF Runners, Fences, Session
<1>8. ASSUME NEW r \in Runner, Reattach(r) PROVE Accepts'
  BY <1>3, <1>6, <1>8, ContactType DEF Reattach, Claim
<1>9. CASE Send
  BY <1>3, <1>6, <1>9 DEF Send, Claim
<1>10. CASE Deliver
  BY <1>3, <1>6, <1>10, ContactType DEF Deliver, Rows, Job
<1>11. CASE Issue
  BY <1>5, <1>6, <1>7, <1>11 DEF Issue
<1>12. CASE Reach
  <2> DEFINE r == resume.to
             gen == IF cur[r] = None THEN sessions + 1 ELSE cur[r].gen
             s == [fence |-> resume.fence, gen |-> gen]
  <2>1. r \in Runner /\ resume.fence \in Nat
    BY <1>12 DEF Reach, Resume
  <2>2. gen \in Nat
    BY <2>1 DEF Runners, Session
  <2>3. /\ cur' = [cur EXCEPT ![r] = s]
        /\ fmem' = [fmem EXCEPT ![r] = resume.fence]
        /\ contact' = [contact EXCEPT ![r] = 0]
        /\ sessions' \in {gen, sessions}
        /\ UNCHANGED <<proc, old, drain, closed, upsets, store>>
    BY <1>12 DEF Reach, Accept
  <2>4. s \in Session
    BY <2>1, <2>2 DEF Session
  <2>5. Runners'
    BY <2>1, <2>2, <2>3, <2>4 DEF Runners
  <2>6. Fences'
    BY <1>1, <1>2, <2>1, <2>3, <2>4 DEF Fences, Runners, Session
  <2> QED  BY <2>5, <2>6
<1>13. CASE Answered
  BY <1>3, <1>6, <1>13 DEF Answered, Accepted
<1>14. CASE Listed
  BY <1>3, <1>6, <1>14, ContactType DEF Listed, Accepted, Resume
<1>15. CASE GiveUp
  BY <1>5, <1>6, <1>7, <1>15 DEF GiveUp
<1>16. CASE Declined
  BY <1>5, <1>6, <1>7, <1>16, ContactType DEF Declined, Resume
<1>17. CASE Record
  BY <1>5, <1>6, <1>7, <1>17 DEF Record, Resume
<1>18. CASE Fold
  <2>1. closed' \subseteq Closed /\ resume.to \in Runner
    BY <1>5, <1>18 DEF Fold, Resume
  <2> QED  BY <1>4, <1>6, <1>7, <1>18, <2>1 DEF Fold
<1>19. CASE Abort
  BY <1>3, <1>6, <1>19 DEF Abort, Upset
<1>20. ASSUME NEW r \in Runner, Vacate(r) PROVE Accepts'
  BY <1>3, <1>6, <1>20 DEF Vacate, Upset
<1>21. CASE HaltStop
  <2>1. CASE Reachable(halt.on) /\ Stops(halt.on)
    <3>1. halt.on \in Runner /\ UNCHANGED <<proc, old, drain, fmem, sessions, upsets, closed>>
      BY <1>21 DEF HaltStop, Halt
    <3> QED  BY <1>4, <1>6, <2>1, <3>1
  <2> QED  BY <1>3, <1>6, <1>21, <2>1 DEF HaltStop
<1>22. CASE HaltGone
  <2>1. contact' \in [Runner -> 0 .. Cap]
    <3>1. halt.on \in Runner /\ Contact(halt.on)
      BY <1>22 DEF HaltGone, Halt
    <3> QED  BY <3>1, ContactType
  <2> QED  BY <1>3, <1>6, <1>22, <2>1 DEF HaltGone
<1>23. CASE HaltUnsure \/ Restart
  BY <1>3, <1>6, <1>23 DEF HaltUnsure, Restart, Upset
<1>24. ASSUME NEW e \in closed, HandleClosed(e) PROVE Accepts'
  BY <1>6, <1>7, <1>24 DEF HandleClosed
<1>25. ASSUME NEW r \in Runner, Align(r) \/ Probe(r) PROVE Accepts'
  BY <1>3, <1>6, <1>25, ContactType DEF Align, Probe
<1>26. ASSUME NEW r \in Runner, SelfFence(r) \/ Finish(r) PROVE Accepts'
  <2>1. cur[r] \in Session
    BY <1>26 DEF SelfFence, Finish, Runners
  <2>2. PICK fenced \in BOOLEAN : Ends(r, fenced)
    BY <1>26 DEF SelfFence, Finish
  <2>3. [from |-> r, gen |-> cur[r].gen, fenced |-> fenced] \in Closed
    BY <2>1 DEF Session, Closed
  <2>4. closed' \subseteq Closed
    BY <1>6, <2>2, <2>3 DEF Ends
  <2> QED  BY <1>4, <1>6, <1>26, <2>2, <2>4 DEF SelfFence, Finish, Ends, Upset
<1>27. ASSUME NEW r \in Runner, Upset, NewProcess(r), closed' \subseteq Closed,
              old' \in {old, [old EXCEPT ![r] = cur[r]]}, drain' \in {drain, [drain EXCEPT ![r] = 0]}
       PROVE  Accepts'
  BY <1>1, <1>2, <1>6, <1>27 DEF NewProcess, Stops, Upset, Runners, Fences, Session
<1>28. ASSUME NEW r \in Runner, Swap(r) \/ Die(r) PROVE Accepts'
  BY <1>6, <1>27, <1>28 DEF Swap, Die
<1>29. ASSUME NEW r \in Runner, Drained(r) PROVE Accepts'
  BY <1>1, <1>2, <1>6, <1>29 DEF Drained, Runners, Fences, Session
<1>30. CASE Tick
  <2>1. drain' \in [Runner -> 0 .. Cap] /\ contact' \in [Runner -> 0 .. Cap]
    <3>1. ASSUME NEW r \in Runner
          PROVE  /\ (IF old[r] = None THEN 0 ELSE Older(drain[r])) \in 0 .. Cap
                 /\ Older(contact[r]) \in 0 .. Cap
      BY OlderType DEF Runners
    <3> QED  BY <1>30, <3>1 DEF Tick
  <2>2. UNCHANGED <<resume, proc, cur, old, fmem, closed, sessions, upsets>>
    BY <1>30 DEF Tick
  <2>3. Runners'
    BY <2>1, <2>2 DEF Runners
  <2>4. Fences'
    BY <1>1, <2>2 DEF Fences, Runners, Session, Resume
  <2> QED  BY <2>3, <2>4
<1>31. CASE Restore
  <2>1. contact' \in [Runner -> 0 .. Cap]
    <3>1. PICK heard \in SUBSET Runner :
             contact' = [r \in Runner |-> IF r \in {s \in heard : cur[s] # None}
                                         THEN 0 ELSE contact[r]]
      BY <1>31 DEF Restore
    <3> QED  BY <1>6, <3>1
  <2> QED  BY <1>3, <1>6, <1>31, <2>1 DEF Restore
<1>32. CASE UNCHANGED vars
  BY <1>3, <1>6, <1>32
<1> QED
  BY <1>8, <1>9, <1>10, <1>11, <1>12, <1>13, <1>14, <1>15, <1>16, <1>17, <1>18, <1>19, <1>20,
     <1>21, <1>22, <1>23, <1>24, <1>25, <1>26, <1>28, <1>29, <1>30, <1>31, <1>32 DEF Next

LEMMA TypedInit == Init => Typed
<1> SUFFICES ASSUME Init PROVE Typed
  OBVIOUS
<1> USE CapIsNat
<1>1. PICK r \in Runner :
        /\ job = [status |-> "running", runner |-> r,
                  lease |-> [runner |-> r, proc |-> 1, fence |-> 1, released |-> FALSE, age |-> 0]]
        /\ cur = [s \in Runner |-> IF s = r THEN [fence |-> 1, gen |-> 1] ELSE None]
        /\ fmem = [s \in Runner |-> IF s = r THEN 1 ELSE 0]
  BY DEF Init
<1>2. job \in Job /\ store = job
  BY <1>1 DEF Init, Job, Lease, Status
<1>3. Rows /\ Agreed
  BY <1>2 DEF Rows, Agreed, SameTerm
<1>4. Image /\ Resume /\ Halt
  BY DEF Init, NoImage, NoResume, NoHalt, Image, Resume, Halt
<1>5. Roster
  BY DEF Init, Roster, Row
<1>6. cur \in [Runner -> Session \union {None}] /\ fmem \in [Runner -> Nat]
  BY <1>1 DEF Session
<1>7. Runners
  BY <1>6 DEF Init, Runners, Closed
<1>8. store.lease.fence = 1 /\ resume.fence = 0
  BY <1>1, <1>2 DEF Init, NoResume
<1>9. Fences
  BY <1>1, <1>8 DEF Init, Fences
<1> QED
  BY <1>3, <1>4, <1>5, <1>7, <1>9 DEF Typed

LEMMA TypedStep == Typed /\ [Next]_vars => Typed'
<1> SUFFICES ASSUME Typed, [Next]_vars PROVE Typed'
  OBVIOUS
<1>1. LedgerStep
  BY NextLedger DEF Typed, Copy, Roster, Resume
<1>2. Image' /\ Resume' /\ Roster'
  BY NextImage, NextResume, NextRoster DEF Typed, Runners
<1>3. Halt'
  BY <1>1, NextHalt DEF Typed, LedgerStep, Rows
<1>4. Accepts'
  BY <1>1, NextRunners DEF Typed, LedgerStep, Rows, Agreed, SameTerm, Succeeds
<1> QED
  BY <1>1, <1>2, <1>3, <1>4 DEF Typed, LedgerStep, Accepts

LEMMA AlwaysTyped == Spec => []Typed
  BY TypedInit, TypedStep, PTL DEF Spec

-----------------------------------------------------------------------------
(* The theorems.                                                             *)

(* The state keeps its shape: a session has an owner, an age its cap, and a  *)
(* row that was written can be read again.                                   *)
THEOREM TypesHold == Spec => []TypeOK
<1>1. Typed => TypeOK
  BY DEF Typed, Rows, Image, Resume, Halt, Roster, Runners, TypeOK
<1> QED
  BY <1>1, AlwaysTyped, PTL

(* No runner has accepted a fence that the ledger does not have, in whatever *)
(* order claims, crashes and late answers come.                              *)
THEOREM FencesAreLedgered == Spec => []FenceIsLedgered
<1>1. Typed => FenceIsLedgered
  BY DEF Typed, Fences, FenceIsLedgered
<1> QED
  BY <1>1, AlwaysTyped, PTL

(* The lease in the ledger changes hands only under a newer fence.           *)
THEOREM LeasesSucceed == Spec => LeaseSuccession
<1>1. Typed /\ [Next]_vars => Succeeds
  BY NextLedger DEF Typed, Copy, Roster, Resume, LedgerStep
<1>2. Succeeds => [LET was == store.lease  now == store'.lease
                   IN /\ now.fence >= was.fence
                      /\ now.fence = was.fence =>
                           /\ now.runner = was.runner /\ now.proc = was.proc
                           /\ was.released => now.released]_store
  BY DEF Succeeds, SameTerm
<1> QED
  BY <1>1, <1>2, AlwaysTyped, PTL DEF Spec, LeaseSuccession
-----------------------------------------------------------------------------
(* One session, under all the premises.                                      *)

Quiet == {"idle", "claimed", "issued", "record"}
Nobody == \A r \in Runner : cur[r] = None
Vacant == Nobody /\ \A r \in Runner : old[r] = None

(* Whoever works on the delegation is the runner that the lease names.       *)
Holder ==
  \A r \in Runner : /\ cur[r] # None \/ old[r] # None => r = job.lease.runner
                    /\ cur[r] = None \/ old[r] = None

(* A process that drains is older than the one the roster may know.          *)
Processes ==
  /\ job.lease.proc <= proc[job.lease.runner]
  /\ \A r \in Runner : /\ proc[r] >= 1 /\ roster[r].proc <= proc[r]
                       /\ old[r] # None => job.lease.proc < proc[r]

(* It ends before what the roster and the lease wait for has gone by.        *)
Draining ==
  \A r \in Runner : old[r] # None =>
     /\ drain[r] <= Drain
     /\ roster[r].proc = proc[r] => roster[r].since <= drain[r]
     /\ job.lease.age + Drain < Cap + drain[r]
     /\ store.lease.age + Drain < Cap + drain[r]

(* A runner with a session has been heard within the term of its lease.      *)
Watched ==
  \A r \in Runner : cur[r] # None =>
     /\ contact[r] <= Ttl
     /\ Opened(r) => /\ contact[r] > 0 => roster[r].seen <= contact[r]
                     /\ roster[r].seen <= Ttl \/ job.lease.age = 0

(* A session is the last one opened; one that was said to be closed is not.  *)
Generations ==
  /\ \A r \in Runner : /\ cur[r] # None => cur[r].gen = sessions
                       /\ old[r] # None => old[r].gen = sessions
  /\ \A e \in closed : e.gen <= sessions /\ (e.gen = sessions => Vacant)
  /\ image.gen # None => image.gen = sessions
  /\ resume.at \in {"issued", "reached"} => image.gen = None
  /\ resume.at = "reached" => resume.gen = sessions

(* A resume is for the holder of the lease, and nobody else works meanwhile. *)
Resuming ==
  resume.at # "idle" =>
     /\ resume.to = job.lease.runner /\ job.lease.age = 0 /\ ~image.absent
     /\ \A r \in Runner : old[r] = None
     /\ resume.at \in {"claimed", "issued"} /\ resume.window # "none" => Nobody
     /\ resume.at \in Quiet => \A r \in Runner : cur[r] # None => r = job.runner

(* A lease that was released has no session, or a resume will find itself    *)
(* stopped.                                                                  *)
Released ==
  job.lease.released => IF resume.at = "idle" THEN Vacant
                        ELSE image.stopping /\ job.status = "stopped"

(* A stop meets the session where it looks for it.                           *)
Halting ==
  halt.at # "idle" =>
    /\ ~image.absent
    /\ halt.by = "vacate" => resume.at = "idle"
    /\ halt.by = "abort" =>
         /\ image.stopping
         /\ resume.at \in Quiet => \A r \in Runner : cur[r] # None => r = halt.on
         /\ ~halt.again /\ job.runner # halt.on => halt.on # job.lease.runner

(* What was stopped has no session but one that a resume has just opened.    *)
Stopped ==
  /\ job.status = "stopped" /\ resume.at \in Quiet => Nobody
  /\ resume.at # "record" => job.status = store.status

Sound == /\ Holder /\ Processes /\ Draining /\ Watched /\ Generations
         /\ Resuming /\ Released /\ Halting /\ Stopped

LEMMA Premises ==
  ASSUME Assumed = Premise
  PROVE  /\ Has("prompt") /\ Has("heard") /\ Has("noticed") /\ Has("fresh")
         /\ Has("opened") /\ Has("apart") /\ Has("latest") /\ Has("answered")
  BY DEF Has, Premise

LEMMA Terms ==
  /\ Cap \in Nat /\ Ttl \in Nat /\ Ttl >= 1 /\ Drain \in Nat /\ Margin \in Nat /\ Margin >= 1
  /\ Drain <= Ttl /\ Ttl < Cap /\ Cap = Ttl + Margin
  BY DEF Cap

(* The two verdicts that infer the end of a session infer it rightly.        *)
LEMMA FreeEnds ==
  ASSUME Assumed = Premise, Typed, Sound, NEW r \in Runner, Known(r), Opened(job.lease.runner),
         MayClaim(job.lease, r), ~job.lease.released
  PROVE  /\ \A s \in Runner : old[s] = None
         /\ \A s \in Runner : cur[s] # None => s = r
<1> DEFINE l == job.lease
<1>1. /\ l.runner \in Runner /\ l.proc \in Nat /\ l.age \in 0 .. Cap /\ proc[r] \in Nat
  BY DEF Typed, Rows, Job, Lease, Runners
<1>2. roster[r].proc = proc[r]
  BY Premises DEF Known
<1>3. /\ roster[l.runner].seen \in 0 .. Cap /\ roster[r].since \in 0 .. Cap
      /\ drain[r] \in 0 .. Cap /\ drain[l.runner] \in 0 .. Cap
  BY <1>1 DEF Typed, Roster, Row, Runners
<1>4. CASE l.runner = r /\ roster[r].proc = l.proc
  <2>1. old[r] = None
    <3>1. old[r] # None => job.lease.proc < proc[r]
      BY DEF Sound, Processes
    <3> QED
      BY <1>1, <1>2, <1>4, <3>1
  <2> QED
    BY <1>4, <2>1 DEF Sound, Holder
<1>5. CASE l.runner = r /\ Expired(l, r)
  <2>1. roster[r].since >= Drain + Margin \/ l.age >= Cap
    BY <1>5 DEF Expired
  <2>2. old[r] = None
    BY <1>1, <1>2, <1>3, <2>1, Terms DEF Sound, Draining
  <2> QED
    BY <1>5, <2>2 DEF Sound, Holder
<1>6. CASE l.runner # r /\ Expired(l, r)
  <2>1. l.age >= Cap /\ roster[l.runner].seen >= Cap
    BY <1>6 DEF Expired
  <2>2. old[l.runner] = None
    BY <1>1, <1>3, <2>1, Terms DEF Sound, Draining
  <2>3. cur[l.runner] = None
    BY <1>1, <1>3, <2>1, Terms DEF Sound, Watched
  <2> QED
    BY <2>2, <2>3 DEF Sound, Holder
<1> QED
  BY <1>4, <1>5, <1>6 DEF MayClaim, Verdict

(* A lease without a session is one that a stop may release.                 *)
LEMMA ConfirmedEnds ==
  ASSUME Assumed = Premise, Typed, Sound, NEW r \in Runner, Reachable(r),
         Confirmed(r).lease.released, ~job.lease.released
  PROVE  r = job.lease.runner /\ \A s \in Runner : old[s] = None
<1>1. job.lease.runner = r /\ MayClaim(job.lease, r)
  BY DEF Confirmed
<1>2. Known(r) /\ Opened(job.lease.runner)
  BY <1>1 DEF Reachable
<1> QED
  BY <1>1, <1>2, FreeEnds

-----------------------------------------------------------------------------
(* What most steps leave alone.                                              *)

(* The row names the same holder, and the lease is not older.                *)
RowKept ==
  /\ job'.lease.runner = job.lease.runner /\ job'.lease.proc = job.lease.proc
  /\ job'.lease.age \in {job.lease.age, 0}
  /\ store'.lease.age \in {store.lease.age, job.lease.age, 0}

(* The row says no more than before of where the delegation is, and of how it*)
(* ended.                                                                    *)
RowSays(status, runner, released) ==
  /\ job'.status = status /\ job'.runner = runner /\ job'.lease.released = released

(* No session is opened and none changes places.                             *)
Shrinks == \A r \in Runner : cur'[r] \in {cur[r], None} /\ old'[r] \in {old[r], None}

(* The roster's row but for its being emptied.                               *)
SameRow(r) == /\ roster'[r].proc = roster[r].proc /\ roster'[r].since = roster[r].since
              /\ roster'[r].seen = roster[r].seen /\ Opened(r)' = Opened(r)

Calm ==
  /\ RowKept /\ Shrinks /\ proc' = proc /\ sessions' = sessions
  /\ \A r \in Runner : /\ SameRow(r)
                       /\ old'[r] # None => drain'[r] = drain[r]
                       /\ cur'[r] # None => contact'[r] \in {contact[r], 0}

LEMMA PersistLeaves ==
  ASSUME Typed, NEW j \in Job, SameTerm(j, job), j.lease.age = job.lease.age, Persist(j)
  PROVE  /\ RowKept /\ RowSays(j.status, j.runner, j.lease.released)
         /\ store'.status = j.status
<1>1. Touched(j).lease.age \in {j.lease.age, 0}
  BY CapIsNat DEF Touched, Job, Lease
<1>2. /\ SameTerm(Touched(j), j) /\ Touched(j).lease.released = j.lease.released
      /\ Touched(j).status = j.status /\ Touched(j).runner = j.runner
  BY TouchedKeeps
<1>3. job' = Touched(j) /\ store' = Touched(j)
  BY DEF Persist
<1> QED
  BY <1>1, <1>2, <1>3 DEF RowKept, RowSays, SameTerm

LEMMA SameLeaves ==
  ASSUME UNCHANGED ledger
  PROVE  /\ RowKept /\ RowSays(job.status, job.runner, job.lease.released)
         /\ store'.status = store.status
  BY DEF RowKept, RowSays

LEMMA CalmSessions ==
  ASSUME Typed, Sound, Calm PROVE Holder' /\ Processes' /\ Draining' /\ Watched'
<1>1. job.lease.runner \in Runner /\ job.lease.age \in 0 .. Cap /\ store.lease.age \in 0 .. Cap
  BY DEF Typed, Rows, Job, Lease
<1>2. \A r \in Runner : drain[r] \in Nat /\ proc[r] \in Nat /\ contact[r] \in 0 .. Cap
                        /\ roster[r].seen \in 0 .. Cap
  BY CapIsNat DEF Typed, Runners, Roster, Row
<1>3. Holder'
  BY DEF Calm, Shrinks, RowKept, Sound, Holder
<1>4. Processes'
  <2>1. job'.lease.proc <= proc'[job'.lease.runner]
    BY DEF Calm, RowKept, Sound, Processes
  <2>2. ASSUME NEW r \in Runner
        PROVE  /\ proc'[r] >= 1 /\ roster'[r].proc <= proc'[r]
               /\ old'[r] # None => job'.lease.proc < proc'[r]
    BY <2>2 DEF Calm, Shrinks, RowKept, SameRow, Sound, Processes
  <2> QED
    BY <2>1, <2>2 DEF Processes
<1>5. Draining'
  <2> SUFFICES ASSUME NEW r \in Runner, old'[r] # None
               PROVE  /\ drain'[r] <= Drain
                      /\ roster'[r].proc = proc'[r] => roster'[r].since <= drain'[r]
                      /\ job'.lease.age + Drain < Cap + drain'[r]
                      /\ store'.lease.age + Drain < Cap + drain'[r]
    BY DEF Draining
  <2>1. old[r] # None /\ drain'[r] = drain[r]
    BY DEF Calm, Shrinks
  <2>2. /\ drain[r] <= Drain
        /\ roster[r].proc = proc[r] => roster[r].since <= drain[r]
        /\ job.lease.age + Drain < Cap + drain[r]
        /\ store.lease.age + Drain < Cap + drain[r]
    BY <2>1 DEF Sound, Draining
  <2>3. /\ job'.lease.age \in {job.lease.age, 0}
        /\ store'.lease.age \in {store.lease.age, job.lease.age, 0}
        /\ roster'[r].proc = roster[r].proc /\ roster'[r].since = roster[r].since /\ proc' = proc
    BY DEF Calm, RowKept, SameRow
  <2> QED
    BY <1>1, <1>2, <2>1, <2>2, <2>3, Terms
<1>6. Watched'
  <2> SUFFICES ASSUME NEW r \in Runner, cur'[r] # None
               PROVE  /\ contact'[r] <= Ttl
                      /\ Opened(r)' => /\ contact'[r] > 0 => roster'[r].seen <= contact'[r]
                                       /\ roster'[r].seen <= Ttl \/ job'.lease.age = 0
    BY DEF Watched, Opened
  <2>1. cur[r] # None /\ contact'[r] \in {contact[r], 0}
    BY DEF Calm, Shrinks
  <2>2. roster'[r].seen = roster[r].seen /\ Opened(r)' = Opened(r)
    BY DEF Calm, SameRow
  <2>3. job'.lease.age \in {job.lease.age, 0}
    BY DEF Calm, RowKept
  <2>4. /\ contact[r] <= Ttl
        /\ Opened(r) => /\ contact[r] > 0 => roster[r].seen <= contact[r]
                        /\ roster[r].seen <= Ttl \/ job.lease.age = 0
    BY <2>1 DEF Sound, Watched
  <2> QED
    BY <1>1, <1>2, <2>1, <2>2, <2>3, <2>4, Terms
<1> QED
  BY <1>3, <1>4, <1>5, <1>6

LEMMA SameGenerations ==
  ASSUME Typed, Sound, Shrinks, sessions' = sessions, closed' \subseteq closed,
         image'.gen \in {image.gen, None}, resume'.at \in {"issued", "reached"} => resume' = resume
  PROVE  Generations'
<1>1. \A r \in Runner : /\ cur'[r] # None => cur'[r].gen = sessions'
                        /\ old'[r] # None => old'[r].gen = sessions'
  BY DEF Shrinks, Sound, Generations
<1>2. Vacant => Vacant'
  BY DEF Vacant, Nobody, Shrinks
<1>3. \A e \in closed' : e.gen <= sessions' /\ (e.gen = sessions' => Vacant')
  BY <1>2 DEF Sound, Generations
<1>4. image'.gen # None => image'.gen = sessions'
  BY DEF Sound, Generations
<1>5. /\ resume'.at \in {"issued", "reached"} => image'.gen = None
      /\ resume'.at = "reached" => resume'.gen = sessions'
  BY DEF Sound, Generations
<1> QED
  BY <1>1, <1>3, <1>4, <1>5 DEF Generations

Rest == Resuming /\ Released /\ Halting /\ Stopped

(* Neither the resume nor the stop goes on.                                  *)
Waits ==
  /\ Shrinks /\ job'.lease.runner = job.lease.runner
  /\ job'.lease.age = 0 \/ job'.lease.age = job.lease.age \/ resume.at = "idle"
  /\ resume' = resume /\ halt' = halt
  /\ image'.stopping = image.stopping /\ image'.absent \in {image.absent, FALSE}
  /\ RowSays(job.status, job.runner, job.lease.released)
  /\ store'.status \in {store.status, job.status}

LEMMA WaitingRest == ASSUME Sound, Waits PROVE Rest'
<1>1. (Vacant => Vacant') /\ (Nobody => Nobody')
  BY DEF Waits, Shrinks, Vacant, Nobody
<1>2. Resuming'
  BY <1>1 DEF Waits, Shrinks, RowSays, Sound, Resuming, Quiet
<1>3. Released'
  BY <1>1 DEF Waits, RowSays, Sound, Released
<1>4. Halting'
  BY DEF Waits, Shrinks, RowSays, Sound, Halting, Quiet
<1>5. Stopped'
  BY <1>1 DEF Waits, RowSays, Sound, Stopped, Quiet
<1> QED
  BY <1>2, <1>3, <1>4, <1>5 DEF Rest

LEMMA SoundFrom ==
  ASSUME Holder' /\ Processes' /\ Draining' /\ Watched', Generations', Rest' PROVE Sound'
  BY DEF Sound, Rest

-----------------------------------------------------------------------------
(* The steps that leave the resume and the stop where they are.              *)

LEMMA ContactLeaves ==
  ASSUME Runners, NEW r \in Runner, Contact(r)
  PROVE  \A s \in Runner : cur[s] # None => contact'[s] \in {contact[s], 0}
  BY DEF Contact, Runners

LEMMA StopsShrinks ==
  ASSUME Runners, NEW r \in Runner, Stops(r), old' = old
  PROVE  /\ Shrinks /\ cur'[r] = None
         /\ \A s \in Runner : s # r => cur'[s] = cur[s] /\ contact'[s] = contact[s]
  BY DEF Runners, Stops, Shrinks

LEMMA EndsStep ==
  ASSUME Typed, Sound, NEW r \in Runner, SelfFence(r) \/ Finish(r) PROVE Sound'
<1>1. PICK fenced \in BOOLEAN : Ends(r, fenced)
  BY DEF SelfFence, Finish
<1>2. cur[r] # None
  BY DEF SelfFence, Finish
<1>3. UNCHANGED ledger /\ UNCHANGED daemon /\ UNCHANGED <<proc, old, drain, sessions>> /\ Stops(r)
  BY <1>1 DEF Ends
<1>4. /\ Shrinks /\ cur'[r] = None
      /\ \A s \in Runner : s # r => cur'[s] = cur[s] /\ contact'[s] = contact[s]
  BY <1>3, StopsShrinks DEF Typed
<1>5. Calm
  BY <1>3, <1>4, SameLeaves DEF Calm, SameRow, Opened
<1>6. Generations'
  <2>1. cur[r].gen = sessions
    BY <1>2 DEF Sound, Generations
  <2>2. closed' = closed \union {[from |-> r, gen |-> sessions, fenced |-> fenced]}
    BY <1>1, <2>1 DEF Ends
  <2>3. Vacant'
    BY <1>2, <1>3, <1>4 DEF Sound, Holder, Vacant, Nobody
  <2>4. sessions \in Nat /\ sessions' = sessions
    BY <1>3 DEF Typed, Runners
  <2>5. \A e \in closed' : e.gen <= sessions' /\ (e.gen = sessions' => Vacant')
    BY <2>2, <2>3, <2>4 DEF Sound, Generations
  <2>6. \A s \in Runner : /\ cur'[s] # None => cur'[s].gen = sessions'
                          /\ old'[s] # None => old'[s].gen = sessions'
    BY <1>4, <2>4 DEF Shrinks, Sound, Generations
  <2>7. /\ image'.gen # None => image'.gen = sessions'
        /\ resume'.at \in {"issued", "reached"} => image'.gen = None
        /\ resume'.at = "reached" => resume'.gen = sessions'
    BY <1>3, <2>4 DEF Sound, Generations
  <2> QED
    BY <2>5, <2>6, <2>7 DEF Generations
<1>7. Waits
  BY <1>3, <1>4, SameLeaves DEF Waits, RowKept
<1> QED
  BY <1>5, <1>6, <1>7, CalmSessions, WaitingRest, SoundFrom

LEMMA DrainedStep ==
  ASSUME Typed, Sound, NEW r \in Runner, Drained(r) PROVE Sound'
<1>1. /\ old' = [old EXCEPT ![r] = None] /\ drain' = [drain EXCEPT ![r] = 0]
      /\ UNCHANGED ledger /\ UNCHANGED daemon /\ UNCHANGED <<proc, cur, contact, closed, sessions>>
  BY DEF Drained
<1>2. Shrinks /\ \A s \in Runner : old'[s] # None => drain'[s] = drain[s]
  BY <1>1 DEF Typed, Runners, Shrinks
<1>3. Calm
  BY <1>1, <1>2, SameLeaves DEF Calm, SameRow, Opened
<1>4. Waits
  BY <1>1, <1>2, SameLeaves DEF Waits, RowKept
<1>5. Generations'
  BY <1>1, <1>2, SameGenerations
<1> QED
  BY <1>3, <1>4, <1>5, CalmSessions, WaitingRest, SoundFrom

LEMMA StutterStep == ASSUME Typed, Sound, UNCHANGED vars PROVE Sound'
<1>1. Calm
  BY SameLeaves DEF Calm, Shrinks, SameRow, Opened
<1>2. Waits
  BY SameLeaves DEF Waits, RowKept, Shrinks
<1>3. Generations'
  BY SameGenerations DEF Shrinks
<1> QED
  BY <1>1, <1>2, <1>3, CalmSessions, WaitingRest, SoundFrom

(* A request reaches a runner that has the session, and the row is written.  *)
LEMMA WritingStep ==
  ASSUME Typed, Sound, NEW j \in Job, NEW s \in Runner, Persist(j), SameTerm(j, job),
         j.lease.age = job.lease.age, j.lease.released = job.lease.released,
         resume.at # "idle" => ~image.stopping \/ j.status = job.status,
         j.runner \in {job.runner, s}, cur[s] # None, j.status \in {"running", "ended", job.status},
         \A r \in Runner : cur[r] # None => contact'[r] \in {contact[r], 0},
         UNCHANGED <<resume, halt, roster, proc, cur, old, drain, closed, sessions>>,
         image' = [image EXCEPT !.absent = FALSE] \/ image' = image
  PROVE  Sound'
<1>1. /\ RowKept /\ RowSays(j.status, j.runner, j.lease.released) /\ store'.status = j.status
  BY PersistLeaves
<1>2. Shrinks
  BY DEF Shrinks
<1>3. image'.gen = image.gen /\ image'.stopping = image.stopping
      /\ image'.absent \in {image.absent, FALSE}
  BY DEF Typed, Image
<1>4. Calm
  BY <1>1, <1>2 DEF Calm, SameRow, Opened
<1>5. Generations'
  BY <1>2, <1>3, SameGenerations
<1>6. s = job.lease.runner /\ (Vacant' <=> Vacant) /\ (Nobody' <=> Nobody) /\ ~Nobody
  BY DEF Sound, Holder, Vacant, Nobody
<1>7. Resuming'
  <2> SUFFICES ASSUME resume.at # "idle" PROVE Resuming'
    BY DEF Resuming
  <2>1. /\ resume.to = job.lease.runner /\ job.lease.age = 0 /\ ~image.absent
        /\ \A r \in Runner : old[r] = None
        /\ resume.at \in {"claimed", "issued"} /\ resume.window # "none" => Nobody
        /\ resume.at \in Quiet => \A r \in Runner : cur[r] # None => r = job.runner
    BY DEF Sound, Resuming
  <2>2. \A r \in Runner : cur[r] # None => r = s
    BY <1>6 DEF Sound, Holder
  <2>3. job'.lease.runner = job.lease.runner /\ job'.lease.age = 0 /\ ~image'.absent
    BY <1>1, <1>3, <2>1 DEF RowKept
  <2>4. resume.at \in Quiet => \A r \in Runner : cur[r] # None => r = job'.runner
    BY <1>1, <2>1, <2>2 DEF RowSays
  <2> QED
    BY <1>6, <2>1, <2>3, <2>4 DEF Resuming, Quiet
<1>8. Released'
  BY <1>1, <1>3, <1>6 DEF RowSays, Sound, Released
<1>9. Halting'
  BY <1>1, <1>3, <1>6 DEF RowKept, RowSays, Sound, Halting, Quiet
<1>10. Stopped'
  BY <1>1, <1>6 DEF RowSays, Sound, Stopped, Quiet
<1> QED
  BY <1>4, <1>5, <1>7, <1>8, <1>9, <1>10, CalmSessions, SoundFrom DEF Rest

LEMMA DeliverStep == ASSUME Typed, Sound, Deliver PROVE Sound'
<1> DEFINE j == [job EXCEPT !.status = "running"]
<1>1. /\ j \in Job /\ SameTerm(j, job) /\ j.lease = job.lease
      /\ j.status = "running" /\ j.runner = job.runner
  BY DEF Typed, Rows, Job, Status, SameTerm
<1>2. job.runner \in Runner
  BY DEF Typed, Rows, Job
<1>3. \A r \in Runner : cur[r] # None => contact'[r] \in {contact[r], 0}
  BY <1>2, ContactLeaves DEF Deliver, Typed
<1>4. /\ cur[job.runner] # None /\ ~image.stopping /\ Persist(j)
      /\ UNCHANGED <<image, resume, halt, roster, proc, cur, old, drain, closed, sessions>>
  BY DEF Deliver
<1> HIDE DEF j
<1> QED
  BY <1>1, <1>2, <1>3, <1>4, WritingStep

LEMMA AlignStep == ASSUME Typed, Sound, NEW r \in Runner, Align(r) PROVE Sound'
<1> DEFINE j == [job EXCEPT !.runner = r]
<1>1. /\ j \in Job /\ SameTerm(j, job) /\ j.lease = job.lease
      /\ j.status = job.status /\ j.runner = r
  BY DEF Typed, Rows, Job, SameTerm
<1>2. \A s \in Runner : cur[s] # None => contact'[s] \in {contact[s], 0}
  BY ContactLeaves DEF Align, Typed
<1>3. /\ cur[r] # None /\ Persist(j)
      /\ UNCHANGED <<image, resume, halt, roster, proc, cur, old, drain, closed, sessions>>
  BY DEF Align
<1> HIDE DEF j
<1> QED
  BY <1>1, <1>2, <1>3, WritingStep

LEMMA RestoreStep == ASSUME Typed, Sound, Restore PROVE Sound'
<1>1. image.absent /\ resume.at = "idle"
  BY DEF Restore, Sound, Resuming
<1>2. PICK heard \in SUBSET {r \in Runner : Reachable(r)} :
        LET living == {r \in heard : cur[r] # None}
        IN /\ contact' = [r \in Runner |-> IF r \in living THEN 0 ELSE contact[r]]
           /\ \/ \E r \in living : Persist([job EXCEPT !.status = "running", !.runner = r])
              \/ /\ living = {} /\ job.runner \in heard /\ job.status # "lost"
                 /\ UNCHANGED ledger
  BY DEF Restore
<1>3. \A r \in Runner : contact'[r] \in {contact[r], 0}
  BY <1>2
<1>4. /\ image' = [image EXCEPT !.absent = FALSE]
      /\ UNCHANGED <<resume, halt, roster, proc, cur, old, drain, closed, sessions>>
  BY DEF Restore
<1>5. ASSUME NEW r \in Runner, cur[r] # None,
             Persist([job EXCEPT !.status = "running", !.runner = r])
      PROVE  Sound'
  <2> DEFINE j == [job EXCEPT !.status = "running", !.runner = r]
  <2>1. /\ j \in Job /\ SameTerm(j, job) /\ j.lease = job.lease
        /\ j.status = "running" /\ j.runner = r
    BY DEF Typed, Rows, Job, Status, SameTerm
  <2>2. Persist(j)
    BY <1>5
  <2> HIDE DEF j
  <2> QED
    BY <1>1, <1>3, <1>4, <1>5, <2>1, <2>2, WritingStep
<1>6. CASE UNCHANGED ledger
  <2>1. Shrinks
    BY <1>4 DEF Shrinks
  <2>2. image'.gen = image.gen /\ image'.stopping = image.stopping
        /\ image'.absent \in {image.absent, FALSE}
    BY <1>4 DEF Typed, Image
  <2>3. Calm
    BY <1>3, <1>4, <1>6, <2>1, SameLeaves DEF Calm, SameRow, Opened
  <2>4. Waits
    BY <1>4, <1>6, <2>1, <2>2, SameLeaves DEF Waits, RowKept
  <2>5. Generations'
    BY <1>4, <2>1, <2>2, SameGenerations
  <2> QED
    BY <2>3, <2>4, <2>5, CalmSessions, WaitingRest, SoundFrom
<1> QED
  BY <1>2, <1>5, <1>6

-----------------------------------------------------------------------------
(* The steps of a resume after its claim.                                    *)

(* The resume is over: nothing is opened, and what was stopped has ended.    *)
LEMMA IdleStep ==
  ASSUME Typed, Sound, Calm, resume.at # "idle", resume' = NoResume, closed' \subseteq closed,
         image'.gen \in {image.gen, None}, image'.absent = image.absent, halt' = halt,
         halt.at # "idle" => image'.stopping = image.stopping, job'.runner = job.runner,
         job'.status = store'.status, job'.status \in {job.status, "lost"},
         job'.status = "stopped" => Nobody',
         job'.lease.released => Nobody',
         resume.at \in Quiet \/ Nobody'
  PROVE  Sound'
<1>1. resume'.at = "idle"
  BY DEF NoResume
<1>2. Generations'
  BY <1>1, SameGenerations DEF Calm
<1>3. Resuming' /\ Released'
  <2>1. \A r \in Runner : old'[r] = None
    BY DEF Sound, Resuming, Calm, Shrinks
  <2> QED
    BY <1>1, <2>1 DEF Resuming, Released, Vacant, Nobody
<1>4. Halting'
  BY DEF Sound, Halting, Calm, RowKept, Shrinks, Nobody, Quiet
<1>5. Stopped'
  BY <1>1 DEF Stopped
<1> QED
  BY <1>2, <1>3, <1>4, <1>5, CalmSessions, SoundFrom DEF Rest

LEMMA SettledImage ==
  ASSUME Typed, NEW halting \in BOOLEAN, Settled(halting)
  PROVE  /\ image'.gen = image.gen /\ image'.absent = image.absent
         /\ halting => image'.stopping = image.stopping
  BY DEF Typed, Image, Settled

LEMMA EndResumeLeaves ==
  ASSUME NEW accepted, NEW gen, EndResume(accepted, gen)
  PROVE  resume' = NoResume /\ closed' \subseteq closed
  BY DEF EndResume

LEMMA IssueStep == ASSUME Assumed = Premise, Typed, Sound, Issue PROVE Sound'
<1>1. resume.at = "claimed" /\ UNCHANGED ledger /\ UNCHANGED <<halt, roster, runners, sessions>>
  BY DEF Issue
<1>2. Calm
  BY <1>1, SameLeaves DEF Calm, Shrinks, SameRow, Opened
<1>3. /\ Nobody' <=> Nobody
      /\ job.status = "stopped" => Nobody
      /\ job.status = store.status
      /\ job.lease.released => image.stopping /\ job.status = "stopped"
  BY <1>1 DEF Sound, Released, Stopped, Quiet, Nobody
<1>4. CASE image.stopping
  <2>1. EndResume(FALSE, None) /\ Settled(halt.at # "idle")
    BY <1>4 DEF Issue
  <2>2. resume' = NoResume /\ closed' \subseteq closed
    BY <2>1, EndResumeLeaves
  <2>3. /\ image'.gen = image.gen /\ image'.absent = image.absent
        /\ halt.at # "idle" => image'.stopping = image.stopping
    BY <2>1, SettledImage
  <2> QED
    BY <1>1, <1>2, <1>3, <2>2, <2>3, IdleStep DEF Quiet
<1>5. CASE ~image.stopping
  <2>1. /\ resume' = [resume EXCEPT !.at = "issued", !.fence = job.lease.fence]
        /\ image' = [image EXCEPT !.gen = None] /\ closed' = closed
    BY <1>5 DEF Issue
  <2>2. /\ resume'.at = "issued" /\ resume'.to = resume.to /\ resume'.window = resume.window
        /\ image'.gen = None /\ image'.stopping = image.stopping /\ image'.absent = image.absent
    BY <2>1 DEF Typed, Resume, Image
  <2>3. halt.at = "idle"
    BY <1>1, <1>5 DEF Sound, Halting, Typed, Halt
  <2>4. Generations'
    BY <1>1, <2>1, <2>2 DEF Sound, Generations, Vacant, Nobody
  <2>5. Resuming'
    BY <1>1, <1>3, <2>2 DEF Sound, Resuming, Quiet, Nobody
  <2>6. Released' /\ Halting' /\ Stopped'
    BY <1>1, <1>3, <1>5, <2>2, <2>3 DEF Released, Halting, Stopped, Quiet
  <2> QED
    BY <1>2, <2>4, <2>5, <2>6, CalmSessions, SoundFrom DEF Rest
<1> QED
  BY <1>4, <1>5

LEMMA AcceptedStep ==
  ASSUME Assumed = Premise, Typed, Sound, NEW gen \in {sessions, None}, Accepted(gen),
         resume.at \in {"issued", "reached"},
         \A r \in Runner : cur[r] # None => contact'[r] \in {contact[r], 0}
  PROVE  Sound'
<1>1. UNCHANGED <<store, halt, roster, proc, cur, old, drain, closed, sessions>>
  BY DEF Accepted
<1>2. Shrinks /\ (Vacant' <=> Vacant)
  BY <1>1 DEF Shrinks, Vacant, Nobody
<1>3. CASE image.stopping
  <2>1. resume' = [resume EXCEPT !.at = "fold"] /\ UNCHANGED <<job, image>>
    BY <1>3 DEF Accepted
  <2>2. resume'.at = "fold" /\ resume'.to = resume.to
    BY <2>1 DEF Typed, Resume
  <2>3. Calm
    BY <1>1, <1>2, <2>1 DEF Calm, RowKept, SameRow, Opened
  <2>4. Generations'
    BY <1>1, <1>2, <2>1, <2>2, SameGenerations
  <2>5. Resuming' /\ Released'
    BY <1>1, <2>1, <2>2 DEF Sound, Resuming, Released, Quiet
  <2>6. Halting' /\ Stopped'
    BY <1>1, <2>1, <2>2 DEF Sound, Halting, Stopped, Quiet
  <2> QED
    BY <2>3, <2>4, <2>5, <2>6, CalmSessions, SoundFrom DEF Rest
<1>4. CASE ~image.stopping
  <2> DEFINE status == IF job.status = "lost" /\ resume.window # "none"
                       THEN job.status ELSE "running"
  <2>1. /\ resume' = [resume EXCEPT !.at = "record", !.gen = gen]
        /\ image' = [image EXCEPT !.gen = gen]
        /\ job' = [job EXCEPT !.runner = resume.to, !.status = status]
    BY <1>4 DEF Accepted
  <2>2. /\ resume'.at = "record" /\ resume'.to = resume.to
        /\ image'.gen = gen /\ image'.stopping = image.stopping /\ image'.absent = image.absent
    BY <2>1 DEF Typed, Resume, Image
  <2>3. /\ job'.lease = job.lease /\ job'.runner = resume.to /\ job'.status # "stopped"
    BY <2>1 DEF Typed, Rows, Job
  <2>4. halt.at = "idle" /\ ~job.lease.released
    BY <1>4 DEF Sound, Halting, Released, Typed, Halt
  <2>5. Calm
    BY <1>1, <1>2, <2>3 DEF Calm, RowKept, SameRow, Opened
  <2>6. Generations'
    BY <1>1, <1>2, <2>2 DEF Sound, Generations
  <2>7. Resuming'
    BY <1>1, <2>2, <2>3 DEF Sound, Resuming, Holder, Quiet
  <2>8. Released' /\ Halting' /\ Stopped'
    BY <1>1, <2>2, <2>3, <2>4 DEF Released, Halting, Stopped
  <2> QED
    BY <2>5, <2>6, <2>7, <2>8, CalmSessions, SoundFrom DEF Rest
<1> QED
  BY <1>3, <1>4

LEMMA AnsweredStep == ASSUME Assumed = Premise, Typed, Sound, Answered \/ Listed PROVE Sound'
<1>1. CASE Answered
  <2>1. resume.gen = sessions
    BY <1>1 DEF Answered, Sound, Generations
  <2> QED
    BY <1>1, <2>1, AcceptedStep DEF Answered
<1>2. CASE Listed
  <2>1. resume.to \in Runner
    BY <1>2 DEF Listed, Typed, Resume
  <2>2. \A r \in Runner : cur[r] # None => contact'[r] \in {contact[r], 0}
    BY <1>2, <2>1, ContactLeaves DEF Listed, Typed
  <2> QED
    BY <1>2, <2>2, AcceptedStep DEF Listed
<1> QED
  BY <1>1, <1>2

LEMMA GiveUpStep == ASSUME Assumed = Premise, Typed, Sound, GiveUp PROVE Sound'
<1>1. /\ resume.at \in {"claimed", "issued"} /\ UNCHANGED ledger
      /\ UNCHANGED <<halt, roster, runners, sessions>>
      /\ EndResume(FALSE, None) /\ Settled(halt.at # "idle")
  BY Premises DEF GiveUp
<1>2. Calm
  BY <1>1, SameLeaves DEF Calm, Shrinks, SameRow, Opened
<1>3. /\ job.status = "stopped" => Nobody'
      /\ job.status = store.status
      /\ job.lease.released => Nobody'
  BY <1>1 DEF Sound, Released, Stopped, Quiet, Nobody
<1>4. resume' = NoResume /\ closed' \subseteq closed
  BY <1>1, EndResumeLeaves
<1>5. /\ image'.gen = image.gen /\ image'.absent = image.absent
      /\ halt.at # "idle" => image'.stopping = image.stopping
  BY <1>1, SettledImage
<1> QED
  BY <1>1, <1>2, <1>3, <1>4, <1>5, IdleStep DEF Quiet

LEMMA DeclinedStep == ASSUME Assumed = Premise, Typed, Sound, Declined PROVE Sound'
<1>1. /\ resume.at = "issued" /\ resume.window # "none" /\ job.status # "stopped"
      /\ EndResume(FALSE, None) /\ Contact(resume.to)
      /\ UNCHANGED <<halt, roster, proc, cur, old, drain, sessions>>
  BY DEF Declined
<1>2. resume.to \in Runner /\ resume' = NoResume /\ closed' \subseteq closed
  BY <1>1, EndResumeLeaves DEF Typed, Resume
<1>3. \A r \in Runner : cur[r] # None => contact'[r] \in {contact[r], 0}
  BY <1>1, <1>2, ContactLeaves DEF Typed
<1>4. Nobody' /\ job.status = store.status
  BY <1>1 DEF Sound, Resuming, Stopped, Nobody
<1>5. /\ RowKept /\ job'.runner = job.runner
      /\ job'.status = store'.status /\ job'.status \in {job.status, "lost"}
  <2>1. CASE UNCHANGED ledger
    BY <1>4, <2>1, SameLeaves DEF RowSays
  <2>2. CASE Persist(GaveBack(job))
    <3> DEFINE j == GaveBack(job)
    <3>1. /\ j \in Job /\ SameTerm(j, job) /\ j.lease.age = job.lease.age
          /\ j.status = job.status /\ j.runner = job.runner
      BY GaveBackKeeps DEF Typed, Rows, GaveBack, Job, Lease
    <3> HIDE DEF j
    <3> QED
      BY <2>2, <3>1, PersistLeaves DEF RowSays, j
  <2>3. CASE Persist([job EXCEPT !.status = "lost"])
    <3> DEFINE j == [job EXCEPT !.status = "lost"]
    <3>1. /\ j \in Job /\ SameTerm(j, job) /\ j.lease.age = job.lease.age
          /\ j.status = "lost" /\ j.runner = job.runner
      BY DEF Typed, Rows, Job, Status, SameTerm
    <3>2. Persist(j)
      BY <2>3
    <3> HIDE DEF j
    <3> QED
      BY <3>1, <3>2, PersistLeaves DEF RowSays
  <2> QED
    BY <2>1, <2>2, <2>3 DEF Declined
<1>6. image'.gen \in {image.gen, None} /\ image'.absent = image.absent
      /\ image'.stopping = image.stopping
  BY DEF Declined, Typed, Image
<1>7. Calm
  BY <1>1, <1>3, <1>5 DEF Calm, Shrinks, SameRow, Opened
<1> QED
  BY <1>1, <1>2, <1>4, <1>5, <1>6, <1>7, IdleStep

LEMMA ConfirmedLeaves ==
  ASSUME Typed, NEW r
  PROVE  /\ Confirmed(r) \in Job /\ SameTerm(Confirmed(r), job)
         /\ Confirmed(r).lease.age = job.lease.age
         /\ Confirmed(r).status = job.status /\ Confirmed(r).runner = job.runner
         /\ job.lease.released => Confirmed(r).lease.released
<1>1. CASE job.lease.runner = r /\ MayClaim(job.lease, r)
  BY <1>1, GaveBackKeeps DEF Confirmed, GaveBack, Typed, Rows, Job, Lease
<1>2. CASE ~(job.lease.runner = r /\ MayClaim(job.lease, r))
  BY <1>2 DEF Confirmed, SameTerm, Typed, Rows
<1> QED
  BY <1>1, <1>2

LEMMA RecordStep == ASSUME Typed, Sound, Record PROVE Sound'
<1>1. /\ resume.at = "record" /\ Persist(job) /\ EndResume(TRUE, resume.gen)
      /\ Settled(halt.at # "idle") /\ UNCHANGED <<halt, roster, runners, sessions>>
  BY DEF Record
<1>2. /\ RowKept /\ RowSays(job.status, job.runner, job.lease.released)
      /\ store'.status = job.status
  BY <1>1, PersistLeaves DEF Typed, Rows, SameTerm
<1>3. Calm
  BY <1>1, <1>2 DEF Calm, Shrinks, SameRow, Opened
<1>4. /\ job'.status = "stopped" => Nobody'
      /\ job'.lease.released => Nobody'
  BY <1>1, <1>2 DEF Sound, Released, Stopped, Quiet, Nobody, RowSays
<1>5. resume' = NoResume /\ closed' \subseteq closed
  BY <1>1, EndResumeLeaves
<1>6. /\ image'.gen = image.gen /\ image'.absent = image.absent
      /\ halt.at # "idle" => image'.stopping = image.stopping
  BY <1>1, SettledImage
<1> QED
  BY <1>1, <1>2, <1>3, <1>4, <1>5, <1>6, IdleStep DEF Quiet, RowSays

LEMMA FoldStep == ASSUME Assumed = Premise, Typed, Sound, Fold PROVE Sound'
<1>1. /\ resume.at = "fold" /\ EndResume(FALSE, None) /\ Settled(halt.at # "idle")
      /\ UNCHANGED <<halt, roster, proc, old, drain, sessions>>
  BY DEF Fold
<1>2. resume.to \in Runner /\ resume' = NoResume /\ closed' \subseteq closed
  BY <1>1, EndResumeLeaves DEF Typed, Resume
<1>3. /\ image'.gen = image.gen /\ image'.absent = image.absent
      /\ halt.at # "idle" => image'.stopping = image.stopping
  BY <1>1, SettledImage
<1>4. job.status = store.status /\ \A r \in Runner : r # resume.to => cur[r] = None
  BY <1>1 DEF Sound, Stopped, Resuming, Holder
<1>5. CASE Stops(resume.to) /\ Persist(Confirmed(resume.to))
  <2>1. /\ RowKept /\ job'.status = job.status /\ job'.runner = job.runner
        /\ store'.status = job.status
    BY <1>5, ConfirmedLeaves, PersistLeaves DEF RowSays
  <2>2. /\ Shrinks /\ cur'[resume.to] = None
        /\ \A s \in Runner : s # resume.to => cur'[s] = cur[s] /\ contact'[s] = contact[s]
    BY <1>1, <1>2, <1>5, StopsShrinks DEF Typed
  <2>3. Nobody'
    BY <1>4, <2>2 DEF Nobody
  <2>4. Calm
    BY <1>1, <2>1, <2>2 DEF Calm, SameRow, Opened
  <2> QED
    BY <1>1, <1>2, <1>3, <2>1, <2>3, <2>4, IdleStep
<1>6. CASE cur[resume.to] = None /\ UNCHANGED <<ledger, cur, contact>>
  <2>1. RowKept /\ job'.status = store'.status /\ job'.status = job.status
        /\ job'.runner = job.runner
    BY <1>4, <1>6, SameLeaves DEF RowSays
  <2>2. Nobody'
    BY <1>4, <1>6 DEF Nobody
  <2>3. Calm
    BY <1>1, <1>6, <2>1 DEF Calm, Shrinks, SameRow, Opened
  <2> QED
    BY <1>1, <1>2, <1>3, <2>1, <2>2, <2>3, IdleStep
<1> QED
  BY <1>5, <1>6, Premises DEF Fold

-----------------------------------------------------------------------------
(* The steps of a stop.                                                      *)

LEMMA AbortStep == ASSUME Assumed = Premise, Typed, Sound, Abort PROVE Sound'
<1>1. /\ UNCHANGED ledger /\ UNCHANGED <<resume, roster, runners, closed, sessions>>
      /\ image' = [image EXCEPT !.stopping = TRUE, !.absent = FALSE]
      /\ halt' = [NoHalt EXCEPT !.at = "stop", !.on = job.runner]
      /\ resume.at # "idle" \/ \A r \in Runner \ {job.runner} : cur[r] = None
  BY Premises DEF Abort
<1>2. /\ image'.gen = image.gen /\ image'.stopping /\ ~image'.absent
      /\ halt'.by = "abort" /\ halt'.on = job.runner
  BY <1>1 DEF Typed, Image, NoHalt
<1>3. Calm
  BY <1>1, SameLeaves DEF Calm, Shrinks, SameRow, Opened
<1>4. Generations'
  BY <1>1, <1>2, SameGenerations DEF Shrinks
<1>5. (Vacant' <=> Vacant) /\ (Nobody' <=> Nobody)
  BY <1>1 DEF Vacant, Nobody
<1>6. Resuming'
  BY <1>1, <1>2, <1>5 DEF Sound, Resuming, Quiet
<1>7. Released' /\ Stopped'
  BY <1>1, <1>2, <1>5 DEF Sound, Released, Stopped, Quiet
<1>8. Halting'
  BY <1>1, <1>2 DEF Sound, Resuming, Halting, Quiet
<1> QED
  BY <1>3, <1>4, <1>6, <1>7, <1>8, CalmSessions, SoundFrom DEF Rest

LEMMA VacateStep ==
  ASSUME Assumed = Premise, Typed, Sound, NEW r \in Runner, Vacate(r) PROVE Sound'
<1>1. /\ UNCHANGED ledger /\ UNCHANGED <<resume, runners, closed, sessions>>
      /\ roster' = [roster EXCEPT ![r].state = "vacating"]
      /\ resume.at = "idle" /\ halt.at = "idle" /\ Opened(r)
  BY Premises DEF Vacate
<1>2. \A s \in Runner : SameRow(s)
  BY <1>1 DEF SameRow, Opened, Typed, Roster, Row
<1>3. /\ image'.gen = image.gen /\ image'.stopping = image.stopping
      /\ image'.absent \in {image.absent, FALSE}
  BY DEF Vacate, Typed, Image
<1>4. Calm
  BY <1>1, <1>2, SameLeaves DEF Calm, Shrinks
<1>5. Generations'
  BY <1>1, <1>3, SameGenerations DEF Shrinks
<1>6. CASE /\ halt' = [NoHalt EXCEPT !.at = "stop", !.by = "vacate", !.on = r]
           /\ image' = [image EXCEPT !.absent = FALSE]
  <2>1. halt'.by = "vacate" /\ ~image'.absent
    BY <1>6 DEF NoHalt, Typed, Image
  <2>2. (Vacant' <=> Vacant) /\ (Nobody' <=> Nobody)
    BY <1>1 DEF Vacant, Nobody
  <2>3. Resuming' /\ Released' /\ Halting' /\ Stopped'
    BY <1>1, <2>1, <2>2 DEF Sound, Resuming, Released, Halting, Stopped, Quiet
  <2> QED
    BY <1>4, <1>5, <2>3, CalmSessions, SoundFrom DEF Rest
<1>7. CASE UNCHANGED <<halt, image>>
  <2>1. Waits
    BY <1>1, <1>3, <1>7, SameLeaves DEF Waits, RowKept, Shrinks
  <2> QED
    BY <1>4, <1>5, <2>1, CalmSessions, WaitingRest, SoundFrom
<1> QED
  BY <1>6, <1>7 DEF Vacate

LEMMA HaltStopStep == ASSUME Typed, Sound, HaltStop PROVE Sound'
<1>1. /\ halt.at = "stop" /\ halt' = [halt EXCEPT !.at = "list"]
      /\ UNCHANGED ledger /\ UNCHANGED <<image, resume, roster, proc, old, drain, closed, sessions>>
  BY DEF HaltStop
<1>2. /\ halt.on \in Runner /\ halt'.by = halt.by /\ halt'.on = halt.on /\ halt'.again = halt.again
  BY <1>1 DEF Typed, Halt
<1>3. Shrinks /\ \A s \in Runner : cur'[s] # None => contact'[s] = contact[s]
  <2>1. CASE Stops(halt.on)
    BY <1>1, <1>2, <2>1, StopsShrinks DEF Typed
  <2>2. CASE UNCHANGED <<cur, contact>>
    BY <1>1, <2>2 DEF Shrinks
  <2> QED
    BY <2>1, <2>2 DEF HaltStop
<1>4. Calm
  BY <1>1, <1>3, SameLeaves DEF Calm, SameRow, Opened
<1>5. Generations'
  BY <1>1, <1>3, SameGenerations
<1>6. (Vacant => Vacant') /\ (Nobody => Nobody')
  BY <1>3 DEF Shrinks, Vacant, Nobody
<1>7. Resuming' /\ Released' /\ Stopped'
  BY <1>1, <1>3, <1>6 DEF Sound, Resuming, Released, Stopped, Quiet, Shrinks
<1>8. Halting'
  BY <1>1, <1>2, <1>3 DEF Sound, Halting, Quiet, Shrinks
<1> QED
  BY <1>4, <1>5, <1>7, <1>8, CalmSessions, SoundFrom DEF Rest

LEMMA HaltUnsureStep == ASSUME Typed, Sound, HaltUnsure PROVE Sound'
<1>1. /\ UNCHANGED ledger /\ UNCHANGED <<resume, roster, runners, closed, sessions>>
      /\ halt' = NoHalt /\ halt.at = "list"
  BY DEF HaltUnsure
<1>2. /\ image'.gen = image.gen /\ image'.absent = image.absent
      /\ job.status = "stopped" /\ resume.at # "idle" => image'.stopping = image.stopping
  BY DEF HaltUnsure, Typed, Image
<1>3. Calm
  BY <1>1, SameLeaves DEF Calm, Shrinks, SameRow, Opened
<1>4. Generations'
  BY <1>1, <1>2, SameGenerations DEF Shrinks
<1>5. (Vacant' <=> Vacant) /\ (Nobody' <=> Nobody) /\ halt'.at = "idle"
  BY <1>1 DEF Vacant, Nobody, NoHalt
<1>6. Resuming' /\ Released' /\ Halting' /\ Stopped'
  BY <1>1, <1>2, <1>5 DEF Sound, Resuming, Released, Halting, Stopped, Quiet
<1> QED
  BY <1>3, <1>4, <1>6, CalmSessions, SoundFrom DEF Rest

LEMMA HaltGoneStep == ASSUME Assumed = Premise, Typed, Sound, HaltGone PROVE Sound'
<1> DEFINE on == halt.on
           j == Confirmed(on)
<1>1. /\ halt.at = "list" /\ Reachable(on) /\ cur[on] = None /\ Contact(on)
      /\ UNCHANGED <<resume, roster, proc, cur, old, drain, fmem, closed, sessions>>
  BY DEF HaltGone
<1>2. on \in Runner
  BY <1>1 DEF Typed, Halt
<1>3. /\ j \in Job /\ SameTerm(j, job) /\ j.lease.age = job.lease.age
      /\ j.status = job.status /\ j.runner = job.runner
      /\ job.lease.released => j.lease.released
  BY <1>2, ConfirmedLeaves
<1>4. j.lease.released /\ ~job.lease.released => on = job.lease.runner /\ Vacant
  <2> SUFFICES ASSUME j.lease.released, ~job.lease.released
               PROVE  on = job.lease.runner /\ Vacant
    OBVIOUS
  <2>1. on = job.lease.runner /\ \A s \in Runner : old[s] = None
    BY <1>1, <1>2, ConfirmedEnds
  <2> QED
    BY <1>1, <2>1 DEF Vacant, Nobody, Sound, Holder
<1>5. \A s \in Runner : cur[s] # None => contact'[s] \in {contact[s], 0}
  BY <1>1, <1>2, ContactLeaves DEF Typed
<1>6. (Vacant' <=> Vacant) /\ (Nobody' <=> Nobody)
  BY <1>1 DEF Vacant, Nobody
<1>7. halt.by = "abort" /\ resume.at \in Quiet => Nobody
  BY <1>1 DEF Sound, Halting, Nobody
<1> HIDE DEF j
<1>8. ASSUME RowKept, image'.gen \in {image.gen, None}, image'.absent = image.absent,
             job'.runner = job.runner, Released', Halting', Stopped'
      PROVE  Sound'
  <2>1. Calm
    BY <1>1, <1>5, <1>8 DEF Calm, Shrinks, SameRow, Opened
  <2>2. Generations'
    BY <1>1, <1>8, SameGenerations DEF Shrinks
  <2>3. Resuming'
    BY <1>1, <1>6, <1>8 DEF Sound, Resuming, RowKept, Quiet
  <2> QED
    BY <1>8, <2>1, <2>2, <2>3, CalmSessions, SoundFrom DEF Rest
<1>9. ASSUME halt.by = "abort", job.runner # on, ~halt.again, job' = j,
             halt' = [halt EXCEPT !.at = "stop", !.on = job.runner, !.again = TRUE],
             UNCHANGED <<store, image>>
      PROVE  Sound'
  <2>1. /\ halt'.by = "abort" /\ halt'.on = job.runner /\ halt'.again
    BY <1>9 DEF Typed, Halt
  <2>2. on # job.lease.runner /\ image.stopping /\ ~image.absent
    BY <1>1, <1>9 DEF Sound, Halting
  <2>3. RowKept /\ job'.lease.released = job.lease.released
    BY <1>3, <1>4, <1>9, <2>2 DEF RowKept, SameTerm, Typed, Rows, Job, Lease
  <2>4. Released' /\ Stopped'
    BY <1>1, <1>3, <1>6, <1>9, <2>3 DEF Sound, Released, Stopped, Quiet
  <2>5. Halting'
    BY <1>1, <1>6, <1>7, <1>9, <2>1, <2>2 DEF Halting, Nobody, Quiet
  <2> QED
    BY <1>3, <1>8, <1>9, <2>3, <2>4, <2>5
<1>10. ASSUME halt.by = "abort", halt' = NoHalt, Persist([j EXCEPT !.status = "stopped"]),
              image' = [image EXCEPT !.gen = None, !.stopping = resume.at # "idle"]
       PROVE  Sound'
  <2> DEFINE k == [j EXCEPT !.status = "stopped"]
  <2>1. /\ k \in Job /\ SameTerm(k, job) /\ k.lease = j.lease
        /\ k.status = "stopped" /\ k.runner = job.runner
    BY <1>3 DEF Job, Status, SameTerm
  <2>2. Persist(k)
    BY <1>10
  <2> HIDE DEF k
  <2>3. /\ RowKept /\ RowSays("stopped", job.runner, j.lease.released)
        /\ store'.status = "stopped"
    BY <1>3, <2>1, <2>2, PersistLeaves
  <2>4. /\ image'.gen = None /\ image'.absent = image.absent
        /\ image'.stopping = (resume.at # "idle") /\ halt'.at = "idle"
    BY <1>10 DEF Typed, Image, NoHalt
  <2>5. Released'
    BY <1>1, <1>4, <1>6, <2>3, <2>4 DEF Sound, Released, RowSays
  <2>6. Halting' /\ Stopped'
    BY <1>1, <1>6, <1>7, <1>10, <2>3, <2>4 DEF Halting, Stopped, Quiet, RowSays
  <2> QED
    BY <1>8, <2>3, <2>4, <2>5, <2>6 DEF RowSays
<1>11. ASSUME halt.by = "vacate", halt' = NoHalt, UNCHANGED image,
              Persist(j) \/ (job' = j /\ store' = store)
       PROVE  Sound'
  <2>1. resume.at = "idle" /\ job.status = store.status
    BY <1>1, <1>11 DEF Sound, Halting, Stopped
  <2>2. /\ RowKept /\ RowSays(job.status, job.runner, j.lease.released)
        /\ store'.status = job.status
    <3>1. CASE Persist(j)
      BY <1>3, <3>1, PersistLeaves
    <3>2. CASE job' = j /\ store' = store
      BY <1>3, <2>1, <3>2 DEF RowKept, RowSays, SameTerm
    <3> QED
      BY <1>11, <3>1, <3>2
  <2>3. Released'
    BY <1>1, <1>4, <1>6, <2>1, <2>2 DEF Sound, Released, RowSays
  <2>4. Halting' /\ Stopped'
    BY <1>1, <1>6, <1>11, <2>1, <2>2 DEF NoHalt, Sound, Halting, Stopped, Quiet, RowSays
  <2> QED
    BY <1>8, <1>11, <2>2, <2>3, <2>4 DEF RowSays
<1> QED
  BY <1>9, <1>10, <1>11 DEF HaltGone, j

-----------------------------------------------------------------------------
(* The ends that a runner tells, the roster and the clock.                   *)

LEMMA HandleClosedStep ==
  ASSUME Assumed = Premise, Typed, Sound, NEW e \in closed, HandleClosed(e) PROVE Sound'
<1>1. /\ UNCHANGED <<resume, halt, roster, runners, sessions>> /\ closed' = closed \ {e}
      /\ resume.at = "idle" /\ (image.gen # None \/ e.gen = sessions)
  BY Premises DEF HandleClosed
<1>2. /\ image'.gen \in {image.gen, None} /\ image'.stopping = image.stopping
      /\ image'.absent = FALSE
  BY DEF HandleClosed, Typed, Image
<1>3. Shrinks /\ closed' \subseteq closed
  BY <1>1 DEF Shrinks
<1>4. Generations'
  BY <1>1, <1>2, <1>3, SameGenerations
<1>5. (Vacant' <=> Vacant) /\ (Nobody' <=> Nobody)
  BY <1>1 DEF Vacant, Nobody
<1>6. CASE UNCHANGED ledger
  <2>1. Calm
    BY <1>1, <1>3, <1>6, SameLeaves DEF Calm, SameRow, Opened
  <2>2. Waits
    BY <1>1, <1>2, <1>3, <1>6, SameLeaves DEF Waits, RowKept
  <2> QED
    BY <1>4, <2>1, <2>2, CalmSessions, WaitingRest, SoundFrom
<1>7. CASE /\ ~Stale(e) /\ job.status \in {"running", "ended"}
           /\ Persist(GaveBack(IF e.fenced THEN job ELSE [job EXCEPT !.status = "ended"]))
  <2>1. Vacant
    BY <1>1, <1>7 DEF Stale, Sound, Generations
  <2> DEFINE k == IF e.fenced THEN job ELSE [job EXCEPT !.status = "ended"]
             j == GaveBack(k)
  <2>2. k \in Job /\ k.lease = job.lease /\ k.runner = job.runner /\ k.status # "stopped"
    BY <1>7 DEF Typed, Rows, Job, Status
  <2>3. /\ j \in Job /\ SameTerm(j, job) /\ j.lease.age = job.lease.age
        /\ j.runner = job.runner /\ j.status # "stopped"
    <3> HIDE DEF k
    <3> QED
      BY <2>2, GaveBackKeeps DEF GaveBack, Job, Lease, SameTerm
  <2>4. Persist(j)
    BY <1>7
  <2> HIDE DEF j, k
  <2>5. /\ RowKept /\ RowSays(j.status, job.runner, j.lease.released)
        /\ store'.status = j.status
    BY <2>3, <2>4, PersistLeaves
  <2>6. Calm
    BY <1>1, <1>3, <2>5 DEF Calm, SameRow, Opened
  <2>7. Resuming' /\ Released' /\ Stopped'
    BY <1>1, <1>5, <2>1, <2>3, <2>5 DEF Resuming, Released, Stopped, RowSays
  <2>8. Halting'
    BY <1>1, <1>2, <2>5 DEF Sound, Halting, Quiet, RowKept, RowSays
  <2> QED
    BY <1>4, <2>6, <2>7, <2>8, CalmSessions, SoundFrom DEF Rest
<1> QED
  BY <1>6, <1>7 DEF HandleClosed

LEMMA ProbeStep == ASSUME Typed, Sound, NEW r \in Runner, Probe(r) PROVE Sound'
<1>1. /\ UNCHANGED ledger
      /\ UNCHANGED <<image, resume, halt, proc, cur, old, drain, closed, sessions>>
      /\ Contact(r)
  BY DEF Probe
<1>2. /\ roster'[r].proc = proc[r] /\ roster'[r].seen = 0
      /\ roster'[r].since = (IF roster[r].proc = proc[r] THEN roster[r].since ELSE 0)
      /\ \A s \in Runner : s # r => roster'[s] = roster[s]
  BY DEF Probe, Typed, Roster
<1>3. \A s \in Runner : /\ drain[s] \in Nat /\ proc[s] \in Nat /\ contact[s] \in Nat
                        /\ cur[s] # None => contact'[s] \in {contact[s], 0}
  BY <1>1, ContactLeaves, CapIsNat DEF Typed, Runners
<1>4. Shrinks
  BY <1>1 DEF Shrinks
<1>5. Holder'
  BY <1>1 DEF Sound, Holder
<1>6. Processes'
  <2>1. ASSUME NEW s \in Runner PROVE roster'[s].proc <= proc[s]
    BY <1>2, <1>3 DEF Sound, Processes
  <2> QED
    BY <1>1, <2>1 DEF Sound, Processes
<1>7. Draining'
  <2>1. ASSUME NEW s \in Runner, old[s] # None, roster'[s].proc = proc[s]
        PROVE  roster'[s].since <= drain[s]
    BY <1>2, <1>3, <2>1 DEF Sound, Draining
  <2> QED
    BY <1>1, <2>1 DEF Sound, Draining
<1>8. Watched'
  <2> SUFFICES ASSUME NEW s \in Runner, cur[s] # None
               PROVE  /\ contact'[s] <= Ttl
                      /\ Opened(s)' => /\ contact'[s] > 0 => roster'[s].seen <= contact'[s]
                                       /\ roster'[s].seen <= Ttl \/ job'.lease.age = 0
    BY <1>1 DEF Watched, Opened
  <2>1. /\ contact[s] <= Ttl
        /\ Opened(s) => /\ contact[s] > 0 => roster[s].seen <= contact[s]
                        /\ roster[s].seen <= Ttl \/ job.lease.age = 0
    BY DEF Sound, Watched
  <2>2. CASE s = r
    BY <1>2, <1>3, <2>1, <2>2, Terms
  <2>3. CASE s # r
    BY <1>1, <1>2, <1>3, <2>1, <2>3, Terms DEF Opened
  <2> QED
    BY <2>2, <2>3
<1>9. Generations'
  BY <1>1, <1>4, SameGenerations
<1>10. Waits
  BY <1>1, <1>4, SameLeaves DEF Waits, RowKept
<1> QED
  BY <1>5, <1>6, <1>7, <1>8, <1>9, <1>10, WaitingRest, SoundFrom

(* A process takes the place of another.                                     *)
LEMMA NewProcessLeaves ==
  ASSUME Typed, Sound, NEW r \in Runner, NewProcess(r)
  PROVE  /\ UNCHANGED ledger /\ UNCHANGED daemon /\ sessions' = sessions
         /\ proc'[r] = proc[r] + 1 /\ cur'[r] = None
         /\ \A s \in Runner : s # r => /\ proc'[s] = proc[s] /\ cur'[s] = cur[s]
                                       /\ contact'[s] = contact[s]
         /\ \A s \in Runner : cur'[s] \in {cur[s], None}
         /\ Watched'
         /\ job.lease.proc <= proc'[job.lease.runner]
         /\ \A s \in Runner : proc'[s] >= 1 /\ roster[s].proc <= proc'[s]
         /\ roster[r].proc # proc'[r]
<1>1. /\ UNCHANGED ledger /\ UNCHANGED daemon /\ sessions' = sessions
      /\ proc' = [proc EXCEPT ![r] = @ + 1] /\ Stops(r)
  BY DEF NewProcess
<1>2. /\ proc'[r] = proc[r] + 1 /\ cur'[r] = None
      /\ \A s \in Runner : s # r => /\ proc'[s] = proc[s] /\ cur'[s] = cur[s]
                                    /\ contact'[s] = contact[s]
      /\ \A s \in Runner : cur'[s] \in {cur[s], None}
  BY <1>1 DEF Stops, Typed, Runners
<1>3. Watched'
  BY <1>1, <1>2 DEF Sound, Watched, Opened
<1>4. \A s \in Runner : proc[s] \in Nat /\ roster[s].proc \in Nat
  BY DEF Typed, Runners, Roster, Row
<1>5. job.lease.runner \in Runner /\ job.lease.proc \in Nat
  BY DEF Typed, Rows, Job, Lease
<1>6. /\ job.lease.proc <= proc[job.lease.runner]
      /\ \A s \in Runner : proc[s] >= 1 /\ roster[s].proc <= proc[s]
  BY DEF Sound, Processes
<1>7. \A s \in Runner : proc'[s] = proc[s] \/ proc'[s] = proc[s] + 1
  BY <1>2
<1>8. job.lease.proc <= proc'[job.lease.runner]
  BY <1>4, <1>5, <1>6, <1>7
<1>9. \A s \in Runner : proc'[s] >= 1 /\ roster[s].proc <= proc'[s]
  BY <1>4, <1>6, <1>7
<1>10. roster[r].proc # proc'[r]
  BY <1>2, <1>4, <1>6
<1> QED
  BY <1>1, <1>2, <1>3, <1>8, <1>9, <1>10

LEMMA DieStep == ASSUME Typed, Sound, NEW r \in Runner, Die(r) PROVE Sound'
<1>1. NewProcess(r) /\ UNCHANGED <<old, drain>> /\ closed' \subseteq closed
  BY DEF Die
<1>2. /\ UNCHANGED ledger /\ UNCHANGED daemon /\ sessions' = sessions
      /\ proc'[r] = proc[r] + 1 /\ cur'[r] = None
      /\ \A s \in Runner : s # r => /\ proc'[s] = proc[s] /\ cur'[s] = cur[s]
                                    /\ contact'[s] = contact[s]
      /\ \A s \in Runner : cur'[s] \in {cur[s], None}
      /\ Watched'
      /\ job.lease.proc <= proc'[job.lease.runner]
      /\ \A s \in Runner : proc'[s] >= 1 /\ roster[s].proc <= proc'[s]
      /\ roster[r].proc # proc'[r]
  BY <1>1, NewProcessLeaves
<1>3. Shrinks
  BY <1>1, <1>2 DEF Shrinks
<1>4. Holder'
  BY <1>1, <1>2 DEF Sound, Holder
<1>5. Processes'
  <2>1. ASSUME NEW s \in Runner, old[s] # None PROVE job.lease.proc < proc'[s]
    <3>1. job.lease.proc < proc[s] /\ proc[s] \in Nat /\ job.lease.proc \in Nat
      BY <2>1 DEF Sound, Processes, Typed, Runners, Rows, Job, Lease
    <3> QED
      BY <1>2, <3>1
  <2> QED
    BY <1>1, <1>2, <2>1 DEF Processes
<1>6. Draining'
  BY <1>1, <1>2 DEF Sound, Draining
<1>7. Generations'
  BY <1>1, <1>2, <1>3, SameGenerations
<1>8. Waits
  BY <1>2, <1>3, SameLeaves DEF Waits, RowKept
<1> QED
  BY <1>2, <1>4, <1>5, <1>6, <1>7, <1>8, WaitingRest, SoundFrom

LEMMA SwapStep == ASSUME Assumed = Premise, Typed, Sound, NEW r \in Runner, Swap(r) PROVE Sound'
<1>1. /\ NewProcess(r) /\ old[r] = None /\ resume.at = "idle" /\ closed' = closed
      /\ old' = [old EXCEPT ![r] = cur[r]] /\ drain' = [drain EXCEPT ![r] = 0]
      /\ job.lease.age + Drain < Cap /\ store.lease.age + Drain < Cap
  BY Premises DEF Swap
<1>2. /\ UNCHANGED ledger /\ UNCHANGED daemon /\ sessions' = sessions
      /\ proc'[r] = proc[r] + 1 /\ cur'[r] = None
      /\ \A s \in Runner : s # r => /\ proc'[s] = proc[s] /\ cur'[s] = cur[s]
                                    /\ contact'[s] = contact[s]
      /\ \A s \in Runner : cur'[s] \in {cur[s], None}
      /\ Watched'
      /\ job.lease.proc <= proc'[job.lease.runner]
      /\ \A s \in Runner : proc'[s] >= 1 /\ roster[s].proc <= proc'[s]
      /\ roster[r].proc # proc'[r]
  BY <1>1, NewProcessLeaves
<1>3. /\ old'[r] = cur[r] /\ drain'[r] = 0
      /\ \A s \in Runner : s # r => old'[s] = old[s] /\ drain'[s] = drain[s]
  BY <1>1 DEF Typed, Runners
<1>4. Holder'
  BY <1>1, <1>2, <1>3 DEF Sound, Holder
<1>5. Processes'
  <2>1. ASSUME NEW s \in Runner, old'[s] # None PROVE job.lease.proc < proc'[s]
    <3>1. proc[s] \in Nat /\ job.lease.proc \in Nat
      BY DEF Typed, Runners, Rows, Job, Lease
    <3>2. CASE s = r
      <4>1. s = job.lease.runner /\ proc'[s] = proc[s] + 1
        BY <1>2, <1>3, <2>1, <3>2 DEF Sound, Holder
      <4>2. job.lease.proc <= proc[s]
        BY <4>1 DEF Sound, Processes
      <4> QED
        BY <3>1, <4>1, <4>2
    <3>3. CASE s # r
      BY <1>2, <1>3, <2>1, <3>3 DEF Sound, Processes
    <3> QED
      BY <3>2, <3>3
  <2> QED
    BY <1>2, <2>1 DEF Processes
<1>6. Draining'
  <2> SUFFICES ASSUME NEW s \in Runner, old'[s] # None
               PROVE  /\ drain'[s] <= Drain
                      /\ roster[s].proc = proc'[s] => roster[s].since <= drain'[s]
                      /\ job.lease.age + Drain < Cap + drain'[s]
                      /\ store.lease.age + Drain < Cap + drain'[s]
    BY <1>2 DEF Draining
  <2>1. CASE s = r
    BY <1>1, <1>2, <1>3, <2>1, Terms
  <2>2. CASE s # r
    BY <1>2, <1>3, <2>2 DEF Sound, Draining
  <2> QED
    BY <2>1, <2>2
<1>7. (Vacant => Vacant') /\ (Nobody => Nobody')
  BY <1>2, <1>3 DEF Vacant, Nobody
<1>8. Generations'
  <2>1. \A s \in Runner : /\ cur'[s] # None => cur'[s].gen = sessions'
                          /\ old'[s] # None => old'[s].gen = sessions'
    BY <1>2, <1>3 DEF Sound, Generations
  <2>2. \A e \in closed' : e.gen <= sessions' /\ (e.gen = sessions' => Vacant')
    BY <1>1, <1>2, <1>7 DEF Sound, Generations
  <2>3. /\ image'.gen # None => image'.gen = sessions'
        /\ resume'.at \in {"issued", "reached"} => image'.gen = None
        /\ resume'.at = "reached" => resume'.gen = sessions'
    BY <1>2 DEF Sound, Generations
  <2> QED
    BY <2>1, <2>2, <2>3 DEF Generations
<1>9. Resuming' /\ Released' /\ Stopped'
  BY <1>1, <1>2, <1>7 DEF Sound, Resuming, Released, Stopped, Quiet
<1>10. Halting'
  BY <1>1, <1>2 DEF Sound, Halting, Quiet
<1> QED
  BY <1>2, <1>4, <1>5, <1>6, <1>8, <1>9, <1>10, SoundFrom DEF Rest

LEMMA OlderBy == ASSUME NEW age \in 0 .. Cap
                 PROVE  Older(age) \in {age, age + 1} /\ (age < Cap => Older(age) = age + 1)
  BY Terms DEF Older

LEMMA TickStep == ASSUME Assumed = Premise, Typed, Sound, Tick PROVE Sound'
<1>1. /\ resume.at = "idle" /\ halt.at = "idle"
      /\ \A r \in Runner : /\ cur[r] # None => contact[r] < Ttl
                           /\ old[r] # None => drain[r] < Drain
                           /\ Opened(r) /\ contact[r] = 0 => roster[r].seen = 0
      /\ UNCHANGED <<image, resume, halt, proc, cur, old, fmem, closed, sessions, upsets>>
  BY Premises DEF Tick, Heard
<1>2. /\ job' = [job EXCEPT !.lease.age = Older(job.lease.age)]
      /\ store' = [store EXCEPT !.lease.age = Older(store.lease.age)]
  BY DEF Tick
<1>3. /\ SameTerm(job', job) /\ RowSays(job.status, job.runner, job.lease.released)
      /\ store'.status = store.status
      /\ job'.lease.age = Older(job.lease.age) /\ store'.lease.age = Older(store.lease.age)
  BY <1>2 DEF SameTerm, RowSays, Typed, Rows, Job, Lease
<1>4. /\ job.lease.age \in 0 .. Cap /\ store.lease.age \in 0 .. Cap
      /\ \A r \in Runner : /\ drain[r] \in 0 .. Cap /\ contact[r] \in 0 .. Cap
                           /\ roster[r].seen \in 0 .. Cap /\ roster[r].since \in 0 .. Cap
  BY DEF Typed, Rows, Job, Lease, Runners, Roster, Row
<1>5. ASSUME NEW r \in Runner
      PROVE  /\ contact'[r] = Older(contact[r])
             /\ old[r] # None => drain'[r] = Older(drain[r])
             /\ roster'[r].proc = roster[r].proc /\ Opened(r)' = Opened(r)
             /\ Opened(r) => roster'[r].seen = Older(roster[r].seen)
             /\ roster'[r].since \in {roster[r].since, Older(roster[r].since)}
  <2>1. /\ contact'[r] = Older(contact[r])
        /\ drain'[r] = IF old[r] = None THEN 0 ELSE Older(drain[r])
        /\ roster'[r] = IF Opened(r)
                        THEN [roster[r] EXCEPT !.seen = Older(@), !.since = Older(@)]
                        ELSE roster[r]
    BY DEF Tick
  <2>2. roster[r] \in Row
    BY DEF Typed, Roster
  <2> QED
    BY <2>1, <2>2 DEF Row, Opened
<1>6. Holder'
  BY <1>1, <1>3 DEF Sound, Holder, SameTerm
<1>7. Processes'
  BY <1>1, <1>3, <1>5 DEF Sound, Processes, SameTerm
<1>8. Draining'
  <2> SUFFICES ASSUME NEW r \in Runner, old[r] # None
               PROVE  /\ drain'[r] <= Drain
                      /\ roster'[r].proc = proc[r] => roster'[r].since <= drain'[r]
                      /\ job'.lease.age + Drain < Cap + drain'[r]
                      /\ store'.lease.age + Drain < Cap + drain'[r]
    BY <1>1 DEF Draining
  <2>1. /\ drain[r] < Drain
        /\ roster[r].proc = proc[r] => roster[r].since <= drain[r]
        /\ job.lease.age + Drain < Cap + drain[r]
        /\ store.lease.age + Drain < Cap + drain[r]
    BY <1>1 DEF Sound, Draining
  <2>2. drain'[r] = drain[r] + 1
    BY <1>4, <1>5, <2>1, OlderBy, Terms
  <2>3. /\ job'.lease.age <= job.lease.age + 1 /\ store'.lease.age <= store.lease.age + 1
        /\ job'.lease.age \in Nat /\ store'.lease.age \in Nat
    BY <1>3, <1>4, OlderBy, Terms
  <2>4. roster'[r].since <= roster[r].since + 1 /\ roster'[r].since \in Nat
    BY <1>4, <1>5, OlderBy, Terms
  <2>5. drain'[r] <= Drain
    BY <1>4, <2>1, <2>2, Terms
  <2>6. roster'[r].proc = proc[r] => roster'[r].since <= drain'[r]
    BY <1>4, <1>5, <2>1, <2>2, <2>4
  <2>7. /\ job'.lease.age + Drain < Cap + drain'[r]
        /\ store'.lease.age + Drain < Cap + drain'[r]
    BY <1>4, <2>1, <2>2, <2>3, Terms
  <2> QED
    BY <2>5, <2>6, <2>7
<1>9. Watched'
  <2> SUFFICES ASSUME NEW r \in Runner, cur[r] # None
               PROVE  /\ contact'[r] <= Ttl
                      /\ Opened(r)' => /\ contact'[r] > 0 => roster'[r].seen <= contact'[r]
                                       /\ roster'[r].seen <= Ttl \/ job'.lease.age = 0
    BY <1>1 DEF Watched, Opened
  <2>1. contact[r] < Ttl /\ (Opened(r) => roster[r].seen <= contact[r])
    BY <1>1, <1>4 DEF Sound, Watched
  <2>2. contact'[r] = contact[r] + 1
    BY <1>4, <1>5, <2>1, OlderBy, Terms
  <2>3. Opened(r) => roster'[r].seen <= roster[r].seen + 1 /\ roster'[r].seen \in Nat
    BY <1>4, <1>5, OlderBy, Terms
  <2> QED
    BY <1>4, <1>5, <2>1, <2>2, <2>3, Terms
<1>10. Shrinks
  BY <1>1 DEF Shrinks
<1>11. Generations'
  BY <1>1, <1>10, SameGenerations
<1>12. Waits
  BY <1>1, <1>3, <1>10 DEF Waits, SameTerm
<1> QED
  BY <1>6, <1>7, <1>8, <1>9, <1>11, <1>12, WaitingRest, SoundFrom

LEMMA RestartStep == ASSUME Assumed = Premise, Typed, Sound, Restart PROVE Sound'
<1>1. /\ image.stopping \/ store.status = "stopped" => resume.at = "idle"
      /\ job' = store /\ store' = store
      /\ image' = [NoImage EXCEPT !.absent = TRUE]
      /\ resume' = NoResume /\ halt' = NoHalt /\ roster' = [r \in Runner |-> Unopened]
      /\ UNCHANGED <<proc, cur, old, drain, fmem, contact, closed, sessions>>
  BY Premises DEF Restart
<1>2. /\ image'.gen = None /\ resume'.at = "idle" /\ halt'.at = "idle"
      /\ \A r \in Runner : roster'[r].proc = 0 /\ ~Opened(r)'
  BY <1>1 DEF NoImage, NoResume, NoHalt, Unopened, Opened
<1>3. SameTerm(job', job) /\ (job'.lease.released => job.lease.released)
  BY <1>1 DEF Typed, Agreed, SameTerm
<1>4. (Vacant' <=> Vacant) /\ (Nobody' <=> Nobody) /\ Shrinks
  BY <1>1 DEF Vacant, Nobody, Shrinks
<1>5. \A r \in Runner : proc[r] >= 1 /\ proc[r] \in Nat
  BY DEF Sound, Processes, Typed, Runners
<1>6. Holder'
  BY <1>1, <1>3 DEF Sound, Holder, SameTerm
<1>7. Processes'
  BY <1>1, <1>2, <1>3, <1>5 DEF Sound, Processes, SameTerm
<1>8. Draining'
  BY <1>1, <1>2, <1>5 DEF Sound, Draining
<1>9. Watched'
  BY <1>1, <1>2 DEF Sound, Watched, Opened
<1>10. Generations'
  BY <1>1, <1>2, <1>4, SameGenerations
<1>11. Resuming' /\ Halting'
  BY <1>2 DEF Resuming, Halting
<1>12. Released'
  BY <1>1, <1>2, <1>3, <1>4 DEF Sound, Released
<1>13. Stopped'
  BY <1>1, <1>2, <1>4 DEF Sound, Stopped, Quiet
<1> QED
  BY <1>6, <1>7, <1>8, <1>9, <1>10, <1>11, <1>12, <1>13, SoundFrom DEF Rest

-----------------------------------------------------------------------------
(* The claim and the runner's answer to it.                                  *)

LEMMA ClaimFrom ==
  ASSUME Assumed = Premise, Typed, Sound, NEW r \in Runner, NEW window, Claim(r, window),
         \A s \in Runner : cur[s] # None => contact'[s] \in {contact[s], 0},
         (cur[r] # None) => r = job.runner /\ window = "none"
  PROVE  Sound'
<1>1. /\ resume.at = "idle" /\ Known(r) /\ halt.at = "idle" /\ Opened(job.lease.runner)
      /\ MayClaim(job.lease, r)
      /\ resume' = [NoResume EXCEPT !.at = "claimed", !.to = r, !.window = window]
      /\ image' = [image EXCEPT !.absent = FALSE]
      /\ UNCHANGED <<halt, roster, proc, cur, old, drain, fmem, closed, sessions, upsets>>
  BY Premises DEF Claim
<1>2. \A s \in Runner : old[s] = None /\ (cur[s] # None => s = r)
  <2>1. CASE job.lease.released
    BY <1>1, <2>1 DEF Sound, Released, Vacant, Nobody
  <2>2. CASE ~job.lease.released
    BY <1>1, <2>2, FreeEnds
  <2> QED
    BY <2>1, <2>2
<1>3. roster[r].proc = proc[r] /\ proc[r] \in Nat
  BY <1>1, Premises DEF Known, Typed, Runners
<1>4. /\ job'.lease.runner = r /\ job'.lease.proc = proc[r] /\ job'.lease.age = 0
      /\ ~job'.lease.released /\ job'.status = job.status /\ job'.runner = job.runner
      /\ store'.status = job.status
  <2>1. job.status = store.status
    BY <1>1 DEF Sound, Stopped
  <2>2. CASE Verdict(job.lease, r) = "same-holder"
    <3>1. job' = [job EXCEPT !.lease.age = 0] /\ store' = store
      BY <2>2 DEF Claim
    <3>2. ~job.lease.released /\ job.lease.runner = r /\ roster[r].proc = job.lease.proc
      BY <2>2 DEF Verdict
    <3> QED
      BY <1>3, <2>1, <3>1, <3>2 DEF Typed, Rows, Job, Lease
  <2>3. CASE Verdict(job.lease, r) # "same-holder"
    <3>1. job' = [job EXCEPT !.lease = Grant(job.lease, r)] /\ store' = job'
      BY <2>3 DEF Claim
    <3>2. job'.lease = Grant(job.lease, r) /\ job'.status = job.status /\ job'.runner = job.runner
      BY <3>1 DEF Typed, Rows, Job
    <3> QED
      BY <1>3, <3>1, <3>2 DEF Grant
  <2> QED
    BY <2>2, <2>3
<1>5. /\ resume'.at = "claimed" /\ resume'.to = r /\ resume'.window = window
  BY <1>1 DEF NoResume
<1>6. image'.gen = image.gen /\ ~image'.absent
  BY <1>1 DEF Typed, Image
<1>7. (Vacant' <=> Vacant) /\ (Nobody' <=> Nobody) /\ Shrinks
  BY <1>1 DEF Vacant, Nobody, Shrinks
<1>8. Holder'
  BY <1>1, <1>2, <1>4 DEF Holder
<1>9. Processes'
  BY <1>1, <1>2, <1>3, <1>4 DEF Sound, Processes
<1>10. Draining'
  BY <1>1, <1>2 DEF Draining
<1>11. Watched'
  <2> SUFFICES ASSUME NEW s \in Runner, cur[s] # None
               PROVE  /\ contact'[s] <= Ttl
                      /\ Opened(s) => (contact'[s] > 0 => roster[s].seen <= contact'[s])
    BY <1>1, <1>4 DEF Watched, Opened
  <2>1. contact'[s] \in {contact[s], 0}
    OBVIOUS
  <2> QED
    BY <2>1, Terms DEF Sound, Watched
<1>12. Generations'
  BY <1>1, <1>5, <1>6, <1>7, SameGenerations
<1>13. Resuming'
  <2>1. window # "none" => Nobody
    BY <1>2 DEF Nobody
  <2>2. \A s \in Runner : cur[s] # None => s = job.runner
    BY <1>2
  <2> QED
    BY <1>1, <1>2, <1>4, <1>5, <1>6, <1>7, <2>1, <2>2 DEF Resuming
<1>14. Released' /\ Halting'
  BY <1>1, <1>4 DEF Released, Halting
<1>15. Stopped'
  BY <1>1, <1>4, <1>7 DEF Sound, Stopped, Quiet
<1> QED
  BY <1>8, <1>9, <1>10, <1>11, <1>12, <1>13, <1>14, <1>15, SoundFrom DEF Rest

LEMMA ClaimingStep ==
  ASSUME Assumed = Premise, Typed, Sound, Send \/ \E r \in Runner : Reattach(r) PROVE Sound'
<1>1. CASE Send
  <2>1. Claim(job.runner, "none") /\ UNCHANGED contact /\ job.runner \in Runner
    BY <1>1 DEF Send, Typed, Rows, Job
  <2> QED
    BY <2>1, ClaimFrom
<1>2. ASSUME NEW r \in Runner, Reattach(r) PROVE Sound'
  <2>1. cur[r] = None /\ Contact(r)
    BY <1>2 DEF Reattach
  <2>2. PICK window : Claim(r, window)
    BY <1>2 DEF Reattach
  <2>3. \A s \in Runner : cur[s] # None => contact'[s] \in {contact[s], 0}
    BY <2>1, ContactLeaves DEF Typed
  <2> QED
    BY <2>1, <2>2, <2>3, ClaimFrom
<1> QED
  BY <1>1, <1>2

LEMMA ReachStep == ASSUME Typed, Sound, Reach PROVE Sound'
<1> DEFINE r == resume.to
           gen == IF cur[r] = None THEN sessions + 1 ELSE cur[r].gen
           s == [fence |-> resume.fence, gen |-> gen]
<1>1. /\ resume.at = "issued" /\ r \in Runner
      /\ UNCHANGED <<ledger, image, halt, roster, proc, old, drain, closed>>
      /\ cur' = [cur EXCEPT ![r] = s] /\ contact' = [contact EXCEPT ![r] = 0]
      /\ resume' = [resume EXCEPT !.at = "reached", !.gen = gen]
      /\ sessions' = IF cur[r] = None THEN gen ELSE sessions
  BY DEF Reach, Accept, Typed, Resume
<1>2. /\ resume'.at = "reached" /\ resume'.to = r /\ resume'.gen = gen
  BY <1>1 DEF Typed, Resume
<1>3. /\ r = job.lease.runner /\ job.lease.age = 0 /\ ~image.absent
      /\ \A x \in Runner : old[x] = None
  BY <1>1 DEF Sound, Resuming
<1>4. \A x \in Runner : x # r => cur[x] = None
  BY <1>3 DEF Sound, Holder
<1>5. /\ cur'[r] = s /\ contact'[r] = 0
      /\ \A x \in Runner : x # r => cur'[x] = None
  BY <1>1, <1>4 DEF Typed, Runners
<1>6. /\ sessions' = gen /\ s.gen = gen
      /\ cur[r] = None => sessions' = sessions + 1
      /\ cur[r] # None => sessions' = sessions
  BY <1>1 DEF Sound, Generations
<1> HIDE DEF s, gen
<1>7. Holder'
  BY <1>1, <1>3, <1>5 DEF Holder
<1>8. Processes' /\ Draining'
  BY <1>1, <1>3 DEF Sound, Processes, Draining
<1>9. Watched'
  BY <1>1, <1>3, <1>5, Terms DEF Watched, Opened
<1>10. Generations'
  <2>1. \A x \in Runner : /\ cur'[x] # None => cur'[x].gen = sessions'
                          /\ old'[x] # None => old'[x].gen = sessions'
    BY <1>1, <1>3, <1>5, <1>6
  <2>2. ASSUME NEW e \in closed PROVE e.gen <= sessions' /\ e.gen # sessions'
    <3>1. e.gen \in Nat /\ sessions \in Nat /\ e.gen <= sessions
          /\ (e.gen = sessions => Vacant)
      BY DEF Typed, Runners, Closed, Sound, Generations
    <3>2. cur[r] # None => ~Vacant
      BY <1>1 DEF Vacant, Nobody
    <3> QED
      BY <1>6, <3>1, <3>2
  <2>3. image'.gen = None
    BY <1>1 DEF Sound, Generations
  <2> QED
    BY <1>1, <1>2, <1>6, <2>1, <2>2, <2>3 DEF Generations
<1>11. Resuming' /\ Released' /\ Halting' /\ Stopped'
  BY <1>1, <1>2, <1>3 DEF Sound, Resuming, Released, Halting, Stopped, Quiet
<1> QED
  BY <1>7, <1>8, <1>9, <1>10, <1>11, SoundFrom DEF Rest

LEMMA SoundInit == Init => Sound
<1> SUFFICES ASSUME Init PROVE Sound
  OBVIOUS
<1>1. PICK r \in Runner :
        /\ job = [status |-> "running", runner |-> r,
                  lease |-> [runner |-> r, proc |-> 1, fence |-> 1, released |-> FALSE, age |-> 0]]
        /\ cur = [s \in Runner |-> IF s = r THEN [fence |-> 1, gen |-> 1] ELSE None]
  BY DEF Init
<1>2. /\ job.lease.runner = r /\ job.lease.proc = 1 /\ job.lease.age = 0 /\ ~job.lease.released
      /\ job.status = "running" /\ store = job
  BY <1>1 DEF Init
<1>3. \A s \in Runner : /\ s # r => cur[s] = None
                        /\ cur[s] # None => cur[s].gen = 1
                        /\ old[s] = None /\ proc[s] = 1
                        /\ roster[s].proc = 1 /\ roster[s].seen = 0
                        /\ contact[s] = IF cur[s] = None THEN Cap ELSE 0
  BY <1>1 DEF Init
<1>4. resume.at = "idle" /\ halt.at = "idle" /\ image.gen = 1 /\ closed = {} /\ sessions = 1
  BY DEF Init, NoResume, NoHalt, NoImage
<1>5. Holder /\ Processes /\ Draining
  BY <1>2, <1>3 DEF Holder, Processes, Draining
<1>6. Watched
  BY <1>2, <1>3, Terms DEF Watched
<1>7. Generations
  BY <1>3, <1>4 DEF Generations
<1>8. Resuming /\ Released /\ Halting /\ Stopped
  BY <1>2, <1>4 DEF Resuming, Released, Halting, Stopped
<1> QED
  BY <1>5, <1>6, <1>7, <1>8 DEF Sound

LEMMA SoundStep == ASSUME Assumed = Premise, Typed, Sound, [Next]_vars PROVE Sound'
<1>1. CASE Send \/ \E r \in Runner : Reattach(r)
  BY <1>1, ClaimingStep
<1>2. CASE Deliver \/ Restore \/ \E r \in Runner : Align(r)
  BY <1>2, DeliverStep, RestoreStep, AlignStep
<1>3. CASE Issue \/ Reach \/ Answered \/ Listed
  BY <1>3, IssueStep, ReachStep, AnsweredStep
<1>4. CASE GiveUp \/ Declined \/ Record \/ Fold
  BY <1>4, GiveUpStep, DeclinedStep, RecordStep, FoldStep
<1>5. CASE Abort \/ HaltStop \/ HaltGone \/ HaltUnsure \/ \E r \in Runner : Vacate(r)
  BY <1>5, AbortStep, HaltStopStep, HaltGoneStep, HaltUnsureStep, VacateStep
<1>6. CASE \E e \in closed : HandleClosed(e)
  BY <1>6, HandleClosedStep
<1>7. CASE \E r \in Runner : SelfFence(r) \/ Finish(r) \/ Drained(r)
  BY <1>7, EndsStep, DrainedStep
<1>8. CASE \E r \in Runner : Probe(r) \/ Swap(r) \/ Die(r)
  BY <1>8, ProbeStep, SwapStep, DieStep
<1>9. CASE Tick \/ Restart \/ UNCHANGED vars
  BY <1>9, TickStep, RestartStep, StutterStep
<1> QED
  BY <1>1, <1>2, <1>3, <1>4, <1>5, <1>6, <1>7, <1>8, <1>9 DEF Next

LEMMA AlwaysSound == ASSUME Assumed = Premise PROVE Spec => []Sound
<1>1. Typed /\ Sound /\ [Next]_vars => Sound'
  BY SoundStep
<1> QED
  BY <1>1, AlwaysTyped, SoundInit, PTL DEF Spec

-----------------------------------------------------------------------------
(* The theorems of one session.                                              *)

LEMMA Places ==
  ASSUME Typed, Sound
  PROVE  /\ Vacant => Live = {}
         /\ \A r \in Runner : (\A s \in Runner : old[s] = None /\ (cur[s] # None => s = r))
                                => Live \subseteq {<<r, "cur">>}
         /\ Live \subseteq {<<job.lease.runner, "cur">>} \/ Live \subseteq {<<job.lease.runner, "old">>}
<1>1. Vacant => Live = {}
  BY DEF Vacant, Nobody, Live
<1>2. \A r \in Runner : (\A s \in Runner : old[s] = None /\ (cur[s] # None => s = r))
                          => Live \subseteq {<<r, "cur">>}
  BY DEF Live
<1>3. CASE cur[job.lease.runner] = None
  <2>1. \A s \in Runner : cur[s] = None /\ (old[s] # None => s = job.lease.runner)
    BY <1>3 DEF Sound, Holder
  <2>2. Live \subseteq {<<job.lease.runner, "old">>}
    BY <2>1 DEF Live
  <2> QED
    BY <1>1, <1>2, <2>2
<1>4. CASE cur[job.lease.runner] # None
  <2>1. job.lease.runner \in Runner
    BY DEF Typed, Rows, Job, Lease
  <2>2. old[job.lease.runner] = None
    BY <1>4, <2>1 DEF Sound, Holder
  <2>3. \A s \in Runner : old[s] = None /\ (cur[s] # None => s = job.lease.runner)
    BY <2>2 DEF Sound, Holder
  <2>4. Live \subseteq {<<job.lease.runner, "cur">>}
    BY <1>2, <2>1, <2>3
  <2> QED
    BY <1>1, <1>2, <2>4
<1> QED
  BY <1>1, <1>2, <1>3, <1>4

(* The delegation never has two sessions, for any runners and terms: every   *)
(* claim waits for what the holder of the lease may still be doing.          *)
THEOREM OneSession == Assumed = Premise => (Spec => []AtMostOneSession)
<1> SUFFICES ASSUME Assumed = Premise PROVE Spec => []AtMostOneSession
  OBVIOUS
<1>1. Typed /\ Sound => AtMostOneSession
  <2> SUFFICES ASSUME Typed, Sound PROVE Cardinality(Live) <= 1
    BY DEF AtMostOneSession
  <2>1. PICK place : Live \subseteq {place}
    BY Places
  <2>2. IsFiniteSet({place}) /\ Cardinality({place}) = 1
    BY FS_Singleton
  <2>3. Cardinality(Live) <= Cardinality({place})
    BY <2>1, <2>2, FS_Subset
  <2> QED
    BY <2>2, <2>3
<1> QED
  BY <1>1, AlwaysTyped, AlwaysSound, PTL

(* A lease that is free for the taking, released or expired, has left no     *)
(* session behind that the claim does not join.                              *)
THEOREM FreeLeaseEnded == Assumed = Premise => (Spec => []FreeMeansEnded)
<1> SUFFICES ASSUME Assumed = Premise PROVE Spec => []FreeMeansEnded
  OBVIOUS
<1>1. Typed /\ Sound => ReleasedMeansEnded
  BY Places DEF ReleasedMeansEnded, Sound, Released
<1>2. Typed /\ Sound => ExpiredMeansEnded
  <2> SUFFICES ASSUME Typed, Sound, NEW r \in Runner,
                      Known(r) /\ Opened(r) /\ Opened(job.lease.runner) /\ resume.at = "idle",
                      Verdict(job.lease, r) = "expired"
               PROVE  Live \subseteq {<<r, "cur">>}
    BY DEF ExpiredMeansEnded
  <2>1. MayClaim(job.lease, r) /\ ~job.lease.released
    BY DEF MayClaim, Verdict
  <2> QED
    BY <2>1, FreeEnds, Places
<1> QED
  BY <1>1, <1>2, AlwaysTyped, AlwaysSound, PTL DEF FreeMeansEnded

(* What was stopped has no session left in a process that answers, however   *)
(* the stop crossed resumes, moves and restarts.                             *)
THEOREM StopIsFinal == Assumed = Premise => (Spec => []StoppedIsStopped)
<1> SUFFICES ASSUME Assumed = Premise PROVE Spec => []StoppedIsStopped
  OBVIOUS
<1>1. Sound => StoppedIsStopped
  BY DEF Sound, Stopped, StoppedIsStopped, Quiet, Nobody
<1> QED
  BY <1>1, AlwaysSound, PTL
=============================================================================
