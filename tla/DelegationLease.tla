--------------------------- MODULE DelegationLease ---------------------------
(* One delegation, the row that stands for it in the job ledger, and the     *)
(* runners that may hold its session (packages/core/src/manager.ts, lease.ts,*)
(* runner-roster.ts, runner-protocol.ts, runner.ts).                         *)
(*                                                                           *)
(* The daemon lends the delegation to a runner by writing a lease into the   *)
(* row before it sends the resume.  It takes the delegation away from a      *)
(* runner by four arguments: the holder gave the lease back, it is this very *)
(* process, its process was replaced and has had the time to drain, or it    *)
(* has not heard from us for the lease's term and has fenced itself.  All    *)
(* four are inferred from what the daemon remembers of the runner.           *)
(*                                                                           *)
(* Times are ages: how long ago something happened, in units of the clock,   *)
(* up to Cap, beyond which nothing in the code tells two ages apart.         *)
EXTENDS Integers, FiniteSets

CONSTANTS
    Runner,      \* the runners of the roster, by name
    None,        \* no session, no tracked generation, nobody
    Ttl,         \* LEASE_TTL_MS: the term after which a runner fences itself
    Margin,      \* LEASE_MARGIN_MS
    Drain,       \* LEASE_DRAIN_MS: the time in which a replaced process ends
    LostAfter,   \* HEARTBEAT_LOST_MS
    MaxFence,    \* bound: grants, and sessions ever opened
    MaxUpset,    \* bound: times that somebody ends, replaces or restarts something
    Assumed      \* what is taken for granted of the surroundings

(* What the code does not see to itself.                                     *)
(*   prompt   a resume or a stop ends within one unit of the clock           *)
(*   heard    a runner that a request reaches is heard within the same unit  *)
(*   noticed  a replaced runner is asked nothing before the roster knows     *)
(*   fresh    a runner is replaced soon after its delegation was written     *)
(*   opened   after a restart the holder of a lease answers before a claim   *)
(*   apart    no vacate and no closed event falls into a resume, and no      *)
(*            resume begins in a stop or a vacate                            *)
(*   latest   a closed event met without a generation is of the last session *)
(*   answered a resume that took is answered or listed, a stop that it       *)
(*            crosses is seen through, and a stop meets the session where    *)
(*            the row says or where a resume under way puts it               *)
Premise == {"prompt", "heard", "noticed", "fresh", "opened", "apart", "latest", "answered"}

ASSUME LeaseAssumption ==
    /\ None \notin Nat /\ None \notin Runner /\ Runner # {}
    /\ Ttl \in Nat \ {0} /\ Margin \in Nat \ {0} /\ LostAfter \in Nat \ {0}
    /\ Drain \in Nat /\ Drain <= Ttl
    /\ {MaxFence, MaxUpset} \subseteq Nat
    /\ Assumed \subseteq Premise

VARIABLES
    store,     \* the row in the job ledger
    job,       \* the daemon's copy of the row
    image,     \* the rest of its record: generation, stopConfirmedAt
    resume,    \* the one resume under way (#resuming)
    halt,      \* the stop or vacate under way
    roster,    \* what the daemon remembers of each runner
    proc,      \* the process that answers for a runner
    cur,       \* the session in that process
    old,       \* the session in the process it replaced, still draining
    drain,     \* how long that process has been draining
    fmem,      \* the newest fence the answering process has accepted
    contact,   \* the age of the last request that reached its session
    closed,    \* closed events on their way to the daemon
    sessions,  \* sessions ever opened: the next generation
    upsets     \* stops, vacates, ends, replacements, restarts

ledger == <<store, job>>
daemon == <<image, resume, halt, roster>>
runners == <<proc, cur, old, drain, fmem, contact>>
vars == <<ledger, daemon, runners, closed, sessions, upsets>>

Cap == Ttl + Margin
Older(age) == IF age < Cap THEN age + 1 ELSE age

Status == {"running", "ended", "lost", "stopped"}
Lease == [runner : Runner, proc : Nat, fence : Nat, released : BOOLEAN, age : 0 .. Cap]
Job == [status : Status, runner : Runner, lease : Lease]
Session == [fence : Nat, gen : Nat]
Row == [state : {"unopened", "connected", "vacating"},
        proc : Nat, seen : 0 .. Cap, since : 0 .. Cap]
Closed == [from : Runner, gen : Nat, fenced : BOOLEAN]

Unopened == [state |-> "unopened", proc |-> 0, seen |-> 0, since |-> 0]
NoResume == [at |-> "idle", to |-> None, fence |-> 0, gen |-> None, window |-> "none"]
NoHalt == [at |-> "idle", by |-> "abort", on |-> None, again |-> FALSE]
NoImage == [gen |-> None, stopping |-> FALSE, absent |-> FALSE]

TypeOK ==
    /\ store \in Job /\ job \in Job
    /\ image \in [gen : Nat \union {None}, stopping : BOOLEAN,
                  absent : BOOLEAN]
    /\ resume \in [at : {"idle", "claimed", "issued", "reached", "fold", "record"},
                   to : Runner \union {None}, fence : Nat, gen : Nat \union {None},
                   window : {"none", "same", "move"}]
    /\ halt \in [at : {"idle", "stop", "list"}, by : {"abort", "vacate"},
                 on : Runner \union {None}, again : BOOLEAN]
    /\ roster \in [Runner -> Row]
    /\ proc \in [Runner -> Nat]
    /\ cur \in [Runner -> Session \union {None}]
    /\ old \in [Runner -> Session \union {None}]
    /\ drain \in [Runner -> 0 .. Cap]
    /\ fmem \in [Runner -> Nat]
    /\ contact \in [Runner -> 0 .. Cap]
    /\ closed \subseteq Closed
    /\ sessions \in Nat /\ upsets \in Nat

(* The delegation has just been started on a runner, under its first lease.  *)
Init ==
    /\ \E r \in Runner :
          /\ job = [status |-> "running", runner |-> r,
                    lease |-> [runner |-> r, proc |-> 1, fence |-> 1,
                               released |-> FALSE, age |-> 0]]
          /\ cur = [s \in Runner |-> IF s = r THEN [fence |-> 1, gen |-> 1] ELSE None]
          /\ fmem = [s \in Runner |-> IF s = r THEN 1 ELSE 0]
    /\ store = job
    /\ image = [NoImage EXCEPT !.gen = 1]
    /\ resume = NoResume /\ halt = NoHalt
    /\ roster = [r \in Runner |-> [state |-> "connected", proc |-> 1, seen |-> 0, since |-> Cap]]
    /\ proc = [r \in Runner |-> 1]
    /\ old = [r \in Runner |-> None]
    /\ drain = [r \in Runner |-> 0]
    /\ contact = [r \in Runner |-> IF cur[r] = None THEN Cap ELSE 0]
    /\ closed = {} /\ sessions = 1 /\ upsets = 0

-----------------------------------------------------------------------------
(* The lease.                                                                *)

Opened(r) == roster[r].state # "unopened"

(* Being emptied, or so long unheard that it may have been marked as lost.   *)
Away(r) == \/ roster[r].state = "vacating"
           \/ Opened(r) /\ roster[r].seen >= LostAfter
Has(premise) == premise \in Assumed

(* mutant: what the holder was heard to say is not counted                   *)
ExpiredByRow(l, r) ==
    IF l.runner # r THEN l.age >= Cap
    ELSE roster[r].since >= Drain + Margin \/ l.age >= Cap

(* Why runner r may be given the delegation, or "held".                      *)
Expired(l, r) ==
    IF l.runner # r
    THEN l.age >= Cap /\ (Opened(l.runner) => roster[l.runner].seen >= Cap)
    ELSE roster[r].since >= Drain + Margin \/ l.age >= Cap

Verdict(l, r) ==
    IF l.released THEN "released"
    ELSE IF l.runner = r /\ roster[r].proc = l.proc THEN "same-holder"
    ELSE IF Expired(l, r) THEN "expired"
    ELSE "held"

MayClaim(l, r) == Verdict(l, r) # "held"

(* mutant: the fence is not counted on                                       *)
GrantSameFence(l, r) ==
    [runner |-> r, proc |-> roster[r].proc, fence |-> l.fence,
     released |-> FALSE, age |-> 0]

Grant(l, r) ==
    [runner |-> r, proc |-> roster[r].proc, fence |-> l.fence + 1,
     released |-> FALSE, age |-> 0]

GaveBack(j) == [j EXCEPT !.lease.released = TRUE]

(* mutant: the time of the write is not readable                             *)
TouchedUnreadable(j) ==
    IF ~j.lease.released /\ roster[j.lease.runner].proc = j.lease.proc
    THEN [j EXCEPT !.lease.age = None]
    ELSE j

(* A write of the row renews the lease while its process answers.            *)
Touched(j) ==
    IF ~j.lease.released /\ roster[j.lease.runner].proc = j.lease.proc
    THEN [j EXCEPT !.lease.age = 0]
    ELSE j

Persist(j) == job' = Touched(j) /\ store' = Touched(j)

(* A request reaches runner r.  Its watch is kept while it has a session:    *)
(* nothing reads it of a runner without one.                                 *)
Known(r) == Has("noticed") => roster[r].proc = proc[r]
Reachable(r) == Opened(r) /\ Known(r)
Contact(r) == contact' = [contact EXCEPT ![r] = IF cur[r] = None THEN Cap ELSE 0]
Stops(r) == /\ cur' = [cur EXCEPT ![r] = None]
            /\ contact' = [contact EXCEPT ![r] = Cap]

-----------------------------------------------------------------------------
(* Taking the delegation: the claim, the resume and its record.              *)

(* mutant: the resume goes out before the row is written                     *)
ClaimUnwritten(r, window) ==
    /\ resume.at = "idle" /\ Known(r)
    /\ Has("apart") => halt.at = "idle"
    /\ Has("opened") => Opened(job.lease.runner)
    /\ MayClaim(job.lease, r)
    /\ resume' = [NoResume EXCEPT !.at = "claimed", !.to = r, !.window = window]
    /\ IF Verdict(job.lease, r) = "same-holder"
       THEN job' = [job EXCEPT !.lease.age = 0]
       ELSE /\ job.lease.fence < MaxFence
            /\ job' = [job EXCEPT !.lease = Grant(job.lease, r)]
    /\ image' = [image EXCEPT !.absent = FALSE]
    /\ UNCHANGED <<store, halt, roster, proc, cur, old, drain, fmem, closed, sessions, upsets>>

(* #claimForResume: the row that names the new lease is written first.       *)
Claim(r, window) ==
    /\ resume.at = "idle"
    /\ Known(r)
    /\ Has("apart") => halt.at = "idle"
    /\ Has("opened") => Opened(job.lease.runner)
    /\ MayClaim(job.lease, r)
    /\ resume' = [NoResume EXCEPT !.at = "claimed", !.to = r, !.window = window]
    /\ IF Verdict(job.lease, r) = "same-holder"
       THEN job' = [job EXCEPT !.lease.age = 0] /\ store' = store
       ELSE /\ job.lease.fence < MaxFence
            /\ job' = [job EXCEPT !.lease = Grant(job.lease, r)]
            /\ store' = job'
    /\ image' = [image EXCEPT !.absent = FALSE]
    /\ UNCHANGED <<halt, roster, proc, cur, old, drain, fmem, closed, sessions, upsets>>

(* #reattach: r answers without the delegation, which is r's or a runner's   *)
(* that has gone silent or is being emptied.                                 *)
Reattach(r) ==
    /\ Reachable(r) /\ ~image.absent
    /\ job.status = "running" /\ cur[r] = None
    /\ job.runner # r => Away(job.runner) /\ roster[r].state = "connected"
    /\ Contact(r)
    /\ Claim(r, IF job.runner = r THEN "same" ELSE "move")

(* #send: the delegation's own runner is asked to resume when it does not    *)
(* know the session, or when the record does not say that it is attached.    *)
Send ==
    /\ Opened(job.runner)
    /\ UNCHANGED contact
    /\ Claim(job.runner, "none")

(* #send into a session that answers.                                        *)
Deliver ==
    /\ Reachable(job.runner) /\ cur[job.runner] # None
    /\ ~image.stopping /\ ~image.absent
    /\ Contact(job.runner)
    /\ Persist([job EXCEPT !.status = "running"])
    /\ UNCHANGED <<daemon, proc, cur, old, drain, fmem, closed, sessions, upsets>>

(* Events that the window of the resume keeps back (ResumeEventWindows).     *)
Current(e) == image.gen # None /\ e.gen = image.gen
Deferred(e) ==
    \/ resume.window = "move"
    \/ resume.window = "same" /\ e.from = resume.to /\ ~Current(e)

(* Which of them the end of the window throws away.                          *)
Discarded(accepted, gen) ==
    CASE resume.window = "move" -> {e \in closed : accepted <=> e.from # resume.to}
      [] resume.window = "same" -> {e \in closed : accepted /\ e.from = resume.to /\ e.gen # gen}
      [] OTHER -> {}

(* The resume is over.                                                       *)
EndResume(accepted, gen) ==
    /\ resume' = NoResume
    /\ \E kept \in SUBSET Discarded(accepted, gen) :
          closed' = closed \ (Discarded(accepted, gen) \ kept)

(* The stopped record is gone once nobody works on it.                       *)
Settled(halting) ==
    image' = [image EXCEPT !.stopping = @ /\ (halting \/ job.status # "stopped")]

(* The first checkpoint, then the request goes out without a generation.     *)
Issue ==
    /\ resume.at = "claimed"
    /\ IF image.stopping
       THEN EndResume(FALSE, None) /\ Settled(halt.at # "idle")
       ELSE /\ resume' = [resume EXCEPT !.at = "issued", !.fence = job.lease.fence]
            /\ image' = [image EXCEPT !.gen = None]
            /\ closed' = closed
    /\ UNCHANGED <<ledger, halt, roster, runners, sessions, upsets>>

(* RunnerHost.resume: the fence is compared, then the session joined or made.*)
Fenced(r) == resume.fence < fmem[r]

Accept(r) ==
    LET s == [fence |-> resume.fence,
              gen |-> IF cur[r] = None THEN sessions + 1 ELSE cur[r].gen]
    IN /\ cur[r] = None => sessions < MaxFence
       /\ sessions' = IF cur[r] = None THEN s.gen ELSE sessions
       /\ cur' = [cur EXCEPT ![r] = s]
       /\ contact' = [contact EXCEPT ![r] = 0]
       /\ fmem' = [fmem EXCEPT ![r] = resume.fence]
       /\ resume' = [resume EXCEPT !.at = "reached", !.gen = s.gen]

Reach ==
    /\ resume.at = "issued" /\ Reachable(resume.to) /\ ~Fenced(resume.to)
    /\ Accept(resume.to)
    /\ UNCHANGED <<ledger, image, halt, roster, proc, old, drain, closed, upsets>>

(* The second checkpoint, then the record of an accepted resume.             *)
Accepted(gen) ==
    /\ IF image.stopping
       THEN /\ resume' = [resume EXCEPT !.at = "fold"]
            /\ UNCHANGED <<job, image>>
       ELSE /\ resume' = [resume EXCEPT !.at = "record", !.gen = gen]
            /\ image' = [image EXCEPT !.gen = gen]
            /\ job' = [job EXCEPT !.runner = resume.to,
                                  !.status = IF @ = "lost" /\ resume.window # "none"
                                              THEN @ ELSE "running"]
    /\ UNCHANGED <<store, halt, roster, proc, old, drain, cur, fmem, closed, sessions, upsets>>

Answered ==
    /\ resume.at = "reached"
    /\ UNCHANGED contact
    /\ Accepted(resume.gen)

(* No answer, but the runner lists the delegation: taken as resumed, with no *)
(* generation known.                                                         *)
Listed ==
    /\ resume.at \in {"issued", "reached"}
    /\ Reachable(resume.to) /\ cur[resume.to] # None
    /\ Contact(resume.to)
    /\ Accepted(None)

(* No answer and no listing, or the fence was refused: to be tried again, or *)
(* left alone, with the row as it is.                                        *)
GiveUp ==
    /\ resume.at \in {"claimed", "issued", "reached"}
    /\ Has("answered") => resume.at # "reached"
    /\ EndResume(FALSE, None)
    /\ Settled(halt.at # "idle")
    /\ UNCHANGED <<ledger, halt, roster, runners, sessions, upsets>>

(* The runner declines (4xx).  A relocation gives the lease of this target   *)
(* back and leaves the delegation to the next; a resume at home is lost.     *)
Declined ==
    /\ resume.at = "issued" /\ resume.window # "none" /\ Reachable(resume.to)
    /\ job.status # "stopped"
    /\ EndResume(FALSE, None)
    /\ Contact(resume.to)
    /\ \/ /\ resume.window = "move"
          /\ IF job.lease.runner = resume.to /\ ~job.lease.released
             THEN Persist(GaveBack(job))
             ELSE UNCHANGED ledger
          /\ UNCHANGED image
       \/ /\ Persist([job EXCEPT !.status = "lost"])
          /\ image' = [image EXCEPT !.gen = None]
    /\ UNCHANGED <<halt, roster, proc, cur, old, drain, fmem, sessions, upsets>>

Record ==
    /\ resume.at = "record"
    /\ Persist(job)
    /\ EndResume(TRUE, resume.gen)
    /\ Settled(halt.at # "idle")
    /\ UNCHANGED <<halt, roster, runners, sessions, upsets>>

(* mutant: whoever holds the lease, a confirmed stop releases it             *)
ConfirmedAnyHolder(r) == GaveBack(job)

(* The row that a confirmed stop at r leaves.                                *)
Confirmed(r) ==
    IF job.lease.runner = r /\ MayClaim(job.lease, r) THEN GaveBack(job) ELSE job

(* mutant: what was stopped meanwhile is only told so                        *)
FoldNowhere ==
    /\ resume.at = "fold"
    /\ EndResume(FALSE, None)
    /\ Settled(halt.at # "idle")
    /\ UNCHANGED <<ledger, cur, contact, halt, roster, proc, old, drain, fmem, sessions, upsets>>

(* #settleStoppedAfterResume: what was stopped meanwhile is stopped again, or*)
(* it is not confirmed that it was, and only said so.                        *)
Fold ==
    /\ resume.at = "fold"
    /\ EndResume(FALSE, None)
    /\ \/ /\ Reachable(resume.to)
          /\ Stops(resume.to)
          /\ Persist(Confirmed(resume.to))
          /\ Settled(halt.at # "idle")
       \/ /\ Has("answered") => cur[resume.to] = None
          /\ Settled(halt.at # "idle")
          /\ UNCHANGED <<ledger, cur, contact>>
    /\ UNCHANGED <<halt, roster, proc, old, drain, fmem, sessions, upsets>>

-----------------------------------------------------------------------------
(* Stopping the delegation, and emptying a runner.                           *)

Upset == upsets < MaxUpset /\ upsets' = upsets + 1

Abort ==
    /\ Upset
    /\ halt.at = "idle" /\ Opened(job.runner)
    /\ Has("answered") => resume.at # "idle" \/ \A r \in Runner \ {job.runner} : cur[r] = None
    /\ image' = [image EXCEPT !.stopping = TRUE, !.absent = FALSE]
    /\ halt' = [NoHalt EXCEPT !.at = "stop", !.on = job.runner]
    /\ UNCHANGED <<ledger, resume, roster, runners, closed, sessions>>

Vacate(r) ==
    /\ Upset
    /\ halt.at = "idle" /\ Opened(r)
    /\ Has("apart") => resume.at = "idle"
    /\ roster' = [roster EXCEPT ![r].state = "vacating"]
    /\ IF job.runner = r /\ job.status = "running"
       THEN /\ halt' = [NoHalt EXCEPT !.at = "stop", !.by = "vacate", !.on = r]
            /\ image' = [image EXCEPT !.absent = FALSE]
       ELSE UNCHANGED <<halt, image>>
    /\ UNCHANGED <<ledger, resume, runners, closed, sessions>>

(* The stop, whose answer says nothing, then the list that decides.          *)
HaltStop ==
    /\ halt.at = "stop"
    /\ halt' = [halt EXCEPT !.at = "list"]
    /\ \/ Reachable(halt.on) /\ Stops(halt.on)
       \/ UNCHANGED <<cur, contact>>
    /\ UNCHANGED <<ledger, image, resume, roster, proc, old, drain, fmem, closed,
                   sessions, upsets>>

HaltGone ==
    /\ halt.at = "list" /\ Reachable(halt.on) /\ cur[halt.on] = None
    /\ Contact(halt.on)
    /\ \/ /\ halt.by = "abort" /\ job.runner # halt.on /\ ~halt.again
          /\ halt' = [halt EXCEPT !.at = "stop", !.on = job.runner, !.again = TRUE]
          /\ job' = Confirmed(halt.on)
          /\ UNCHANGED <<store, image>>
       \/ /\ halt.by = "abort" /\ (job.runner = halt.on \/ halt.again)
          /\ halt' = NoHalt
          /\ Persist([Confirmed(halt.on) EXCEPT !.status = "stopped"])
          /\ image' = [image EXCEPT !.gen = None, !.stopping = resume.at # "idle"]
       \/ /\ halt.by = "vacate"
          /\ halt' = NoHalt
          /\ IF job.runner = halt.on
             THEN Persist(Confirmed(halt.on))
             ELSE job' = Confirmed(halt.on) /\ store' = store
          /\ UNCHANGED image
    /\ UNCHANGED <<resume, roster, proc, cur, old, drain, fmem, closed, sessions, upsets>>

(* Still there, or nobody answered: nothing is written.  The mark of a stop  *)
(* that was confirmed before stays with the record that the resume holds.    *)
HaltUnsure ==
    /\ halt.at = "list"
    /\ halt' = NoHalt
    /\ image' = [image EXCEPT !.stopping =
                   @ /\ (halt.by = "vacate" \/ (job.status = "stopped" /\ resume.at # "idle"))]
    /\ UNCHANGED <<ledger, resume, roster, runners, closed, sessions, upsets>>

-----------------------------------------------------------------------------
(* What a runner says of the end of a session.                               *)

Stale(e) == image.gen # None /\ e.gen # image.gen

(* Told apart only while every row of the roster has a name.                 *)
MovedAway(e) == job.runner # e.from /\ \A r \in Runner : Opened(r)

HandleClosed(e) ==
    /\ e \in closed /\ Opened(e.from) /\ ~Deferred(e)
    /\ Has("apart") => resume.at = "idle"
    /\ Has("latest") => image.gen # None \/ e.gen = sessions
    /\ closed' = closed \ {e}
    /\ \/ /\ Stale(e) \/ job.status \in {"stopped", "lost"} \/ MovedAway(e)
          /\ image' = [image EXCEPT !.absent = FALSE]
          /\ UNCHANGED ledger
       \/ /\ ~Stale(e) /\ job.status \in {"running", "ended"} /\ ~MovedAway(e)
          /\ Persist(GaveBack(IF e.fenced THEN job ELSE [job EXCEPT !.status = "ended"]))
          /\ image' = [image EXCEPT !.absent = FALSE, !.gen = IF e.fenced THEN @ ELSE None]
    /\ UNCHANGED <<resume, halt, roster, runners, sessions, upsets>>

(* A lost runner's delegation is already listed by another: #alignToTarget.  *)
Align(r) ==
    /\ Reachable(r) /\ cur[r] # None /\ ~image.absent
    /\ job.runner # r /\ Away(job.runner)
    /\ job.status \notin {"stopped", "lost"}
    /\ Contact(r)
    /\ Persist([job EXCEPT !.runner = r])
    /\ UNCHANGED <<daemon, proc, cur, old, drain, fmem, closed, sessions, upsets>>

-----------------------------------------------------------------------------
(* The roster.                                                               *)

Probe(r) ==
    /\ roster' = [roster EXCEPT ![r] =
          [state |-> IF @.state = "vacating" THEN @.state ELSE "connected",
           proc  |-> proc[r],
           seen  |-> 0,
           since |-> IF @.proc = proc[r] THEN @.since ELSE 0]]
    /\ Contact(r)
    /\ UNCHANGED <<ledger, image, resume, halt, proc, cur, old, drain, fmem, closed,
                   sessions, upsets>>

-----------------------------------------------------------------------------
(* The runners and the clock.                                                *)

Ends(r, fenced) ==
    /\ Stops(r)
    /\ closed' = closed \union {[from |-> r, gen |-> cur[r].gen, fenced |-> fenced]}
    /\ UNCHANGED <<ledger, daemon, proc, old, drain, fmem, sessions>>

SelfFence(r) ==
    /\ cur[r] # None /\ contact[r] >= Ttl
    /\ UNCHANGED upsets
    /\ Ends(r, TRUE)

(* The session ends by itself.                                               *)
Finish(r) ==
    /\ Upset
    /\ cur[r] # None
    /\ Ends(r, FALSE)

(* Every runner that requests reached has been heard.                        *)
Heard == Has("heard") => \A r \in Runner : Opened(r) /\ contact[r] = 0 => roster[r].seen = 0

NewProcess(r) ==
    /\ proc' = [proc EXCEPT ![r] = @ + 1]
    /\ Stops(r)
    /\ fmem' = [fmem EXCEPT ![r] = 0]
    /\ UNCHANGED <<ledger, daemon, sessions>>

(* The runner is replaced; the process replaced drains.                      *)
Swap(r) ==
    /\ Upset
    /\ old[r] = None /\ Heard
    /\ Has("apart") => resume.at = "idle"
    /\ Has("fresh") => job.lease.age + Drain < Cap /\ store.lease.age + Drain < Cap
    /\ NewProcess(r)
    /\ old' = [old EXCEPT ![r] = cur[r]]
    /\ drain' = [drain EXCEPT ![r] = 0]
    /\ UNCHANGED closed

Drained(r) ==
    /\ old[r] # None
    /\ old' = [old EXCEPT ![r] = None] /\ drain' = [drain EXCEPT ![r] = 0]
    /\ UNCHANGED <<ledger, daemon, proc, cur, fmem, contact, closed, sessions, upsets>>

(* The process dies, with the events it had not sent.                        *)
Die(r) ==
    /\ Upset
    /\ Heard
    /\ NewProcess(r)
    /\ \E sent \in SUBSET {e \in closed : e.from = r} :
          closed' = {e \in closed : e.from # r} \union sent
    /\ UNCHANGED <<old, drain>>

(* The watch of the lease and the drain are kept by the runner and its host. *)
Tick ==
    /\ Has("prompt") => resume.at = "idle" /\ halt.at = "idle"
    /\ \A r \in Runner : /\ cur[r] # None => contact[r] < Ttl
                         /\ old[r] # None => drain[r] < Drain
    /\ Heard
    /\ store' = [store EXCEPT !.lease.age = Older(@)]
    /\ job' = [job EXCEPT !.lease.age = Older(@)]
    /\ roster' = [r \in Runner |-> IF Opened(r)
                     THEN [roster[r] EXCEPT !.seen = Older(@), !.since = Older(@)]
                     ELSE roster[r]]
    /\ drain' = [r \in Runner |-> IF old[r] = None THEN 0 ELSE Older(drain[r])]
    /\ contact' = [r \in Runner |-> Older(contact[r])]
    /\ UNCHANGED <<image, resume, halt, proc, cur, old, fmem, closed, sessions, upsets>>

-----------------------------------------------------------------------------
(* The daemon restarts: what is not in the ledger is gone.                   *)

Restart ==
    /\ Upset
    /\ Has("answered") /\ (image.stopping \/ store.status = "stopped") => resume.at = "idle"
    /\ job' = store
    /\ image' = [NoImage EXCEPT !.absent = TRUE]
    /\ resume' = NoResume /\ halt' = NoHalt
    /\ roster' = [r \in Runner |-> Unopened]
    /\ UNCHANGED <<store, runners, closed, sessions>>

(* #restoreJobs of a row that nothing has loaded yet: the runners that       *)
(* answer are asked for what they hold, and a session found there is adopted,*)
(* whatever the row says.  Of a runner that was not heard nothing is assumed.*)
Restore ==
    /\ image.absent
    /\ \E heard \in SUBSET {r \in Runner : Reachable(r)} :
          LET living == {r \in heard : cur[r] # None}
          IN /\ contact' = [r \in Runner |-> IF r \in living THEN 0 ELSE contact[r]]
             /\ \/ \E r \in living : Persist([job EXCEPT !.status = "running", !.runner = r])
                \/ /\ living = {} /\ job.runner \in heard /\ job.status # "lost"
                   /\ UNCHANGED ledger
    /\ image' = [image EXCEPT !.absent = FALSE]
    /\ UNCHANGED <<resume, halt, roster, proc, cur, old, drain, fmem, closed, sessions, upsets>>

Next ==
    \/ \E r \in Runner : \/ Reattach(r) \/ Vacate(r) \/ Align(r) \/ Probe(r)
                         \/ SelfFence(r) \/ Finish(r) \/ Swap(r) \/ Drained(r) \/ Die(r)
    \/ Send \/ Deliver \/ Issue \/ Reach \/ Answered \/ Listed \/ GiveUp \/ Declined
    \/ Record \/ Fold \/ Abort \/ HaltStop \/ HaltGone \/ HaltUnsure
    \/ \E e \in closed : HandleClosed(e)
    \/ Tick \/ Restart \/ Restore

Spec == Init /\ [][Next]_vars

-----------------------------------------------------------------------------
(* The places where a session of the delegation lives.                       *)
Live == {<<r, "cur">> : r \in {r \in Runner : cur[r] # None}}
        \union {<<r, "old">> : r \in {r \in Runner : old[r] # None}}

(* The delegation never has two sessions: two of them would both push, both  *)
(* open pull requests.  Claims, the watch that runners keep, the drain of a  *)
(* replaced process and the stops hold together for it (mayClaim, judgeLease,*)
(* #claimForResume, #checkLeaseExpiry).                                      *)
AtMostOneSession == Cardinality(Live) <= 1

(* A lease that the row calls released, between two resumes, is that of a    *)
(* session that has ended: released is the verdict that waits for nothing    *)
(* (releaseLease, #confirmStoppedAndReleaseLease, #applyClosedToJob).        *)
ReleasedMeansEnded ==
    job.lease.released /\ resume.at = "idle" => Live = {}

(* When the lease is judged expired for a runner, no process works on the    *)
(* delegation but, at most, the one that would be resumed, and it joins the  *)
(* session it has (judgeLease, decideAfterSwap, describeVerdict).            *)
ExpiredMeansEnded ==
    \A r \in Runner :
        /\ Known(r) /\ Opened(r) /\ Opened(job.lease.runner) /\ resume.at = "idle"
        /\ Verdict(job.lease, r) = "expired"
        => Live \subseteq {<<r, "cur">>}

(* A lease that a claim may take over without waiting, released or expired,  *)
(* leaves no session behind that the claim does not join: whoever reads the  *)
(* row alone, in any process and after any restart, may act on it.           *)
FreeMeansEnded == ReleasedMeansEnded /\ ExpiredMeansEnded

(* A delegation that was stopped, with no stop and no resume still at work,  *)
(* has no session in any process that answers: a stop that crosses a resume  *)
(* wins (abort, #reconfirmAfterMove, #settleStoppedMeanwhile,                *)
(* #settleStoppedAfterResume).                                               *)
StoppedIsStopped ==
    job.status = "stopped" /\ resume.at = "idle" /\ halt.at = "idle" /\ ~image.absent
        => \A r \in Runner : cur[r] = None

(* Every fence that a runner has accepted, a process that drains included,   *)
(* is in the ledger: after a restart of the daemon its claims are newer than *)
(* any session, and no runner refuses them (#claimForResume writes the row   *)
(* first, grantLease counts on from it, #checkRememberedFence).              *)
FenceIsLedgered ==
    \A r \in Runner : /\ fmem[r] <= store.lease.fence
                      /\ old[r] # None => old[r].fence <= store.lease.fence

(* In the ledger the lease passes to another runner or another process only  *)
(* under a newer fence, a fence is never taken back, and a lease that was    *)
(* released is lent again only under a newer one (grantLease, touchLease).   *)
LeaseSuccession ==
    [][LET was == store.lease  now == store'.lease
       IN /\ now.fence >= was.fence
          /\ now.fence = was.fence => /\ now.runner = was.runner /\ now.proc = was.proc
                                      /\ was.released => now.released]_store
=============================================================================
