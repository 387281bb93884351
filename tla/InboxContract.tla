--------------------------- MODULE InboxContract ---------------------------
(***************************************************************************)
(* What the inbox promises to whoever posts an event, with no queue, pump, *)
(* limit or restore pass: an event that has been stored stays stored until *)
(* it is finished or removed on request, across any number of crashes; one *)
(* that is only in memory may be lost, in a crash or because its write     *)
(* failed while the process was closing.                                   *)
(***************************************************************************)
CONSTANT Ids      \* the events that may be posted

VARIABLE status   \* id -> where its event is

Status == {"unposted", "memory", "stored", "finished", "removed", "gone"}

TypeOK == status \in [Ids -> Status]

Init == status = [e \in Ids |-> "unposted"]

Move(e, from, to) == status[e] \in from /\ status' = [status EXCEPT ![e] = to]

Accept(e) == Move(e, {"unposted"}, "memory")

(* Folded into an equal event already accepted.                            *)
Fold(e) == Move(e, {"unposted"}, "gone")

Store(e) == Move(e, {"memory"}, "stored")

(* The sender is told, or the process is closing and the loss is logged.   *)
Refuse(e) == Move(e, {"memory"}, "gone")

(* A removal deletes the row first and stops the delivery next; a turn     *)
(* that has already taken the event finishes it all the same.              *)
Unstore(e) == Move(e, {"stored"}, "memory")
Remove(e)  == Move(e, {"memory"}, "removed")

Finish(S) ==
  /\ S # {} /\ \A e \in S : status[e] \in {"memory", "stored"}
  /\ status' = [e \in Ids |-> IF e \in S THEN "finished" ELSE status[e]]

(* A crash takes what is only in memory: R are those being removed.        *)
Crash(R) ==
  /\ \A e \in R : status[e] = "memory"
  /\ status' = [e \in Ids |-> IF e \in R THEN "removed"
                              ELSE IF status[e] = "memory" THEN "gone" ELSE status[e]]

Change ==
  \/ \E e \in Ids : Accept(e) \/ Fold(e) \/ Store(e) \/ Refuse(e) \/ Unstore(e) \/ Remove(e)
  \/ \E S \in SUBSET Ids : Finish(S) \/ Crash(S)

Next == status' # status /\ Change   \* a crash with nothing in memory is no step

Spec == Init /\ [][Next]_status
=============================================================================
