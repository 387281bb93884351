----------------------------- MODULE EventQueue -----------------------------
(***************************************************************************)
(* Sequences of event ids, as the queue of inbox.ts and the held events    *)
(* are: what occurs in one, what is taken out, and in which order.         *)
(***************************************************************************)
EXTENDS Naturals, Sequences, SequencesExt

OccursIn(s, e) == \E i \in DOMAIN s : s[i] = e

Without(s, e) ==  \* removeWhere, removeDeferredWhere: ids are unique in a queue
  IF OccursIn(s, e) THEN RemoveAt(s, CHOOSE i \in DOMAIN s : s[i] = e) ELSE s

Once(s) == \A i, j \in DOMAIN s : s[i] = s[j] => i = j

Before(s, e, f) == \E i, j \in DOMAIN s : i < j /\ s[i] = e /\ s[j] = f

=============================================================================
