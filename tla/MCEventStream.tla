--------------------------- MODULE MCEventStream ---------------------------
(* EventStream for TLC.                                                      *)
EXTENDS EventStream

(* The second event alone is as long as the history may be.                  *)
EventChars == [s \in 1..MaxSeq |-> IF s = 2 THEN 3 ELSE 1]
=============================================================================
