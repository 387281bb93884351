-------------------------- MODULE MCAnswerDelivery --------------------------
(* AnswerDelivery for TLC.                                                   *)
EXTENDS AnswerDelivery

CONSTANT a1

OneApproval == {a1}

(* Every operation but two: when the put fails, an answer whose turn has     *)
(* begun is marked delivered while its row is not written, and nothing makes *)
(* up for a reopening that fails.                                            *)
MostFaults == Operation \ {"put", "reopen"}
NoFaults == {}
=============================================================================
