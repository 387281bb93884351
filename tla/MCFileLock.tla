----------------------------- MODULE MCFileLock -----------------------------
(* FileLock for TLC: which call belongs to which process.                    *)
EXTENDS FileLock, TLC

CONSTANTS p1, p2, p3, c1, c2, c3

TwoProcs == {p1, p2}
ThreeProcs == {p1, p2, p3}
ThreeCalls == {c1, c2, c3}

(* Two calls in one process and one in another.                              *)
Unpaired == (c1 :> p1 @@ c2 :> p1 @@ c3 :> p2)
(* One call in each of three processes.                                      *)
Separate == (c1 :> p1 @@ c2 :> p2 @@ c3 :> p3)

FirstProc == {p1}
=============================================================================
