------------------------------- MODULE MCYear -------------------------------
(***************************************************************************)
(* Export on a small instance: the same evidence as MCReviewQueue.         *)
(***************************************************************************)
EXTENDS Export

MCSecondsOf   == [e \in Evidence |-> IF e = 2 THEN 5 ELSE 2 * e]
MCFlagsOf     == [e \in Evidence |-> IF e = 2 THEN {"long_session"} ELSE {}]
MCSpillOf     == [e \in Evidence |-> IF e = 2 THEN 1 ELSE 0]
MCAdjustments == {-2, 2}
MCYear        == {0, 1}

=============================================================================
