---------------------------- MODULE MCReviewQueue ----------------------------
(***************************************************************************)
(* ReviewQueue on a small instance: level 1 is two plausible hours, level  *)
(* 2 a session of five that runs past midnight, over a cap of three.  A    *)
(* correction of -2 brings the second under the cap without making it less *)
(* suspicious, one of +2 puts hours on an empty day.                       *)
(***************************************************************************)
EXTENDS ReviewQueue

MCSecondsOf   == [e \in Evidence |-> IF e = 2 THEN 5 ELSE 2 * e]
MCFlagsOf     == [e \in Evidence |-> IF e = 2 THEN {"long_session"} ELSE {}]
MCSpillOf     == [e \in Evidence |-> IF e = 2 THEN 1 ELSE 0]
MCAdjustments == {-2, 2}

=============================================================================
