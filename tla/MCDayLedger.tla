---------------------------- MODULE MCDayLedger -----------------------------
(***************************************************************************)
(* DayLedger on a small instance: evidence level 0 is no observation at    *)
(* all, level 1 one hour of presence.  A correction of -1 takes the second *)
(* to nothing and the first below zero, where the claim is clamped.        *)
(***************************************************************************)
EXTENDS DayLedger, TLC

MCSecondsOf   == [e \in 0 .. MaxEvidence |-> e]
MCAdjustments == {-1}

\* The nightly job and a bulk lock cover both dates in one transaction, a human
\* corrects the first.
TwoDates    == {1, 2}
TwoRequests == { [job |-> "sessionise", dates |-> {1, 2}],
                 [job |-> "lock",       dates |-> {1, 2}],
                 [job |-> "adjust",     dates |-> {1}] }

=============================================================================
