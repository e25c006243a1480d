---------------------------- MODULE DayVersions -----------------------------
(***************************************************************************)
(* What the day service promises, with no database underneath: each        *)
(* operation reads the latest version of a date and changes its history in *)
(* one atomic step, and a run of the sessioniser over several dates is one *)
(* step too.  DayLedger shows that the concurrent sessions of the real     *)
(* service implement this.                                                 *)
(***************************************************************************)
EXTENDS DaySummaries

CONSTANTS Dates, Adjustments

VARIABLES
  history,   \* history[d]: the rows of date d
  sessions   \* sessions[d]: the evidence level the stored sessions come from

vars == <<history, sessions>>

Init ==
  /\ history  = [d \in Dates |-> {}]
  /\ sessions = [d \in Dates |-> 0]

(***************************************************************************)
(* Each operation is stated between explicit states, from <<H, S>> to      *)
(* <<H2, S2>>, so that an implementation can also use it for the work of a *)
(* transaction that has not committed.                                     *)
(***************************************************************************)

\* A correction follows the latest row.
Adjusts(H, S, H2, S2) ==
  /\ S2 = S
  /\ \E d \in Dates : \E r \in H[d] : \E a \in Adjustments :
       /\ IsLatest(r, H[d])
       /\ H2 = [H EXCEPT ![d] = @ \cup {Corrected(r, a)}]

\* A lock touches rows that exist, at most one of each date.
Locks(H, S, H2, S2) ==
  /\ S2 = S
  /\ \A d \in Dates :
       \/ H2[d] = H[d]
       \/ \E r \in H[d] : H2[d] = LockVersion(H[d], r.version)

\* The sessioniser replaces the sessions of a date and, with them, brings the
\* latest row in line; the other dates stay as they were.
Sessionises(H, S, H2, S2) ==
  \A d \in Dates :
    \/ H2[d] = H[d] /\ S2[d] = S[d]
    \/ H2[d] = Resummarised(H[d], SecondsOf[S2[d]])

Next ==
  /\ history'  \in [Dates -> SUBSET Row]
  /\ sessions' \in [Dates -> Evidence]
  /\ \/ Adjusts(history, sessions, history', sessions')
     \/ Locks(history, sessions, history', sessions')
     \/ Sessionises(history, sessions, history', sessions')

Spec == Init /\ [][Next]_vars

=============================================================================
