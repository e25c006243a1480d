---------------------------- MODULE DaySummaries ----------------------------
(***************************************************************************)
(* The rows of the daily_summaries table and the operations that make one  *)
(* row from another.  A date's history is a SET of rows, as a table is:    *)
(* nothing in the representation makes the version numbers unique or       *)
(* consecutive; that is what the specifications built on this module have  *)
(* to show.                                                                *)
(*                                                                         *)
(* Observations are abstracted to an evidence level per date, and the pure *)
(* sessioniser to the function SecondsOf from that level to the seconds    *)
(* its sessions add up to.                                                 *)
(***************************************************************************)
EXTENDS Integers

CONSTANTS
  MaxEvidence,  \* bound: highest evidence level of a date
  SecondsOf     \* SecondsOf[e]: computed seconds the builder finds at level e

Evidence == 0 .. MaxEvidence

ASSUME EvidenceAssumption ==
  /\ MaxEvidence \in Nat
  /\ SecondsOf \in [Evidence -> Nat]
  /\ SecondsOf[0] = 0

(***************************************************************************)
(* A row.  The author is "sessioniser", or "human" for created_by web and  *)
(* telegram, which the code treats alike.  Reason, timestamps and rule     *)
(* version carry no control and are left out.                              *)
(***************************************************************************)
Row == [version    : Nat \ {0},
        computed   : Nat,
        adjustment : Int,
        claimed    : Nat,
        locked     : BOOLEAN,
        author     : {"sessioniser", "human"}]

\* MUTANT of ClaimOf: the clamp at zero is forgotten.
ClaimUnclamped(computed, adjustment) == computed + adjustment

ClaimOf(computed, adjustment) ==
  IF computed + adjustment > 0 THEN computed + adjustment ELSE 0

\* A new row is always inserted unlocked.
NewRow(version, computed, adjustment, author) ==
  [version    |-> version,
   computed   |-> computed,
   adjustment |-> adjustment,
   claimed    |-> ClaimOf(computed, adjustment),
   locked     |-> FALSE,
   author     |-> author]

IsLatest(r, R) == r \in R /\ \A s \in R : s.version <= r.version

(***************************************************************************)
(* What a human correction inserts after the row it read.                  *)
(***************************************************************************)
Corrected(read, a) == NewRow(read.version + 1, read.computed, a, "human")

(***************************************************************************)
(* What the sessioniser leaves in a date's history when it computes c:     *)
(* nothing changes if the latest row already says c; otherwise a new row   *)
(* that carries the adjustment forward.                                    *)
(***************************************************************************)
\* MUTANT of Resummarised: a locked day keeps its latest version.
ResummarisedUnlessLocked(R, c) ==
  IF R = {}
    THEN {NewRow(1, c, 0, "sessioniser")}
    ELSE R \cup { NewRow(r.version + 1, c, r.adjustment, "sessioniser") :
                    r \in { l \in R : IsLatest(l, R) /\ l.computed # c /\ ~l.locked } }

\* MUTANT of Resummarised: the adjustment is not carried forward.
ResummarisedForgetting(R, c) ==
  IF R = {}
    THEN {NewRow(1, c, 0, "sessioniser")}
    ELSE R \cup { NewRow(r.version + 1, c, 0, "sessioniser") :
                    r \in { l \in R : IsLatest(l, R) /\ l.computed # c } }

\* MUTANT of Resummarised: an unlocked latest row is updated in place.
ResummarisedInPlace(R, c) ==
  IF R = {}
    THEN {NewRow(1, c, 0, "sessioniser")}
    ELSE LET changed == { l \in R : IsLatest(l, R) /\ l.computed # c }
         IN  { IF r \in changed /\ ~r.locked
                 THEN [r EXCEPT !.computed = c, !.claimed = ClaimOf(c, r.adjustment)]
                 ELSE r : r \in R }
             \cup { NewRow(r.version + 1, c, r.adjustment, "sessioniser") :
                      r \in { l \in changed : l.locked } }

Resummarised(R, c) ==
  IF R = {}
    THEN {NewRow(1, c, 0, "sessioniser")}
    ELSE R \cup { NewRow(r.version + 1, c, r.adjustment, "sessioniser") :
                    r \in { l \in R : IsLatest(l, R) /\ l.computed # c } }

\* UPDATE ... SET locked = 1 on one row of a date.
LockVersion(R, v) ==
  { IF r.version = v THEN [r EXCEPT !.locked = TRUE] ELSE r : r \in R }

(***************************************************************************)
(* What a well-formed history is.                                          *)
(***************************************************************************)

\* Two rows that differ at most in the lock.
SameContent(r, s) == [r EXCEPT !.locked = s.locked] = s

\* Versions are 1 .. n, each exactly once.
Contiguous(R) ==
  \E n \in {0} \cup {r.version : r \in R} :
    /\ \A r \in R : r.version <= n
    /\ \A k \in 1 .. n : \E r \in R : r.version = k
    /\ \A r, s \in R : r.version = s.version => r = s

\* A human correction keeps the computed seconds of the row before it; a
\* sessioniser row keeps the adjustment and exists only because the computed
\* seconds moved.
Follows(s, r) ==
  IF s.author = "human"
    THEN s.computed = r.computed
    ELSE s.adjustment = r.adjustment /\ s.computed # r.computed

Linked(R) ==
  /\ \A r \in R : r.version = 1 => r.author = "sessioniser" /\ r.adjustment = 0
  /\ \A r, s \in R : s.version = r.version + 1 => Follows(s, r)
  /\ \A r \in R : r.claimed = ClaimOf(r.computed, r.adjustment)

\* The latest row of a history says what sessions of evidence level e add up to.
Agrees(R, e) == \A r \in R : IsLatest(r, R) => r.computed = SecondsOf[e]

\* Every row after a human's, up to the next human's, has the human's adjustment.
Sticks(R) ==
  \A h, r \in R :
    /\ h.author = "human"
    /\ h.version <= r.version
    /\ \A g \in R : g.author = "human" => ~(h.version < g.version /\ g.version <= r.version)
    => r.adjustment = h.adjustment

\* A well-formed history in line with the sessions of evidence level e.
Good(R, e) == Contiguous(R) /\ Linked(R) /\ Agrees(R, e) /\ Sticks(R)

=============================================================================
