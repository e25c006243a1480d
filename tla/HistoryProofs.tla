---------------------------- MODULE HistoryProofs ----------------------------
(***************************************************************************)
(* Lemmas about the history of one date: what the operations of            *)
(* DaySummaries make of a good one, for every evidence.                    *)
(***************************************************************************)
EXTENDS DaySummaries, TLAPS

USE EvidenceAssumption

\* A row the operations insert is a row of the table.
LEMMA NewRowType ==
  ASSUME NEW v \in Nat \ {0}, NEW c \in Nat, NEW a \in Int,
         NEW b \in {"sessioniser", "human"}
  PROVE  /\ NewRow(v, c, a, b) \in Row
         /\ ClaimOf(c, a) \in Nat
  BY DEF NewRow, ClaimOf, Row

\* What the sessioniser and a correction write are rows of the table.
LEMMA ResummarisedType ==
  ASSUME NEW R \in SUBSET Row, NEW c \in Nat
  PROVE  Resummarised(R, c) \in SUBSET Row
  <1>1. NewRow(1, c, 0, "sessioniser") \in Row
    BY NewRowType
  <1>2. ASSUME NEW r \in R
        PROVE  NewRow(r.version + 1, c, r.adjustment, "sessioniser") \in Row
    <2>1. r.version + 1 \in Nat \ {0} /\ r.adjustment \in Int
      BY DEF Row
    <2>. QED
      BY <2>1, NewRowType
  <1>. QED
    BY <1>1, <1>2 DEF Resummarised

\* In a contiguous history there is one latest row, and every row is before it.
LEMMA LatestUnique ==
  ASSUME NEW R \in SUBSET Row, Contiguous(R),
         NEW r \in R, NEW s \in R, IsLatest(r, R), IsLatest(s, R)
  PROVE  r = s
  <1>1. r.version \in Nat /\ s.version \in Nat
    BY DEF Row
  <1>2. r.version <= s.version /\ s.version <= r.version
    BY DEF IsLatest
  <1>3. r.version = s.version
    BY <1>1, <1>2
  <1>. QED
    BY <1>3 DEF Contiguous

\* A history with a row has a latest one.
LEMMA LatestExists ==
  ASSUME NEW R \in SUBSET Row, Contiguous(R), R # {}
  PROVE  \E r \in R : IsLatest(r, R)
  <1>1. PICK n \in {0} \cup {r.version : r \in R} :
           /\ \A r \in R : r.version <= n
           /\ \A k \in 1 .. n : \E r \in R : r.version = k
    BY DEF Contiguous
  <1>2. \A r \in R : r.version \in Nat \ {0}
    BY DEF Row
  <1>3. n \in Nat /\ n # 0
    BY <1>1, <1>2
  <1>4. PICK r \in R : r.version = n
    BY <1>1, <1>3
  <1>. QED
    BY <1>1, <1>4 DEF IsLatest

\* Appending a row that follows the latest keeps a history good.
LEMMA GoodAppend ==
  ASSUME NEW R \in SUBSET Row, NEW e \in Evidence, NEW e2 \in Evidence,
         Good(R, e), NEW r \in R, IsLatest(r, R),
         NEW s \in Row, s.version = r.version + 1, Follows(s, r),
         s.claimed = ClaimOf(s.computed, s.adjustment),
         s.computed = SecondsOf[e2]
  PROVE  Good(R \cup {s}, e2)
  <1>. DEFINE R2 == R \cup {s}
  <1>1. \A x \in R2 : x.version \in Nat \ {0}
    BY DEF Row
  <1>2. \A x \in R : x.version <= r.version /\ x.version < s.version
    BY <1>1 DEF IsLatest
  <1>3. s \notin R
    BY <1>1, <1>2
  <1>4. Contiguous(R2)
    <2>1. PICK n \in {0} \cup {x.version : x \in R} :
             /\ \A x \in R : x.version <= n
             /\ \A k \in 1 .. n : \E x \in R : x.version = k
             /\ \A x, y \in R : x.version = y.version => x = y
      BY DEF Good, Contiguous
    <2>2. n = r.version
      BY <1>1, <1>2, <2>1
    <2>3. \A k \in 1 .. s.version : \E x \in R2 : x.version = k
      <3>1. \A k \in 1 .. s.version : k \in 1 .. n \/ k = s.version
        BY <1>1, <2>2
      <3>. QED
        BY <3>1, <2>1
    <2>4. \A x \in R2 : x.version <= s.version
      BY <1>1, <1>2
    <2>5. \A x, y \in R2 : x.version = y.version => x = y
      BY <1>1, <1>2, <2>1
    <2>6. s.version \in {0} \cup {x.version : x \in R2}
      OBVIOUS
    <2>. QED
      BY <2>3, <2>4, <2>5, <2>6 DEF Contiguous
  <1>5. Linked(R2)
    <2>1. s.version # 1
      BY <1>1
    <2>2. \A x \in R2 : x.version = 1 => x.author = "sessioniser" /\ x.adjustment = 0
      BY <2>1 DEF Good, Linked
    <2>3. \A x \in R : s.version = x.version + 1 => x = r
      BY <1>1 DEF Good, Contiguous
    <2>4. \A x, y \in R2 : y.version = x.version + 1 => Follows(y, x)
      <3>1. \A y \in R2 : y.version # s.version + 1
        BY <1>1, <1>2
      <3>. QED
        BY <2>3, <3>1 DEF Good, Linked
    <2>. QED
      BY <2>2, <2>4 DEF Good, Linked
  <1>6. Agrees(R2, e2)
    <2>1. \A x \in R : ~IsLatest(x, R2)
      BY <1>1, <1>2 DEF IsLatest
    <2>. QED
      BY <2>1 DEF Agrees
  <1>7. Sticks(R2)
    <2>. SUFFICES ASSUME NEW h \in R2, NEW x \in R2,
                         h.author = "human", h.version <= x.version,
                         \A g \in R2 : g.author = "human" =>
                            ~(h.version < g.version /\ g.version <= x.version)
                  PROVE  x.adjustment = h.adjustment
      BY DEF Sticks
    <2>1. CASE x \in R
      <3>1. h \in R
        BY <1>1, <1>2, <2>1
      <3>. QED
        BY <2>1, <3>1 DEF Good, Sticks
    <2>2. CASE x = s /\ h = s
      BY <2>2
    <2>3. CASE x = s /\ h \in R
      <3>1. s.author # "human"
        BY <1>1, <1>2, <2>3
      <3>2. s.adjustment = r.adjustment
        BY <3>1 DEF Follows
      <3>3. h.version <= r.version
        BY <1>2, <2>3
      <3>4. \A g \in R : g.author = "human" =>
               ~(h.version < g.version /\ g.version <= r.version)
        BY <1>1, <1>2, <2>3
      <3>5. r.adjustment = h.adjustment
        BY <2>3, <3>3, <3>4 DEF Good, Sticks
      <3>. QED
        BY <2>3, <3>2, <3>5
    <2>. QED
      BY <2>1, <2>2, <2>3
  <1>. QED
    BY <1>4, <1>5, <1>6, <1>7 DEF Good

\* A human correction of the latest row keeps a history good.
LEMMA GoodCorrected ==
  ASSUME NEW R \in SUBSET Row, NEW e \in Evidence, Good(R, e),
         NEW r \in R, IsLatest(r, R), NEW a \in Int
  PROVE  Good(R \cup {Corrected(r, a)}, e)
  <1>. DEFINE s == Corrected(r, a)
  <1>1. r.version \in Nat \ {0} /\ r.computed \in Nat
    BY DEF Row
  <1>2. s \in Row
    <2>1. r.version + 1 \in Nat \ {0}
      BY <1>1
    <2>2. NewRow(r.version + 1, r.computed, a, "human") \in Row
      BY <1>1, <2>1, NewRowType
    <2>. QED
      BY <2>2 DEF Corrected
  <1>3. s.version = r.version + 1 /\ s.computed = r.computed /\ s.author = "human"
    BY DEF Corrected, NewRow
  <1>4. s.claimed = ClaimOf(s.computed, s.adjustment)
    BY DEF Corrected, NewRow
  <1>5. s.computed = SecondsOf[e]
    BY <1>3 DEF Good, Agrees
  <1>6. Follows(s, r)
    BY <1>3 DEF Follows
  <1>. QED
    BY <1>2, <1>3, <1>4, <1>5, <1>6, GoodAppend

\* What the sessioniser leaves is good for the sessions it stored, whatever
\* observations it had loaded.
LEMMA GoodResummarised ==
  ASSUME NEW R \in SUBSET Row, NEW e \in Evidence, Good(R, e), NEW e2 \in Evidence
  PROVE  Good(Resummarised(R, SecondsOf[e2]), e2)
  <1>. DEFINE c == SecondsOf[e2]
              first == NewRow(1, c, 0, "sessioniser")
  <1>1. c \in Nat
    OBVIOUS
  <1>2. CASE R = {}
    <2>1. Resummarised(R, c) = {first}
      BY <1>2 DEF Resummarised
    <2>2. first \in Row
      BY <1>1, NewRowType
    <2>3. /\ first.version = 1 /\ first.computed = c /\ first.adjustment = 0
          /\ first.author = "sessioniser" /\ first.claimed = ClaimOf(c, 0)
      BY DEF NewRow
    <2>4. Contiguous({first})
      <3>1. 1 \in {0} \cup {x.version : x \in {first}}
        BY <2>3
      <3>2. \A x \in {first} : x.version <= 1
        BY <2>3
      <3>3. \A k \in 1 .. 1 : \E x \in {first} : x.version = k
        BY <2>3
      <3>. QED
        BY <3>1, <3>2, <3>3 DEF Contiguous
    <2>5. Linked({first})
      BY <2>3 DEF Linked
    <2>6. Agrees({first}, e2) /\ Sticks({first})
      BY <2>3 DEF Agrees, Sticks
    <2>. QED
      BY <2>1, <2>4, <2>5, <2>6 DEF Good
  <1>3. CASE R # {}
    <2>1. PICK r \in R : IsLatest(r, R)
      BY <1>3, LatestExists DEF Good
    <2>2. \A l \in R : IsLatest(l, R) => l = r
      BY <2>1, LatestUnique DEF Good
    <2>3. CASE r.computed = c
      <3>1. Resummarised(R, c) = R
        BY <1>3, <2>2, <2>3 DEF Resummarised
      <3>2. Agrees(R, e2)
        BY <2>2, <2>3 DEF Agrees
      <3>. QED
        BY <3>1, <3>2 DEF Good
    <2>4. CASE r.computed # c
      <3>. DEFINE s == NewRow(r.version + 1, c, r.adjustment, "sessioniser")
      <3>1. { l \in R : IsLatest(l, R) /\ l.computed # c } = {r}
        BY <2>1, <2>2, <2>4
      <3>2. Resummarised(R, c) = R \cup {s}
        BY <1>3, <3>1 DEF Resummarised
      <3>3. r.version \in Nat \ {0} /\ r.adjustment \in Int
        BY DEF Row
      <3>4. s \in Row
        <4>1. r.version + 1 \in Nat \ {0}
          BY <3>3
        <4>. QED
          BY <1>1, <3>3, <4>1, NewRowType
      <3>5. /\ s.version = r.version + 1 /\ s.computed = c
            /\ s.adjustment = r.adjustment /\ s.author = "sessioniser"
            /\ s.claimed = ClaimOf(s.computed, s.adjustment)
        BY DEF NewRow
      <3>6. Follows(s, r)
        BY <2>4, <3>5 DEF Follows
      <3>. HIDE DEF s
      <3>7. Good(R \cup {s}, e2)
        BY <2>1, <3>4, <3>5, <3>6, GoodAppend
      <3>. QED
        BY <3>2, <3>7
    <2>. QED
      BY <2>3, <2>4
  <1>. QED
    BY <1>2, <1>3

\* Locking a version changes no row but its lock.
LEMMA LockKeepsContent ==
  ASSUME NEW R \in SUBSET Row, NEW v \in Nat
  PROVE  /\ LockVersion(R, v) \in SUBSET Row
         /\ \A r \in R : \E s \in LockVersion(R, v) : SameContent(r, s) /\ (r.locked => s.locked)
         /\ \A s \in LockVersion(R, v) : \E r \in R : SameContent(r, s)
  <1>. DEFINE f(r) == IF r.version = v THEN [r EXCEPT !.locked = TRUE] ELSE r
  <1>1. ASSUME NEW r \in R
        PROVE  f(r) \in Row /\ SameContent(r, f(r)) /\ (r.locked => f(r).locked)
    BY DEF Row, SameContent
  <1>2. LockVersion(R, v) = { f(r) : r \in R }
    BY DEF LockVersion
  <1>. QED
    BY <1>1, <1>2

\* Two rows of the same content agree on all the fields but the lock.
LEMMA SameFields ==
  ASSUME NEW r \in Row, NEW s \in Row, SameContent(r, s)
  PROVE  /\ r.version = s.version /\ r.computed = s.computed
         /\ r.adjustment = s.adjustment /\ r.claimed = s.claimed
         /\ r.author = s.author
  BY DEF SameContent, Row

\* Locking keeps a history good.
LEMMA GoodLock ==
  ASSUME NEW R \in SUBSET Row, NEW e \in Evidence, Good(R, e), NEW v \in Nat
  PROVE  Good(LockVersion(R, v), e)
  <1>. DEFINE f(r) == IF r.version = v THEN [r EXCEPT !.locked = TRUE] ELSE r
              L == LockVersion(R, v)
  <1>1. \A r \in R : /\ f(r) \in Row
                     /\ f(r).version = r.version /\ f(r).computed = r.computed
                     /\ f(r).adjustment = r.adjustment /\ f(r).claimed = r.claimed
                     /\ f(r).author = r.author
    BY DEF Row
  <1>2. L = { f(r) : r \in R }
    BY DEF LockVersion
  <1>. HIDE DEF f, L
  <1>3. Contiguous(L)
    <2>1. { r.version : r \in L } = { r.version : r \in R }
      BY <1>1, <1>2
    <2>2. PICK n \in {0} \cup { r.version : r \in R } :
             /\ \A r \in R : r.version <= n
             /\ \A k \in 1 .. n : \E r \in R : r.version = k
             /\ \A r, s \in R : r.version = s.version => r = s
      BY DEF Good, Contiguous
    <2>3. \A r \in L : r.version <= n
      BY <1>1, <1>2, <2>2
    <2>4. \A k \in 1 .. n : \E r \in L : r.version = k
      BY <1>1, <1>2, <2>2
    <2>5. \A r, s \in L : r.version = s.version => r = s
      BY <1>1, <1>2, <2>2
    <2>. QED
      BY <2>1, <2>2, <2>3, <2>4, <2>5 DEF Contiguous
  <1>4. Linked(L)
    <2>1. \A r \in L : r.version = 1 => r.author = "sessioniser" /\ r.adjustment = 0
      BY <1>1, <1>2 DEF Good, Linked
    <2>2. \A r, s \in R : f(s).version = f(r).version + 1 => Follows(f(s), f(r))
      BY <1>1 DEF Good, Linked, Follows
    <2>3. \A r \in L : r.claimed = ClaimOf(r.computed, r.adjustment)
      BY <1>1, <1>2 DEF Good, Linked
    <2>. QED
      BY <1>2, <2>1, <2>2, <2>3 DEF Linked
  <1>5. \A r \in R : IsLatest(f(r), L) => IsLatest(r, R)
    BY <1>1, <1>2 DEF IsLatest
  <1>6. Agrees(L, e)
    BY <1>1, <1>2, <1>5 DEF Good, Agrees
  <1>7. Sticks(L)
    <2>. SUFFICES ASSUME NEW h \in R, NEW r \in R,
                         f(h).author = "human", f(h).version <= f(r).version,
                         \A g \in L : g.author = "human" =>
                            ~(f(h).version < g.version /\ g.version <= f(r).version)
                  PROVE  f(r).adjustment = f(h).adjustment
      BY <1>2 DEF Sticks
    <2>1. \A g \in R : g.author = "human" =>
             ~(h.version < g.version /\ g.version <= r.version)
      BY <1>1, <1>2
    <2>. QED
      BY <1>1, <2>1 DEF Good, Sticks
  <1>. QED
    BY <1>3, <1>4, <1>6, <1>7 DEF Good, L

=============================================================================
