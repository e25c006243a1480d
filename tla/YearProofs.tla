------------------------------ MODULE YearProofs ------------------------------
(***************************************************************************)
(* Theorems about ReviewQueue, for every calendar, window, evidence and    *)
(* number of requests, and on top of them about Export, for every year.    *)
(***************************************************************************)
EXTENDS Export, HistoryProofs, FiniteSetTheorems, FunctionTheorems

USE EvidenceAssumption, QueueAssumption

LEMMA Parameters ==
  /\ MaxDay \in Nat /\ Window \in Nat /\ Trailing \in Nat /\ Cap \in Nat /\ MaxActs \in Nat
  /\ \A d \in Days : d \in Nat /\ d <= MaxDay
  /\ 0 \in Days
  /\ \A e \in Evidence : e < MaxEvidence => e + 1 \in Evidence
  BY DEF Days, Evidence

-----------------------------------------------------------------------------
(***************************************************************************)
(* Lemmas about the latest row.                                            *)
(***************************************************************************)

LEMMA LatestOfGood ==
  ASSUME NEW R \in SUBSET Row, Contiguous(R), R # {}
  PROVE  Latest(R) \in R /\ IsLatest(Latest(R), R)
  <1>1. \E r \in R : IsLatest(r, R)
    BY LatestExists
  <1>. QED
    BY <1>1 DEF Latest

LEMMA LatestIs ==
  ASSUME NEW R \in SUBSET Row, Contiguous(R), NEW r \in R, IsLatest(r, R)
  PROVE  Latest(R) = r
  BY LatestOfGood, LatestUnique

\* Locking a version changes neither the computed seconds of the latest row nor
\* whether there is one.
LEMMA LatestOfLocked ==
  ASSUME NEW R \in SUBSET Row, Contiguous(R), R # {}, NEW v \in Nat,
         Contiguous(LockVersion(R, v))
  PROVE  /\ LockVersion(R, v) # {}
         /\ Latest(LockVersion(R, v)).computed = Latest(R).computed
  <1>. DEFINE L == LockVersion(R, v)
  <1>1. /\ L \in SUBSET Row
        /\ \A r \in R : \E s \in L : SameContent(r, s)
        /\ \A s \in L : \E r \in R : SameContent(r, s)
    BY LockKeepsContent
  <1>2. PICK s \in L : SameContent(Latest(R), s)
    BY <1>1, LatestOfGood
  <1>3. Latest(R) \in R /\ \A r \in R : r.version <= Latest(R).version
    BY LatestOfGood DEF IsLatest
  <1>4. s.version = Latest(R).version /\ s.computed = Latest(R).computed
    BY <1>1, <1>2, <1>3, SameFields
  <1>5. \A x \in L : x.version <= s.version
    <2>. SUFFICES ASSUME NEW x \in L PROVE x.version <= s.version
      OBVIOUS
    <2>1. PICK r \in R : SameContent(r, x)
      BY <1>1
    <2>2. x.version = r.version
      BY <1>1, <2>1, SameFields
    <2>. QED
      BY <1>3, <1>4, <2>2
  <1>6. Latest(L) = s
    BY <1>1, <1>5, LatestIs DEF IsLatest
  <1>. QED
    BY <1>2, <1>4, <1>6

\* Locking the latest version, if there is one, keeps a history good.
LEMMA GoodLockLatest ==
  ASSUME NEW R \in SUBSET Row, NEW e \in Evidence, Good(R, e)
  PROVE  /\ LockVersion(R, Latest(R).version) \in SUBSET Row
         /\ Good(LockVersion(R, Latest(R).version), e)
  <1>1. CASE R = {}
    <2>1. LockVersion(R, Latest(R).version) = {}
      BY <1>1 DEF LockVersion
    <2>. QED
      BY <1>1, <2>1
  <1>2. CASE R # {}
    <2>1. Latest(R).version \in Nat
      BY <1>2, LatestOfGood DEF Good, Row
    <2>. QED
      BY <2>1, GoodLock, LockKeepsContent
  <1>. QED
    BY <1>1, <1>2

\* A correction of the latest row becomes the latest row, with its computed seconds.
LEMMA CorrectLatest ==
  ASSUME NEW R \in SUBSET Row, NEW e \in Evidence, Good(R, e), R # {}, NEW a \in Int
  PROVE  /\ Corrected(Latest(R), a) \in Row
         /\ Good(R \cup {Corrected(Latest(R), a)}, e)
         /\ Latest(R \cup {Corrected(Latest(R), a)}).computed = Latest(R).computed
  <1>. DEFINE l == Latest(R)
              s == Corrected(l, a)
  <1>1. l \in R /\ IsLatest(l, R)
    BY LatestOfGood DEF Good
  <1>2. l.version + 1 \in Nat \ {0} /\ l.computed \in Nat
    BY <1>1 DEF Row
  <1>3. s \in Row
    BY <1>2, NewRowType DEF Corrected
  <1>4. Good(R \cup {s}, e)
    BY <1>1, GoodCorrected
  <1>5. s.version = l.version + 1 /\ s.computed = l.computed
    BY DEF Corrected, NewRow
  <1>6. \A r \in R : r.version \in Nat /\ r.version <= l.version
    BY <1>1 DEF IsLatest, Row
  <1>. HIDE DEF s, l
  <1>7. IsLatest(s, R \cup {s})
    BY <1>2, <1>5, <1>6, <1>1 DEF IsLatest, Row
  <1>8. Latest(R \cup {s}) = s
    BY <1>3, <1>4, <1>7, LatestIs DEF Good
  <1>. QED
    BY <1>3, <1>4, <1>5, <1>8 DEF s, l

\* The sessioniser leaves a row whatever it found.
LEMMA ResummarisedSome ==
  ASSUME NEW R \in SUBSET Row, NEW c \in Nat
  PROVE  Resummarised(R, c) # {}
  BY DEF Resummarised

\* A good history has as many rows as its latest row has for its number.
LEMMA VersionsCount ==
  ASSUME NEW R \in SUBSET Row, Contiguous(R), R # {}
  PROVE  Cardinality(R) = Latest(R).version
  <1>1. PICK n \in {0} \cup {r.version : r \in R} :
           /\ \A r \in R : r.version <= n
           /\ \A k \in 1 .. n : \E r \in R : r.version = k
           /\ \A r, s \in R : r.version = s.version => r = s
    BY DEF Contiguous
  <1>2. \A r \in R : r.version \in Nat \ {0}
    BY DEF Row
  <1>3. n \in Nat \ {0}
    BY <1>1, <1>2
  <1>4. Latest(R).version = n
    <2>1. PICK r \in R : r.version = n
      BY <1>1, <1>3
    <2>. QED
      BY <1>1, <2>1, LatestIs DEF IsLatest
  <1>. DEFINE f == [k \in 1 .. n |-> CHOOSE r \in R : r.version = k]
  <1>5. \A k \in 1 .. n : f[k] \in R /\ f[k].version = k
    BY <1>1
  <1>6. f \in Bijection(1 .. n, R)
    <2>1. f \in [1 .. n -> R]
      BY <1>5
    <2>2. \A r \in R : r.version \in 1 .. n /\ f[r.version] = r
      BY <1>1, <1>2, <1>3, <1>5
    <2>3. \A a, b \in 1 .. n : f[a] = f[b] => a = b
      BY <1>5
    <2>4. \A r \in R : \E k \in 1 .. n : f[k] = r
      BY <2>2
    <2>. HIDE DEF f
    <2>. QED
      BY <2>1, <2>3, <2>4, Fun_IsBij
  <1>. QED
    BY <1>3, <1>4, <1>6, FS_CountingElements DEF ExistsBijection

-----------------------------------------------------------------------------
(***************************************************************************)
(* The inductive invariant.                                                *)
(***************************************************************************)

\* What the operations make of all the dates at once.
LEMMA SessioniseGood ==
  ASSUME TypeOK, \A d \in Days : Good(rows[d], sess[d]), NEW D, Sessionise(D)
  PROVE  /\ sess' \in [Days -> Evidence]
         /\ rows' \in [Days -> SUBSET Row]
         /\ \A d \in Days : Good(rows'[d], sess'[d])
         /\ \A d \in Days \cap D : /\ rows'[d] # {}
                                   /\ Latest(rows'[d]).computed = SecondsOf[evidence[d]]
         /\ \A d \in Days \ D : rows'[d] = rows[d] /\ sess'[d] = sess[d]
  <1>1. \A d \in Days : rows[d] \in SUBSET Row /\ evidence[d] \in Evidence
                        /\ sess[d] \in Evidence /\ SecondsOf[evidence[d]] \in Nat
    BY DEF TypeOK
  <1>2. \A d \in Days \cap D :
           /\ sess'[d] = evidence[d]
           /\ rows'[d] = Resummarised(rows[d], SecondsOf[evidence[d]])
    BY DEF Sessionise
  <1>3. \A d \in Days \ D : rows'[d] = rows[d] /\ sess'[d] = sess[d]
    BY DEF Sessionise
  <1>4. ASSUME NEW d \in Days \cap D
        PROVE  /\ rows'[d] \in SUBSET Row /\ rows'[d] # {}
               /\ Good(rows'[d], evidence[d])
               /\ Latest(rows'[d]).computed = SecondsOf[evidence[d]]
    <2>1. rows'[d] \in SUBSET Row /\ rows'[d] # {}
      BY <1>1, <1>2, ResummarisedType, ResummarisedSome
    <2>2. Good(rows'[d], evidence[d])
      BY <1>1, <1>2, GoodResummarised
    <2>3. Latest(rows'[d]) \in rows'[d] /\ IsLatest(Latest(rows'[d]), rows'[d])
      BY <2>1, <2>2, LatestOfGood DEF Good
    <2>. QED
      BY <2>1, <2>2, <2>3 DEF Good, Agrees
  <1>5. /\ sess' = [d \in Days |-> sess'[d]] /\ rows' = [d \in Days |-> rows'[d]]
    BY DEF Sessionise
  <1>6. \A d \in Days : /\ rows'[d] \in SUBSET Row /\ sess'[d] \in Evidence
                        /\ Good(rows'[d], sess'[d])
    BY <1>1, <1>2, <1>3, <1>4
  <1>. QED
    BY <1>3, <1>4, <1>5, <1>6

LEMMA AdjustGood ==
  ASSUME TypeOK, \A d \in Days : Good(rows[d], sess[d]),
         NEW d \in Days, NEW a \in Adjustments, Adjust(d, a)
  PROVE  /\ rows' \in [Days -> SUBSET Row]
         /\ \A e \in Days : Good(rows'[e], sess[e])
         /\ rows'[d] = rows[d] \cup {Corrected(Latest(rows[d]), a)}
         /\ Latest(rows'[d]).computed = Latest(rows[d]).computed
         /\ \A e \in Days \ {d} : rows'[e] = rows[e]
  <1>1. rows[d] \in SUBSET Row /\ sess[d] \in Evidence /\ rows[d] # {} /\ a \in Int
    BY DEF TypeOK, Adjust
  <1>2. /\ Corrected(Latest(rows[d]), a) \in Row
        /\ Good(rows[d] \cup {Corrected(Latest(rows[d]), a)}, sess[d])
        /\ Latest(rows[d] \cup {Corrected(Latest(rows[d]), a)}).computed
             = Latest(rows[d]).computed
    BY <1>1, CorrectLatest
  <1>3. rows' = [rows EXCEPT ![d] = @ \cup {Corrected(Latest(@), a)}]
    BY DEF Adjust
  <1>4. rows'[d] = rows[d] \cup {Corrected(Latest(rows[d]), a)}
    BY <1>3 DEF TypeOK
  <1>5. \A e \in Days \ {d} : rows'[e] = rows[e]
    BY <1>3 DEF TypeOK
  <1>6. rows' \in [Days -> SUBSET Row]
    BY <1>1, <1>2, <1>3 DEF TypeOK
  <1>. QED
    BY <1>2, <1>4, <1>5, <1>6

\* A total frozen by a lock stays so, whatever is locked or corrected after it.
LEMMA LockKeepsFrozen ==
  ASSUME NEW R \in SUBSET Row, NEW v \in Nat, NEW c, FrozenAt(R, c)
  PROVE  FrozenAt(LockVersion(R, v), c)
  <1>. DEFINE L == LockVersion(R, v)
  <1>1. PICK r \in R : /\ r.locked /\ r.computed = c
                       /\ \A s \in R : s.version > r.version => s.author = "human"
    BY DEF FrozenAt
  <1>2. /\ L \in SUBSET Row
        /\ \A x \in R : \E s \in L : SameContent(x, s) /\ (x.locked => s.locked)
        /\ \A s \in L : \E x \in R : SameContent(x, s)
    BY LockKeepsContent
  <1>. HIDE DEF L
  <1>3. PICK q \in L : SameContent(r, q) /\ q.locked
    BY <1>1, <1>2
  <1>4. q.computed = c /\ q.version = r.version
    BY <1>1, <1>2, <1>3, SameFields
  <1>5. ASSUME NEW s \in L, s.version > q.version PROVE s.author = "human"
    <2>1. PICK x \in R : SameContent(x, s)
      BY <1>2
    <2>2. x.version = s.version /\ x.author = s.author
      BY <1>2, <2>1, SameFields
    <2>. QED
      BY <1>1, <1>4, <1>5, <2>2
  <1>. QED
    BY <1>3, <1>4, <1>5 DEF FrozenAt, L

LEMMA CorrectionKeepsFrozen ==
  ASSUME NEW R, NEW r, NEW a, NEW c, FrozenAt(R, c)
  PROVE  FrozenAt(R \cup {Corrected(r, a)}, c)
  <1>1. Corrected(r, a).author = "human"
    BY DEF Corrected, NewRow
  <1>. HIDE DEF Corrected
  <1>. QED
    BY <1>1 DEF FrozenAt

\* Locking the latest rows of a set of dates.
LEMMA LockGood ==
  ASSUME TypeOK, \A d \in Days : Good(rows[d], sess[d]), NEW D,
         rows' = [d \in Days |-> IF d \in D THEN LockVersion(rows[d], Latest(rows[d]).version)
                                            ELSE rows[d]]
  PROVE  /\ rows' \in [Days -> SUBSET Row]
         /\ \A d \in Days : /\ Good(rows'[d], sess[d])
                            /\ rows[d] = {} <=> rows'[d] = {}
                            /\ rows[d] # {} =>
                                 Latest(rows'[d]).computed = Latest(rows[d]).computed
                            /\ \A c : FrozenAt(rows[d], c) => FrozenAt(rows'[d], c)
  <1>1. \A d \in Days : rows[d] \in SUBSET Row /\ sess[d] \in Evidence
    BY DEF TypeOK
  <1>2. ASSUME NEW d \in Days
        PROVE  /\ rows'[d] \in SUBSET Row /\ Good(rows'[d], sess[d])
               /\ rows[d] = {} <=> rows'[d] = {}
               /\ rows[d] # {} => Latest(rows'[d]).computed = Latest(rows[d]).computed
               /\ \A c : FrozenAt(rows[d], c) => FrozenAt(rows'[d], c)
    <2>1. CASE d \notin D
      BY <1>1, <2>1
    <2>2. CASE d \in D /\ rows[d] = {}
      <3>1. rows'[d] = {}
        BY <2>2 DEF LockVersion
      <3>. QED
        BY <1>1, <2>2, <3>1
    <2>3. CASE d \in D /\ rows[d] # {}
      <3>. DEFINE v == Latest(rows[d]).version
      <3>1. rows'[d] = LockVersion(rows[d], v)
        BY <2>3
      <3>2. v \in Nat
        BY <1>1, <2>3, LatestOfGood DEF Good, Row
      <3>3. /\ LockVersion(rows[d], v) \in SUBSET Row
            /\ Good(LockVersion(rows[d], v), sess[d])
        BY <1>1, GoodLockLatest
      <3>4. /\ LockVersion(rows[d], v) # {}
            /\ Latest(LockVersion(rows[d], v)).computed = Latest(rows[d]).computed
        BY <1>1, <2>3, <3>2, <3>3, LatestOfLocked DEF Good
      <3>5. \A c : FrozenAt(rows[d], c) => FrozenAt(LockVersion(rows[d], v), c)
        BY <1>1, <3>2, LockKeepsFrozen
      <3>. QED
        BY <2>3, <3>1, <3>3, <3>4, <3>5
    <2>. QED
      BY <2>1, <2>2, <2>3
  <1>. QED
    BY <1>2

\* One date locked is a set of one.
LEMMA LockOne ==
  ASSUME TypeOK, NEW d \in Days, Lock(d)
  PROVE  rows' = [e \in Days |-> IF e \in {d} THEN LockVersion(rows[e], Latest(rows[e]).version)
                                              ELSE rows[e]]
  BY DEF TypeOK, Lock

\* A date nobody has rewritten is as it was, and so are the ones before it.
LEMMA UntouchedSame ==
  ASSUME moved' = moved \cup Rewritten, NEW d \in Days, Untouched(d)'
  PROVE  /\ Untouched(d)
         /\ \A e \in Days : e <= d => rows'[e] = rows[e] /\ sess'[e] = sess[e]
         /\ \A t \in Days : Shadowed(d, t)' <=> Shadowed(d, t)
         /\ \A t \in Days : Plausible(d, t)' <=> Plausible(d, t)
  <1>1. Untouched(d)
    BY DEF Untouched
  <1>2. \A e \in Days : e <= d => rows'[e] = rows[e] /\ sess'[e] = sess[e]
    <2>. SUFFICES ASSUME NEW e \in Days, e <= d PROVE e \notin Rewritten
      BY DEF Rewritten
    <2>. QED
      BY DEF Untouched, Days
  <1>3. \A e \in Days : e < d => sess'[e] = sess[e]
    BY <1>2 DEF Days
  <1>4. ASSUME NEW t \in Days PROVE Shadowed(d, t)' <=> Shadowed(d, t)
    BY <1>3 DEF Shadowed
  <1>5. rows'[d] = rows[d] /\ sess'[d] = sess[d]
    BY <1>2 DEF Days
  <1>6. ASSUME NEW t \in Days PROVE Plausible(d, t)' <=> Plausible(d, t)
    BY <1>3, <1>5 DEF Plausible
  <1>. QED
    BY <1>1, <1>2, <1>4, <1>6

\* What anybody else does takes nothing from what a bulk lock knows.
LEMMA BulkKept ==
  ASSUME TypeOK, BulkKnows, bulk' = bulk,
         moved' = IF bulk'.pc = "idle" THEN {} ELSE moved \cup Rewritten
  PROVE  BulkKnows'
  <1>1. CASE bulk.pc = "idle"
    BY <1>1 DEF BulkKnows
  <1>2. CASE bulk.pc # "idle"
    <2>1. moved' = moved \cup Rewritten /\ bulk.day \in Days
      BY <1>2 DEF TypeOK
    <2>2. ASSUME bulk.pc \in {"rows", "sessions"}, NEW d \in Days, Untouched(d)'
          PROVE  d \in bulk.covered <=> Shadowed(d, bulk.day)'
      <3>1. Shadowed(d, bulk.day)' <=> Shadowed(d, bulk.day)
        BY <2>1, <2>2, UntouchedSame
      <3>2. Untouched(d)
        BY <2>1, <2>2, UntouchedSame
      <3>. QED
        BY <2>2, <3>1, <3>2 DEF BulkKnows
    <2>3. ASSUME bulk.pc = "sessions", NEW d \in DOMAIN bulk.latest, Untouched(d)'
          PROVE  rows'[d] # {} /\ bulk.latest[d] = Latest(rows'[d])
      <3>1. d \in Days
        BY <2>3 DEF BulkKnows
      <3>2. Untouched(d) /\ rows'[d] = rows[d]
        BY <2>1, <2>3, <3>1, UntouchedSame DEF Days
      <3>. QED
        BY <2>3, <3>2 DEF BulkKnows
    <2>4. ASSUME bulk.pc = "lock", NEW d \in bulk.clean,
                 d >= bulk.day - Window, Untouched(d)'
          PROVE  Plausible(d, bulk.day)'
      <3>1. d \in Days
        BY <2>4 DEF TypeOK
      <3>2. Untouched(d) /\ (Plausible(d, bulk.day)' <=> Plausible(d, bulk.day))
        BY <2>1, <2>4, <3>1, UntouchedSame
      <3>. QED
        BY <2>4, <3>2 DEF BulkKnows
    <2>. QED
      BY <2>2, <2>3, <2>4 DEF BulkKnows
  <1>. QED
    BY <1>1, <1>2

\* What a bulk lock judges clean on rows and shadows that are still true is plausible.
LEMMA CleanIsPlausible ==
  ASSUME TypeOK, NEW d \in Days, NEW t \in Days, NEW covered \in SUBSET Days,
         rows[d] # {}, Contiguous(rows[d]), d < t, d >= t - Window,
         d \in covered <=> Shadowed(d, t),
         Reasons(Latest(rows[d]), sess[d], d, t, covered) = {"unlocked_backlog"},
         Latest(rows[d]).claimed > 0
  PROVE  Plausible(d, t)
  <1>. DEFINE l == Latest(rows[d])
  <1>1. l \in Row
    BY LatestOfGood DEF TypeOK
  <1>2. d \in Int /\ t \in Int /\ Window \in Nat /\ Cap \in Nat /\ l.claimed \in Nat
        /\ sess[d] \in Evidence /\ FlagsOf[sess[d]] \subseteq SessionFlags
        /\ SecondsOf[sess[d]] \in Nat
    BY <1>1, Parameters DEF TypeOK, Row
  <1>. HIDE DEF l
  <1>3. ~(d < t - Window)
    BY <1>2
  <1>4. ~l.locked
    BY <1>3 DEF Reasons, SessionFlags, l
  <1>5. ~(l.claimed > Cap)
    BY <1>3 DEF Reasons, l
  <1>6. FlagsOf[sess[d]] = {}
    BY <1>2, <1>3, <1>4 DEF Reasons, l, SessionFlags
  <1>7. ~(SecondsOf[sess[d]] = 0 /\ d \in covered)
    BY <1>3, <1>4 DEF Reasons, l
  <1>8. l.claimed \in 1 .. Cap
    BY <1>2, <1>5 DEF l
  <1>9. d \notin covered => \A e \in Days : t - Window <= e /\ e < d => e + SpillOf[sess[e]] < d
    <2>. SUFFICES ASSUME ~Shadowed(d, t), NEW e \in Days, t - Window <= e, e < d
                  PROVE  e + SpillOf[sess[e]] < d
      OBVIOUS
    <2>1. sess[e] \in Evidence /\ SpillOf[sess[e]] \in Nat /\ e \in Int
      BY Parameters DEF TypeOK
    <2>2. e < t
      BY <1>2, <2>1
    <2>3. ~(d <= e + SpillOf[sess[e]])
      BY <2>2 DEF Shadowed
    <2>. QED
      BY <1>2, <2>1, <2>3
  <1>10. SecondsOf[sess[d]] > 0 \/ d \notin covered
    BY <1>2, <1>7
  <1>. QED
    BY <1>6, <1>8, <1>9, <1>10 DEF Plausible, l

LEMMA IInvInit == Init => IInv
  <1>. SUFFICES ASSUME Init PROVE IInv
    OBVIOUS
  <1>1. 0 \in Days /\ 0 \in Evidence
    BY DEF Days, Evidence
  <1>2. TypeOK
    BY <1>1 DEF Init, TypeOK, NoBulk
  <1>3. Good({}, 0)
    BY DEF Good, Contiguous, Linked, Agrees, Sticks
  <1>4. BulkIsRecord /\ BulkKnows
    BY DEF Init, NoBulk, BulkIsRecord, BulkKnows
  <1>. QED
    BY <1>1, <1>2, <1>3, <1>4 DEF Init, IInv

LEMMA IInvNext == IInv /\ [Next]_vars => IInv'
  <1>. SUFFICES ASSUME IInv, [Next]_vars PROVE IInv'
    OBVIOUS
  <1>0. /\ TypeOK /\ BulkKnows /\ BulkIsRecord /\ nights \subseteq 0 .. today
        /\ \A d \in Days : Good(rows[d], sess[d])
    BY DEF IInv
  <1>. DEFINE Moves == moved' = IF bulk'.pc = "idle" THEN {} ELSE moved \cup Rewritten
  <1>1. ASSUME Moves PROVE moved' \subseteq Days
    BY <1>0, <1>1 DEF TypeOK, Rewritten
  <1>. HIDE DEF Moves
  <1>2. ASSUME Midnight, Moves PROVE IInv'
    <2>1. BulkKnows'
      BY <1>0, <1>2, BulkKept DEF Midnight, Moves
    <2>2. TypeOK'
      <3>1. today' \in Days
        BY <1>0, <1>2, Parameters DEF Midnight, TypeOK, Days
      <3>. QED
        BY <1>0, <1>1, <1>2, <3>1 DEF Midnight, TypeOK, tables
    <2>3. (nights \subseteq 0 .. today)'
      BY <1>0, <1>2, Parameters DEF Midnight, TypeOK
    <2>. QED
      BY <1>0, <1>2, <2>1, <2>2, <2>3 DEF Midnight, IInv, tables, BulkIsRecord
  <1>3. ASSUME Nightly, Moves PROVE IInv'
    <2>1. Sessionise(DatesNeeding(today)) /\ UNCHANGED <<today, evidence, bulk, rebuilt>>
          /\ nights' = nights \cup {today}
      BY <1>3 DEF Nightly
    <2>2. acts' \in 0 .. MaxActs
      BY <1>0, <1>3 DEF Nightly, Asked, TypeOK
    <2>3. /\ sess' \in [Days -> Evidence] /\ rows' \in [Days -> SUBSET Row]
          /\ \A d \in Days : Good(rows'[d], sess'[d])
      BY <1>0, <2>1, SessioniseGood
    <2>4. BulkKnows'
      BY <1>0, <1>3, <2>1, BulkKept DEF Moves
    <2>5. TypeOK'
      BY <1>0, <1>1, <1>3, <2>1, <2>2, <2>3 DEF TypeOK
    <2>6. (nights \subseteq 0 .. today)'
      <3>1. today \in Nat /\ today \in 0 .. today
        BY <1>0, Parameters DEF TypeOK
      <3>. QED
        BY <1>0, <2>1, <3>1
    <2>. QED
      BY <1>0, <2>1, <2>3, <2>4, <2>5, <2>6 DEF IInv, BulkIsRecord
  <1>4. ASSUME NEW d \in Days, Observe(d), Moves PROVE IInv'
    <2>1. BulkKnows'
      BY <1>0, <1>4, BulkKept DEF Observe, Moves
    <2>2. evidence' \in [Days -> Evidence]
      <3>1. evidence[d] + 1 \in Evidence
        BY <1>0, <1>4, Parameters DEF Observe, TypeOK
      <3>. QED
        BY <1>0, <1>4, <3>1 DEF Observe, TypeOK
    <2>3. TypeOK'
      BY <1>0, <1>1, <1>4, <2>2 DEF Observe, TypeOK
    <2>. QED
      BY <1>0, <1>4, <2>1, <2>3 DEF Observe, IInv, BulkIsRecord
  <1>5. ASSUME NEW d \in Days, Lock(d), Moves PROVE IInv'
    <2>1. BulkKnows'
      BY <1>0, <1>5, BulkKept DEF Lock, Moves
    <2>2. rows' \in [Days -> SUBSET Row] /\ \A e \in Days : Good(rows'[e], sess[e])
      BY <1>0, <1>5, LockOne, LockGood
    <2>3. acts' \in 0 .. MaxActs
      BY <1>0, <1>5 DEF Lock, Asked, TypeOK
    <2>4. TypeOK'
      BY <1>0, <1>1, <1>5, <2>2, <2>3 DEF Lock, TypeOK
    <2>. QED
      BY <1>0, <1>5, <2>1, <2>2, <2>4 DEF Lock, IInv, BulkIsRecord
  <1>6. ASSUME NEW d \in Days, Rebuild(d), Moves PROVE IInv'
    <2>1. Sessionise({d}) /\ UNCHANGED <<today, evidence, bulk, nights>>
          /\ rebuilt' = rebuilt \cup {d}
      BY <1>6 DEF Rebuild
    <2>2. /\ sess' \in [Days -> Evidence] /\ rows' \in [Days -> SUBSET Row]
          /\ \A e \in Days : Good(rows'[e], sess'[e])
      BY <1>0, <2>1, SessioniseGood
    <2>3. BulkKnows'
      BY <1>0, <1>6, <2>1, BulkKept DEF Moves
    <2>4. acts' \in 0 .. MaxActs
      BY <1>0, <1>6 DEF Rebuild, Asked, TypeOK
    <2>5. TypeOK'
      BY <1>0, <1>1, <1>6, <2>1, <2>2, <2>4 DEF TypeOK
    <2>. QED
      BY <1>0, <2>1, <2>2, <2>3, <2>5 DEF IInv, BulkIsRecord
  <1>7. ASSUME NEW d \in Days, NEW a \in Adjustments, Adjust(d, a), Moves PROVE IInv'
    <2>1. BulkKnows'
      BY <1>0, <1>7, BulkKept DEF Adjust, Moves
    <2>2. rows' \in [Days -> SUBSET Row] /\ \A e \in Days : Good(rows'[e], sess[e])
      BY <1>0, <1>7, AdjustGood
    <2>3. acts' \in 0 .. MaxActs
      BY <1>0, <1>7 DEF Adjust, Asked, TypeOK
    <2>4. TypeOK'
      BY <1>0, <1>1, <1>7, <2>2, <2>3 DEF Adjust, TypeOK
    <2>. QED
      BY <1>0, <1>7, <2>1, <2>2, <2>4 DEF Adjust, IInv, BulkIsRecord
  <1>8. ASSUME BulkShadows, Moves PROVE IInv'
    <2>1. bulk' = [pc |-> "rows", day |-> today, covered |-> SpillCovered(today),
                   latest |-> <<>>, clean |-> {}]
      BY <1>8 DEF BulkShadows, NoBulk
    <2>2. acts' \in 0 .. MaxActs
      BY <1>0, <1>8 DEF BulkShadows, Asked, TypeOK
    <2>3. TypeOK'
      <3>1. SpillCovered(today) \subseteq Days
        BY DEF SpillCovered
      <3>2. UNCHANGED <<today, evidence, sess, rows, nights, rebuilt>>
        BY <1>8 DEF BulkShadows, tables
      <3>. QED
        BY <1>0, <1>1, <1>8, <2>1, <2>2, <3>1, <3>2 DEF TypeOK
    <2>4. \A d \in Days : d \in SpillCovered(today) <=> Shadowed(d, today)'
      BY <1>8 DEF BulkShadows, tables, SpillCovered, Shadowed
    <2>5. BulkKnows' /\ BulkIsRecord'
      <3>1. bulk'.pc = "rows" /\ bulk'.day = today /\ bulk'.covered = SpillCovered(today)
        BY <2>1
      <3>2. BulkIsRecord'
        BY <2>1 DEF BulkIsRecord
      <3>3. ASSUME NEW d \in Days PROVE d \in bulk'.covered <=> Shadowed(d, bulk.day)'
        BY <1>8, <2>4, <3>1 DEF BulkShadows, Shadowed
      <3>. QED
        BY <3>1, <3>2, <3>3 DEF BulkKnows
    <2>. QED
      BY <1>0, <1>8, <2>3, <2>5 DEF BulkShadows, IInv, tables
  <1>9. ASSUME BulkRows, Moves PROVE IInv'
    <2>1. bulk' = [pc |-> "sessions", day |-> bulk.day, covered |-> bulk.covered,
                   latest |-> LatestBefore(bulk.day), clean |-> bulk.clean]
      BY <1>0, <1>9 DEF BulkRows, BulkIsRecord
    <2>2. UNCHANGED <<today, evidence, sess, rows, acts, nights, rebuilt>> /\ bulk.pc = "rows"
      BY <1>9 DEF BulkRows, tables
    <2>3. TypeOK'
      BY <1>0, <1>1, <1>9, <2>1, <2>2 DEF TypeOK
    <2>4. moved' = moved
      BY <1>9, <2>1, <2>2 DEF Moves, Rewritten
    <2>5. DOMAIN bulk'.latest = { e \in Days : e < bulk.day /\ rows[e] # {} }
          /\ \A d \in DOMAIN bulk'.latest : bulk'.latest[d] = Latest(rows[d])
      BY <2>1 DEF LatestBefore
    <2>6. BulkKnows' /\ BulkIsRecord'
      BY <1>0, <2>1, <2>2, <2>4, <2>5 DEF BulkKnows, BulkIsRecord, Untouched, Shadowed
    <2>. QED
      BY <1>0, <2>2, <2>3, <2>6 DEF IInv
  <1>10. ASSUME BulkJudge, Moves PROVE IInv'
    <2>. DEFINE clean == Clean(bulk.latest, bulk.day, bulk.covered)
    <2>1. bulk' = [pc |-> "lock", day |-> bulk.day, covered |-> bulk.covered,
                   latest |-> bulk.latest, clean |-> clean]
      BY <1>0, <1>10 DEF BulkJudge, BulkIsRecord
    <2>2. UNCHANGED <<today, evidence, sess, rows, acts, nights, rebuilt>> /\ bulk.pc = "sessions"
      BY <1>10 DEF BulkJudge, tables
    <2>3. clean \subseteq DOMAIN bulk.latest /\ DOMAIN bulk.latest \subseteq Days
      BY <1>0, <2>2 DEF Clean, BulkKnows
    <2>. HIDE DEF clean
    <2>4. TypeOK'
      BY <1>0, <1>1, <1>10, <2>1, <2>2, <2>3 DEF TypeOK
    <2>5. moved' = moved
      BY <1>10, <2>1, <2>2 DEF Moves, Rewritten
    <2>6. ASSUME NEW d \in clean
          PROVE  /\ d < bulk.day
                 /\ d >= bulk.day - Window /\ Untouched(d) => Plausible(d, bulk.day)
      <3>1. d \in DOMAIN bulk.latest /\ d \in Days /\ d < bulk.day
        BY <1>0, <2>2, <2>3 DEF BulkKnows
      <3>2. /\ Reasons(bulk.latest[d], sess[d], d, bulk.day, bulk.covered) = {"unlocked_backlog"}
            /\ bulk.latest[d].claimed > 0
        BY DEF Clean, clean
      <3>3. ASSUME d >= bulk.day - Window, Untouched(d) PROVE Plausible(d, bulk.day)
        <4>1. /\ rows[d] # {} /\ bulk.latest[d] = Latest(rows[d])
              /\ d \in bulk.covered <=> Shadowed(d, bulk.day)
          BY <1>0, <2>2, <3>1, <3>3 DEF BulkKnows
        <4>2. bulk.day \in Days /\ bulk.covered \in SUBSET Days
          BY <1>0 DEF TypeOK
        <4>3. Contiguous(rows[d])
          BY <1>0, <3>1 DEF Good
        <4>. QED
          BY <1>0, <3>1, <3>2, <3>3, <4>1, <4>2, <4>3, CleanIsPlausible
      <3>. QED
        BY <3>1, <3>3
    <2>7. \A d : /\ Untouched(d)' <=> Untouched(d)
                 /\ \A t : Plausible(d, t)' <=> Plausible(d, t)
      BY <2>2, <2>5 DEF Untouched, Plausible
    <2>8. BulkKnows' /\ BulkIsRecord'
      BY <2>1, <2>6, <2>7 DEF BulkKnows, BulkIsRecord
    <2>. QED
      BY <1>0, <2>2, <2>4, <2>8 DEF IInv
  <1>11. ASSUME BulkLock, Moves PROVE IInv'
    <2>1. rows' \in [Days -> SUBSET Row] /\ \A d \in Days : Good(rows'[d], sess[d])
      BY <1>0, <1>11, LockGood DEF BulkLock
    <2>2. BulkKnows' /\ BulkIsRecord'
      BY <1>11 DEF BulkLock, NoBulk, BulkKnows, BulkIsRecord
    <2>3. TypeOK'
      BY <1>0, <1>1, <1>11, <2>1, Parameters DEF BulkLock, TypeOK, NoBulk
    <2>. QED
      BY <1>0, <1>11, <2>1, <2>2, <2>3 DEF BulkLock, IInv
  <1>12. CASE UNCHANGED vars
    BY <1>0, <1>12 DEF vars, IInv, TypeOK, BulkIsRecord, BulkKnows, Untouched, Shadowed, Plausible
  <1>. QED
    BY <1>2, <1>3, <1>4, <1>5, <1>6, <1>7, <1>8, <1>9, <1>10, <1>11, <1>12
       DEF Next, Step, Moves

\* Every history stays well formed and in line with its sessions on whatever day an
\* operation runs, and a running bulk lock knows the dates nobody rewrites.
THEOREM Invariance == Spec => []IInv
  BY IInvInit, IInvNext, PTL DEF Spec

-----------------------------------------------------------------------------
(***************************************************************************)
(* What follows from it.                                                   *)
(***************************************************************************)

\* A bulk lock locks no day that was not over, and of the window's days nobody
\* rewrote while it read only the plausible ones.
THEOREM BulkLocksAreJudged == Spec => BulkLocksJudged
  <1>1. ASSUME IInv, [Next]_vars, bulk.pc = "lock", bulk'.pc = "idle", NEW d \in Rewritten
        PROVE  /\ d < bulk.day
               /\ d >= bulk.day - Window /\ Untouched(d) => Plausible(d, bulk.day)
    <2>1. bulk' # bulk
      BY <1>1
    <2>2. BulkLock
      BY <1>1, <2>1 DEF Next, Step, vars, Midnight, Nightly, Observe, Lock, Rebuild, Adjust,
            BulkShadows, BulkRows, BulkJudge
    <2>3. d \in bulk.clean
      BY <2>2 DEF BulkLock, Rewritten, IInv, TypeOK
    <2>. QED
      BY <1>1, <2>3 DEF IInv, BulkKnows
  <1>2. IInv /\ [Next]_vars => [BulkStep]_vars
    BY <1>1 DEF BulkStep
  <1>. QED
    BY <1>2, Invariance, PTL DEF Spec, BulkLocksJudged

LEMMA ItemWorked ==
  ASSUME NEW l, NEW n, NEW b,
         NEW item, item = [latest |-> l, versions |-> n, worked |-> b]
  PROVE  item.worked = b
  OBVIOUS

\* The queue, the banner, the guard of the exports, the reminder, the bulk lock and
\* the calendar read the same histories in the same way.
THEOREM ViewsAlwaysAgree == Spec => []ViewsAgree
  <1>1. ASSUME IInv PROVE ViewsAgree
    <2>1. TypeOK /\ today \in Nat /\ today <= MaxDay
      BY <1>1, Parameters DEF IInv, TypeOK
    <2>. DEFINE L == LatestBefore(today)
                why(d) == Reasons(L[d], sess[d], d, today, SpillCovered(today))
                over == { d \in Days : d < today /\ rows[d] # {} }
    <2>2. DOMAIN L = over /\ \A d \in over : L[d] = Latest(rows[d])
      BY DEF LatestBefore
    <2>3. \A d \in over : "unlocked_backlog" \in why(d) <=> ~Latest(rows[d]).locked
      <3>. SUFFICES ASSUME NEW d \in over
                    PROVE  "unlocked_backlog" \in why(d) <=> ~Latest(rows[d]).locked
        OBVIOUS
      <3>1. FlagsOf[sess[d]] \subseteq SessionFlags
        BY <2>1 DEF TypeOK
      <3>2. "unlocked_backlog" \notin FlagsOf[sess[d]]
        BY <3>1 DEF SessionFlags
      <3>. QED
        BY <2>2, <3>2 DEF Reasons
    <2>4. Queue(today) = [d \in { e \in over : why(e) # {} } |-> why(d)]
      BY <2>2 DEF Queue
    <2>. HIDE DEF why, L
    <2>. DEFINE queued == { d \in DOMAIN Queue(today) : "unlocked_backlog" \in Queue(today)[d] }
    <2>5. queued = { d \in over : "unlocked_backlog" \in why(d) }
      BY <2>4
    <2>6. queued = { d \in over : ~Latest(rows[d]).locked }
      BY <2>3, <2>5
    <2>7. \A d \in Days : d \in 0 .. today - 1 <=> d < today
      BY <2>1, Parameters
    <2>8. Backlog(today) = queued
      BY <2>2, <2>6 DEF Backlog, L
    <2>9. UnlockedIn(0 .. today - 1) = queued
      BY <2>6, <2>7 DEF UnlockedIn
    <2>11. Clean(L, today, SpillCovered(today))
             = { d \in over : why(d) = {"unlocked_backlog"} /\ Latest(rows[d]).claimed > 0 }
      BY <2>2 DEF Clean, why
    <2>12. \A d \in queued : Queue(today)[d] = why(d)
      BY <2>4, <2>5
    <2>13. RemindedClean(today)
             = { d \in over : why(d) = {"unlocked_backlog"} /\ today - d >= Threshold }
      BY <2>5, <2>12 DEF RemindedClean, RemindedFlagged, Reminded
    <2>14. { d \in Clean(L, today, SpillCovered(today)) : today - d >= Threshold }
             = { d \in RemindedClean(today) : Latest(rows[d]).claimed > 0 }
      BY <2>11, <2>13
    <2>15. ASSUME NEW d \in DOMAIN ListDays(Days)
           PROVE  /\ ListDays(Days)[d].versions = ListDays(Days)[d].latest.version
                  /\ ListDays(Days)[d].worked <=> ListDays(Days)[d].latest.computed > 0
      <3>1. d \in Days /\ rows[d] # {}
        BY <2>15 DEF ListDays
      <3>2. ListDays(Days)[d] = [latest   |-> Latest(rows[d]),
                                 versions |-> Cardinality(rows[d]),
                                 worked   |-> SecondsOf[sess[d]] > 0]
        BY <3>1 DEF ListDays
      <3>3. rows[d] \in SUBSET Row /\ Contiguous(rows[d]) /\ Agrees(rows[d], sess[d])
        BY <1>1, <3>1 DEF IInv, TypeOK, Good
      <3>4. Cardinality(rows[d]) = Latest(rows[d]).version
        BY <3>1, <3>3, VersionsCount
      <3>5. Latest(rows[d]).computed = SecondsOf[sess[d]]
        BY <3>1, <3>3, LatestOfGood DEF Agrees
      <3>6. ListDays(Days)[d].worked = (SecondsOf[sess[d]] > 0)
        BY <3>2, ItemWorked
      <3>7. ListDays(Days)[d].latest = Latest(rows[d])
            /\ ListDays(Days)[d].versions = Latest(rows[d]).version
        BY <3>2, <3>4
      <3>. QED
        BY <3>5, <3>6, <3>7, Zenon
    <2>. QED
      BY <2>8, <2>9, <2>14, <2>15 DEF ViewsAgree, L
  <1>. QED
    BY <1>1, Invariance, PTL

\* A date has a summary if and only if its own night ran or a person rebuilt it.
THEOREM SummariesHaveAnOrigin == Spec => []SummaryOrigin
  <1>1. Init => SummaryOrigin
    BY DEF Init, SummaryOrigin
  <1>2. ASSUME IInv, SummaryOrigin, [Next]_vars
        PROVE  SummaryOrigin'
    <2>0. TypeOK /\ \A d \in Days : Good(rows[d], sess[d])
      BY <1>2 DEF IInv
    <2>1. ASSUME Nightly PROVE SummaryOrigin'
      <3>. DEFINE D == DatesNeeding(today)
      <3>1. /\ \A d \in Days \cap D : rows'[d] # {}
            /\ \A d \in Days \ D : rows'[d] = rows[d]
        BY <2>0, <2>1, SessioniseGood DEF Nightly
      <3>2. \A d \in D : d = today - 1 \/ rows[d] # {}
        BY DEF DatesNeeding, UnlockedIn
      <3>3. \A d \in Days : d + 1 = today => d \in D
        BY <2>0, Parameters DEF DatesNeeding, TypeOK
      <3>4. nights' = nights \cup {today} /\ rebuilt' = rebuilt
        BY <2>1 DEF Nightly
      <3>. HIDE DEF D
      <3>5. \A d \in Days : d = today - 1 <=> d + 1 = today
        BY <2>0, Parameters DEF TypeOK
      <3>. QED
        BY <1>2, <3>1, <3>2, <3>3, <3>4, <3>5 DEF SummaryOrigin
    <2>2. ASSUME NEW d \in Days, Rebuild(d) PROVE SummaryOrigin'
      <3>1. /\ rows'[d] # {}
            /\ \A e \in Days \ {d} : rows'[e] = rows[e]
        BY <2>0, <2>2, SessioniseGood DEF Rebuild
      <3>2. rebuilt' = rebuilt \cup {d} /\ nights' = nights
        BY <2>2 DEF Rebuild
      <3>. QED
        BY <1>2, <3>1, <3>2 DEF SummaryOrigin
    <2>3. ASSUME \A e \in Days : rows[e] # {} <=> rows'[e] # {},
                 UNCHANGED <<nights, rebuilt>>
          PROVE  SummaryOrigin'
      BY <1>2, <2>3 DEF SummaryOrigin
    <2>4. ASSUME NEW d \in Days, Lock(d) PROVE SummaryOrigin'
      BY <2>0, <2>3, <2>4, LockOne, LockGood DEF Lock
    <2>5. ASSUME NEW d \in Days, NEW a \in Adjustments, Adjust(d, a) PROVE SummaryOrigin'
      BY <2>0, <2>3, <2>5, AdjustGood DEF Adjust
    <2>6. ASSUME BulkLock PROVE SummaryOrigin'
      BY <2>0, <2>3, <2>6, LockGood DEF BulkLock
    <2>7. CASE UNCHANGED <<rows, nights, rebuilt>>
      BY <1>2, <2>7 DEF SummaryOrigin
    <2>. QED
      BY <1>2, <2>1, <2>2, <2>4, <2>5, <2>6, <2>7
         DEF Next, Step, vars, tables, Midnight, Observe, BulkShadows, BulkRows, BulkJudge
  <1>. QED
    BY <1>1, <1>2, Invariance, PTL DEF Spec

\* Once the job has run on complete evidence a total that the evidence does not
\* support is one that was locked, with nothing but people's corrections after it.
THEOREM FinalEvidence == Spec => []FinalEvidenceCounts
  <1>. DEFINE Frozen(d) == rows[d] # {} /\ nights \cap (d + 2 .. d + Trailing) # {}
              Right(d) == LET l == Latest(rows[d])
                          IN  l.computed # SecondsOf[evidence[d]] =>
                                FrozenAt(rows[d], l.computed)
  <1>0. FinalEvidenceCounts <=> \A d \in Days : Frozen(d) => Right(d)
    BY DEF FinalEvidenceCounts
  <1>1. Init => FinalEvidenceCounts
    BY DEF Init, FinalEvidenceCounts
  <1>2. ASSUME IInv, FinalEvidenceCounts, [Next]_vars
        PROVE  FinalEvidenceCounts'
    <2>0. TypeOK /\ nights \subseteq 0 .. today /\ \A d \in Days : Good(rows[d], sess[d])
      BY <1>2 DEF IInv
    <2>. SUFFICES ASSUME NEW d \in Days, Frozen(d)' PROVE Right(d)'
      BY DEF FinalEvidenceCounts
    <2>1. CASE UNCHANGED <<rows, evidence, nights>>
      BY <1>0, <1>2, <2>1
    <2>2. ASSUME Nightly PROVE Right(d)'
      <3>. DEFINE D == DatesNeeding(today)
      <3>1. /\ d \in D => Latest(rows'[d]).computed = SecondsOf[evidence[d]]
            /\ d \notin D => rows'[d] = rows[d]
        BY <2>0, <2>2, SessioniseGood DEF Nightly
      <3>2. evidence' = evidence /\ nights' = nights \cup {today}
        BY <2>2 DEF Nightly
      <3>3. CASE d \in D
        BY <3>1, <3>2, <3>3
      <3>4. CASE d \notin D /\ nights \cap (d + 2 .. d + Trailing) # {}
        BY <1>0, <1>2, <3>1, <3>2, <3>4
      <3>5. CASE d \notin D /\ nights \cap (d + 2 .. d + Trailing) = {}
        <4>1. today \in d + 2 .. d + Trailing /\ rows[d] # {}
          BY <3>1, <3>2, <3>5
        <4>2. d \in today - Trailing .. today - 1
          BY <2>0, <4>1, Parameters DEF TypeOK
        <4>3. Latest(rows[d]).locked
          BY <3>5, <4>1, <4>2 DEF DatesNeeding, UnlockedIn
        <4>4. Latest(rows[d]) \in rows[d] /\ IsLatest(Latest(rows[d]), rows[d])
          BY <2>0, <4>1, LatestOfGood DEF TypeOK, Good
        <4>5. \A r \in rows[d] : ~(r.version > Latest(rows[d]).version)
          BY <2>0, <4>4 DEF IsLatest, TypeOK, Row
        <4>6. FrozenAt(rows[d], Latest(rows[d]).computed)
          BY <4>3, <4>4, <4>5 DEF FrozenAt
        <4>. QED
          BY <3>1, <3>5, <4>6
      <3>. QED
        BY <3>3, <3>4, <3>5
    <2>3. ASSUME NEW e \in Days, Observe(e) PROVE Right(d)'
      <3>1. e >= today - 1 /\ rows' = rows /\ nights' = nights
        BY <2>0, <2>3, Parameters DEF Observe, TypeOK
      <3>2. d # e
        BY <2>0, <3>1, Parameters DEF TypeOK
      <3>3. evidence'[d] = evidence[d]
        BY <2>0, <2>3, <3>2 DEF Observe, TypeOK
      <3>. QED
        BY <1>0, <1>2, <3>1, <3>3
    <2>4. ASSUME NEW e \in Days, Rebuild(e) PROVE Right(d)'
      <3>1. /\ e = d => Latest(rows'[d]).computed = SecondsOf[evidence[d]]
            /\ e # d => rows'[d] = rows[d]
        BY <2>0, <2>4, SessioniseGood DEF Rebuild
      <3>2. evidence' = evidence /\ nights' = nights
        BY <2>4 DEF Rebuild
      <3>. QED
        BY <1>0, <1>2, <3>1, <3>2
    <2>5. ASSUME NEW e \in Days, NEW a \in Adjustments, Adjust(e, a) PROVE Right(d)'
      <3>1. /\ \A c : FrozenAt(rows[d], c) => FrozenAt(rows'[d], c)
            /\ rows[d] # {} /\ Latest(rows'[d]).computed = Latest(rows[d]).computed
        <4>1. CASE d = e
          BY <2>0, <2>5, <4>1, AdjustGood, CorrectionKeepsFrozen DEF Adjust
        <4>2. CASE d # e
          BY <2>0, <2>5, <4>2, AdjustGood
        <4>. QED
          BY <4>1, <4>2
      <3>2. evidence' = evidence /\ nights' = nights
        BY <2>5 DEF Adjust
      <3>. QED
        BY <1>0, <1>2, <3>1, <3>2
    <2>6. ASSUME BulkLock \/ \E e \in Days : Lock(e) PROVE Right(d)'
      <3>1. /\ rows'[d] # {} => rows[d] # {}
            /\ rows[d] # {} => Latest(rows'[d]).computed = Latest(rows[d]).computed
            /\ \A c : FrozenAt(rows[d], c) => FrozenAt(rows'[d], c)
        BY <2>0, <2>6, LockOne, LockGood DEF BulkLock
      <3>2. evidence' = evidence /\ nights' = nights
        BY <2>6 DEF BulkLock, Lock
      <3>3. Right(d)
        BY <1>0, <1>2, <3>1, <3>2
      <3>4. rows[d] # {}
        BY <3>1
      <3>. QED
        BY <3>1, <3>2, <3>3, <3>4
    <2>. QED
      BY <1>2, <2>1, <2>2, <2>3, <2>4, <2>5, <2>6
         DEF Next, Step, vars, tables, Midnight, BulkShadows, BulkRows, BulkJudge
  <1>. QED
    BY <1>1, <1>2, Invariance, PTL DEF Spec

-----------------------------------------------------------------------------
(***************************************************************************)
(* The export, whatever the days do meanwhile.                             *)
(***************************************************************************)
USE YearAssumption

\* The days live as if no export ran.
LEMMA ExportsChangeNothing == YearSpec => Spec
  <1>1. YearInit => Init
    BY DEF YearInit
  <1>2. [YearNext]_yearVars => [Next]_vars
    BY DEF YearNext, yearVars, vars, tables
  <1>. QED
    BY <1>1, <1>2, PTL DEF YearSpec, Spec

\* No step takes a row away or changes more of it than its lock.
LEMMA RowsStay ==
  ASSUME IInv, [Next]_vars, NEW d \in Days, NEW r \in rows[d]
  PROVE  Recorded(r, rows'[d])
  <1>0. TypeOK /\ \A e \in Days : Good(rows[e], sess[e])
    BY DEF IInv
  <1>1. r \in Row
    BY <1>0 DEF TypeOK
  <1>2. r \in rows'[d] => Recorded(r, rows'[d])
    BY <1>1 DEF Recorded, SameContent, Row
  <1>3. CASE UNCHANGED rows
    BY <1>2, <1>3
  <1>4. ASSUME NEW D, Sessionise(D) PROVE r \in rows'[d]
    BY <1>0, <1>4 DEF Sessionise, Resummarised
  <1>5. ASSUME NEW e \in Days, NEW a \in Adjustments, Adjust(e, a) PROVE r \in rows'[d]
    BY <1>0, <1>5, AdjustGood
  <1>6. ASSUME NEW D, rows' = [e \in Days |-> IF e \in D
                                     THEN LockVersion(rows[e], Latest(rows[e]).version)
                                     ELSE rows[e]]
        PROVE  Recorded(r, rows'[d])
    <2>1. CASE d \notin D
      BY <1>2, <1>6, <2>1
    <2>2. CASE d \in D
      <3>1. rows[d] \in SUBSET Row /\ rows[d] # {} /\ Contiguous(rows[d])
        BY <1>0 DEF TypeOK, Good
      <3>2. Latest(rows[d]).version \in Nat
        BY <3>1, LatestOfGood DEF Row
      <3>3. \E s \in LockVersion(rows[d], Latest(rows[d]).version) :
               SameContent(r, s) /\ (r.locked => s.locked)
        BY <3>1, <3>2, LockKeepsContent
      <3>. QED
        BY <1>6, <2>2, <3>3 DEF Recorded
    <2>. QED
      BY <2>1, <2>2
  <1>7. ASSUME Nightly \/ \E e \in Days : Rebuild(e) PROVE Recorded(r, rows'[d])
    BY <1>2, <1>4, <1>7 DEF Nightly, Rebuild
  <1>8. ASSUME BulkLock \/ \E e \in Days : Lock(e) PROVE Recorded(r, rows'[d])
    BY <1>0, <1>6, <1>8, LockOne DEF BulkLock
  <1>. QED
    BY <1>2, <1>3, <1>5, <1>7, <1>8
       DEF Next, Step, vars, tables, Midnight, Observe, BulkShadows, BulkRows, BulkJudge

LEMMA RecordedStays ==
  ASSUME IInv, [Next]_vars, NEW d \in Days, NEW r \in Row, Recorded(r, rows[d])
  PROVE  Recorded(r, rows'[d])
  <1>1. PICK s \in rows[d] : SameContent(r, s) /\ (r.locked => s.locked)
    BY DEF Recorded
  <1>2. PICK q \in rows'[d] : SameContent(s, q) /\ (s.locked => q.locked)
    BY <1>1, RowsStay DEF Recorded
  <1>3. s \in Row
    BY DEF IInv, TypeOK
  <1>4. SameContent(r, q)
    BY <1>1, <1>2, <1>3 DEF SameContent, Row
  <1>. QED
    BY <1>1, <1>2, <1>4 DEF Recorded

\* What was recorded is among what was once seen.
LEMMA RecordedIsSeen ==
  ASSUME NEW R \in SUBSET Row, NEW r \in Row, Recorded(r, R)
  PROVE  r \in Seen(R)
  <1>1. PICK s \in R : SameContent(r, s) /\ (r.locked => s.locked)
    BY DEF Recorded
  <1>2. s \in Row /\ r.locked \in BOOLEAN
    BY <1>1 DEF Row
  <1>3. CASE r.locked
    <2>1. r = s
      BY <1>1, <1>2, <1>3 DEF SameContent, Row
    <2>. QED
      BY <2>1 DEF Seen
  <1>4. CASE ~r.locked
    <2>1. r = [s EXCEPT !.locked = FALSE]
      BY <1>1, <1>2, <1>4 DEF SameContent, Row
    <2>. QED
      BY <2>1 DEF Seen
  <1>. QED
    BY <1>2, <1>3, <1>4

\* What a counting is, and what makes one.
LEMMA CountingType ==
  ASSUME TypeOK, NEW counted \in Countings
  PROVE  /\ DOMAIN counted \subseteq Year
         /\ counted = [d \in DOMAIN counted |-> counted[d]]
         /\ \A d \in DOMAIN counted :
              d \in Days /\ counted[d] \in Row /\ Recorded(counted[d], rows[d])
  <1>1. PICK D \in SUBSET Year : counted \in [D -> UNION { Seen(rows[d]) : d \in Year }]
    BY DEF Countings
  <1>2. \A d \in DOMAIN counted : Recorded(counted[d], rows[d])
    BY DEF Countings
  <1>3. \A d \in Year : rows[d] \in SUBSET Row
    BY DEF TypeOK
  <1>4. ASSUME NEW d \in Year, NEW r \in Seen(rows[d]) PROVE r \in Row
    <2>1. \A q \in rows[d] : q \in Row /\ [q EXCEPT !.locked = FALSE] \in Row
      BY <1>3 DEF Row
    <2>. QED
      BY <1>4, <2>1 DEF Seen
  <1>. QED
    BY <1>1, <1>2, <1>4

LEMMA CountingsStay ==
  ASSUME IInv, [Next]_vars, IInv', NEW counted \in Countings
  PROVE  counted \in Countings'
  <1>1. /\ DOMAIN counted \subseteq Year
        /\ counted = [d \in DOMAIN counted |-> counted[d]]
        /\ \A d \in DOMAIN counted :
             d \in Days /\ counted[d] \in Row /\ Recorded(counted[d], rows[d])
    BY CountingType DEF IInv
  <1>2. \A d \in DOMAIN counted : Recorded(counted[d], rows'[d])
    BY <1>1, RecordedStays
  <1>3. \A d \in DOMAIN counted : rows'[d] \in SUBSET Row
    BY <1>1 DEF IInv, TypeOK
  <1>4. \A d \in DOMAIN counted : counted[d] \in Seen(rows'[d])
    BY <1>1, <1>2, <1>3, RecordedIsSeen
  <1>5. counted \in [DOMAIN counted -> UNION { Seen(rows'[d]) : d \in Year }]
    BY <1>1, <1>4
  <1>. QED
    BY <1>1, <1>2, <1>5 DEF Countings, Recorded

\* The latest rows of the year are a counting.
LEMMA LatestCounts ==
  ASSUME IInv
  PROVE  LatestInYear \in Countings
  <1>. DEFINE L == LatestInYear
  <1>1. /\ L = [d \in DOMAIN L |-> L[d]] /\ DOMAIN L \subseteq Year
        /\ \A d \in DOMAIN L : rows[d] # {} /\ L[d] = Latest(rows[d])
    BY DEF LatestInYear
  <1>2. \A d \in DOMAIN L : /\ rows[d] \in SUBSET Row /\ Contiguous(rows[d])
                            /\ L[d] \in rows[d] /\ L[d] \in Row
    BY <1>1, LatestOfGood DEF IInv, TypeOK, Good
  <1>. HIDE DEF L
  <1>3. \A d \in DOMAIN L : Recorded(L[d], rows[d])
    BY <1>2 DEF Recorded, SameContent, Row
  <1>4. \A d \in DOMAIN L : L[d] \in Seen(rows[d])
    BY <1>2 DEF Seen
  <1>5. L \in [DOMAIN L -> UNION { Seen(rows[d]) : d \in Year }]
    BY <1>1, <1>4
  <1>6. L \in Countings
    BY <1>1, <1>3, <1>5 DEF Countings
  <1>. QED
    BY <1>6 DEF L

\* Stored sessions never come from more than the observations there are.
LEMMA EvidenceCovers ==
  ASSUME IInv, [Next]_vars, \A d \in Days : sess[d] <= evidence[d]
  PROVE  \A d \in Days : sess'[d] <= evidence'[d]
  <1>0. TypeOK /\ \A d \in Days : evidence[d] \in Int /\ sess[d] \in Int
    <2>1. \A e \in Evidence : e \in Int
      BY DEF Evidence
    <2>. QED
      BY <2>1 DEF IInv, TypeOK
  <1>1. ASSUME NEW D, Sessionise(D), evidence' = evidence
        PROVE  \A d \in Days : sess'[d] <= evidence'[d]
    BY <1>0, <1>1 DEF Sessionise
  <1>2. ASSUME NEW d \in Days, Observe(d)
        PROVE  \A e \in Days : sess'[e] <= evidence'[e]
    BY <1>0, <1>2 DEF Observe, TypeOK
  <1>3. CASE UNCHANGED <<sess, evidence>>
    BY <1>3
  <1>4. ASSUME Nightly \/ \E e \in Days : Rebuild(e)
        PROVE  \A d \in Days : sess'[d] <= evidence'[d]
    BY <1>1, <1>4 DEF Nightly, Rebuild
  <1>. QED
    BY <1>2, <1>3, <1>4
       DEF Next, Step, vars, tables, Midnight, Lock, Adjust, BulkShadows, BulkRows,
           BulkJudge, BulkLock

-----------------------------------------------------------------------------
(***************************************************************************)
(* The inductive invariant.                                                *)
(***************************************************************************)

\* A step of people and jobs during an export takes nothing from what it has read.
LEMMA ReadsStandDays ==
  ASSUME IInv, YearIInv, Next, IInv',
         touched' = IF export.pc = "idle" THEN {} ELSE touched \cup Rewritten,
         export' = export
  PROVE  YearIInv'
  <1>0. YearTypeOK /\ Year \subseteq Days
    BY DEF YearIInv
  <1>1. YearTypeOK'
    BY <1>0 DEF YearTypeOK, Rewritten, IInv
  <1>2. (\A d \in Days : sess[d] <= evidence[d])'
    BY EvidenceCovers DEF YearIInv
  <1>3. CASE export.pc = "idle"
    BY <1>1, <1>2, <1>3 DEF YearIInv, TotalTraced, Past, Done
  <1>4. CASE export.pc # "idle"
    <2>1. touched' = touched \cup Rewritten
      BY <1>4
    <2>2. \A d \in Year \ touched' : d \notin touched /\ rows'[d] = rows[d] /\ sess'[d] = sess[d]
      BY <1>0, <2>1 DEF Rewritten
    <2>3. export.strict =>
            \A d \in Year \ touched' : rows'[d] # {} => Latest(rows'[d]).locked
      BY <1>4, <2>2 DEF YearIInv, Past
    <2>5. ASSUME Past({"total", "observations", "sessions", "versions", "done"})
          PROVE  /\ \A d \in DOMAIN export.summary :
                      /\ Recorded(export.summary[d], rows'[d])
                      /\ d \notin touched' =>
                           rows'[d] # {} /\ export.summary[d] = Latest(rows'[d])
                 /\ \A d \in Year \ touched' : rows'[d] # {} => d \in DOMAIN export.summary
      <3>1. \A d \in DOMAIN export.summary :
               /\ d \in Year /\ d \in Days /\ export.summary[d] \in Row
               /\ Recorded(export.summary[d], rows[d])
               /\ d \notin touched => rows[d] # {} /\ export.summary[d] = Latest(rows[d])
        BY <1>0, <2>5 DEF YearIInv, YearTypeOK
      <3>2. \A d \in DOMAIN export.summary : Recorded(export.summary[d], rows'[d])
        BY <3>1, RecordedStays
      <3>3. \A d \in DOMAIN export.summary : d \notin touched' =>
               rows'[d] # {} /\ export.summary[d] = Latest(rows'[d])
        BY <2>2, <3>1
      <3>4. \A d \in Year \ touched' : rows'[d] # {} => d \in DOMAIN export.summary
        BY <2>2, <2>5 DEF YearIInv
      <3>. QED
        BY <3>2, <3>3, <3>4
    <2>6. TotalTraced'
      <3>. SUFFICES ASSUME Past({"observations", "sessions", "versions"}) \/ Done({"xlsx", "bundle"})
                    PROVE  \E counted \in Countings' : Traced(counted)' /\ export.total = Totals(counted)
        BY DEF TotalTraced, Past, Done
      <3>1. PICK counted \in Countings : Traced(counted) /\ export.total = Totals(counted)
        BY DEF YearIInv, TotalTraced
      <3>2. counted \in Countings'
        BY CountingsStay
      <3>3. Traced(counted)'
        BY <2>1, <3>1 DEF Traced, Done, Recorded
      <3>. QED
        BY <3>1, <3>2, <3>3
    <2>7. Past({"sessions", "versions"}) \/ Done({"bundle"}) =>
            \A d \in Year \ touched' : sess'[d] <= export.observations[d]
      BY <2>2 DEF YearIInv
    <2>8. Past({"versions"}) \/ Done({"bundle"}) =>
            \A d \in Year \ touched' : export.sessions[d] = sess'[d]
      BY <2>2 DEF YearIInv
    <2>9. Done({"bundle"}) =>
            /\ \A d \in DOMAIN export.summary : Recorded(export.summary[d], export.versions[d])
            /\ \A d \in Year \ touched' : export.versions[d] = rows'[d]
      BY <2>2 DEF YearIInv
    <2>11. /\ \A S : Past(S)' <=> Past(S)
           /\ \A S : Done(S)' <=> Done(S)
           /\ \A r, R : Recorded(r, R)' <=> Recorded(r, R)
      BY DEF Past, Done, Recorded
    <2>. QED
      BY <1>1, <1>2, <1>4, <2>3, <2>5, <2>6, <2>7, <2>8, <2>9, <2>11 DEF YearIInv
  <1>. QED
    BY <1>3, <1>4

\* Each read is true of the database when it is made.
LEMMA ReadsStandExport ==
  ASSUME IInv, YearIInv, ExportStep, UNCHANGED <<vars, touched>>
  PROVE  YearIInv'
  <1>0. /\ YearTypeOK /\ Year \subseteq Days
        /\ UNCHANGED <<today, evidence, sess, rows, bulk, acts, nights, rebuilt, moved, touched>>
        /\ TypeOK /\ \A d \in Days : Contiguous(rows[d])
    BY DEF YearIInv, vars, IInv, Good
  <1>1. /\ LatestInYear' = LatestInYear
        /\ Countings' = Countings
        /\ TypeOK'
        /\ \A r, R : Recorded(r, R)' <=> Recorded(r, R)
    BY <1>0 DEF LatestInYear, TypeOK, Recorded, Countings
  <1>2. (\A d \in Days : sess[d] <= evidence[d])'
    BY <1>0 DEF YearIInv
  <1>. DEFINE Is(pc, kind, strict, summary, total, observations, sessions, versions) ==
                export' = [pc |-> pc, kind |-> kind, strict |-> strict, summary |-> summary,
                           total |-> total, observations |-> observations,
                           sessions |-> sessions, versions |-> versions]
  <1>3. ASSUME NEW kind \in Kinds, NEW strict \in BOOLEAN, Begin(kind, strict)
        PROVE  YearIInv'
    <2>1. Is("summary", kind, strict, <<>>, <<>>, <<>>, <<>>, <<>>)
      BY <1>3 DEF Begin, NoExport
    <2>2. YearTypeOK'
      BY <1>0, <1>1, <2>1 DEF YearTypeOK
    <2>3. strict => \A d \in Year : rows[d] # {} => Latest(rows[d]).locked
      BY <1>0, <1>3 DEF Begin, Guard, UnlockedIn
    <2>4. TotalTraced'
      BY <2>1 DEF TotalTraced, Past, Done
    <2>. QED
      BY <1>0, <1>2, <2>1, <2>2, <2>3, <2>4 DEF YearIInv, Past, Done
  <1>4. ASSUME ReadSummary PROVE YearIInv'
    <2>1. Is(IF export.kind = "csv" THEN "done" ELSE "total", export.kind, export.strict,
             LatestInYear, export.total, export.observations, export.sessions, export.versions)
          /\ export.pc = "summary"
      BY <1>4 DEF ReadSummary, YearIInv
    <2>2. ASSUME NEW d \in DOMAIN LatestInYear
          PROVE  /\ d \in Year /\ rows[d] # {} /\ LatestInYear[d] = Latest(rows[d])
                 /\ LatestInYear[d] \in Row /\ Recorded(LatestInYear[d], rows[d])
      <3>1. d \in Year /\ rows[d] # {} /\ LatestInYear[d] = Latest(rows[d])
        BY DEF LatestInYear
      <3>2. Latest(rows[d]) \in rows[d] /\ Latest(rows[d]) \in Row
        BY <1>0, <3>1, LatestOfGood DEF TypeOK
      <3>3. SameContent(Latest(rows[d]), Latest(rows[d]))
        BY <3>2 DEF SameContent, Row
      <3>. QED
        BY <3>1, <3>2, <3>3 DEF Recorded
    <2>3. YearTypeOK'
      BY <1>0, <1>1, <2>1, <2>2 DEF YearTypeOK
    <2>4. TotalTraced'
      BY <2>1 DEF TotalTraced, Past, Done
    <2>5. DOMAIN LatestInYear = { d \in Year : rows[d] # {} }
      BY DEF LatestInYear
    <2>. QED
      BY <1>0, <1>1, <1>2, <2>1, <2>2, <2>3, <2>4, <2>5 DEF YearIInv, Past, Done
  <1>5. ASSUME ReadTotal PROVE YearIInv'
    <2>1. Is(IF export.kind = "xlsx" THEN "done" ELSE "observations", export.kind, export.strict,
             export.summary, Totals(LatestInYear), export.observations, export.sessions,
             export.versions)
          /\ export.pc = "total" /\ export.kind \in Kinds /\ export.kind # "csv"
      BY <1>0, <1>5 DEF ReadTotal, YearIInv, YearTypeOK, Past
    <2>2. YearTypeOK'
      BY <1>0, <1>1, <2>1 DEF YearTypeOK
    <2>3. ASSUME NEW d \in DOMAIN export.summary
          PROVE  /\ d \in Year /\ d \in DOMAIN LatestInYear
                 /\ LatestInYear[d].version >= export.summary[d].version
      <3>1. d \in Year /\ export.summary[d] \in Row /\ Recorded(export.summary[d], rows[d])
        BY <1>0, <2>1, <2>3 DEF YearIInv, YearTypeOK, Past
      <3>2. PICK s \in rows[d] : SameContent(export.summary[d], s)
        BY <3>1 DEF Recorded
      <3>3. rows[d] \in SUBSET Row /\ Contiguous(rows[d])
        BY <1>0, <3>1 DEF TypeOK
      <3>4. /\ Latest(rows[d]) \in Row
            /\ s.version <= Latest(rows[d]).version
        BY <3>2, <3>3, LatestOfGood DEF IsLatest
      <3>5. d \in DOMAIN LatestInYear /\ LatestInYear[d] = Latest(rows[d])
        BY <3>1, <3>2 DEF LatestInYear
      <3>6. s.version = export.summary[d].version /\ s.version \in Nat
        BY <3>1, <3>2, <3>3, SameFields DEF Row
      <3>. QED
        BY <3>1, <3>4, <3>5, <3>6 DEF Row
    <2>4. ASSUME NEW d \in DOMAIN LatestInYear, d \notin touched
          PROVE  d \in DOMAIN export.summary /\ LatestInYear[d] = export.summary[d]
      <3>1. d \in Year /\ rows[d] # {} /\ LatestInYear[d] = Latest(rows[d])
        BY DEF LatestInYear
      <3>. QED
        BY <2>1, <2>4, <3>1 DEF YearIInv, Past
    <2>5. Traced(LatestInYear)'
      <3>1. ~Done({"bundle"})'
        BY <2>1 DEF Done
      <3>2. export'.summary = export.summary
        BY <2>1
      <3>. QED
        BY <1>0, <1>1, <2>3, <2>4, <3>1, <3>2 DEF Traced
    <2>6. LatestInYear \in Countings
      BY LatestCounts
    <2>7. export'.total = Totals(LatestInYear)
      BY <2>1
    <2>8. TotalTraced'
      <3>. SUFFICES \E counted \in Countings' : Traced(counted)' /\ export'.total = Totals(counted)
        BY DEF TotalTraced
      <3>. DEFINE L == LatestInYear
      <3>1. L \in Countings' /\ Traced(L)' /\ export'.total = Totals(L)
        BY <1>1, <2>5, <2>6, <2>7
      <3>. QED
        BY <1>1, <2>5, <2>6, <2>7
    <2>. QED
      BY <1>0, <1>1, <1>2, <2>1, <2>2, <2>8 DEF YearIInv, Past, Done, Kinds
  <1>6. ASSUME ReadObservations PROVE YearIInv'
    <2>1. Is("sessions", export.kind, export.strict, export.summary, export.total,
             [d \in Year |-> evidence[d]], export.sessions, export.versions)
          /\ export.pc = "observations"
      BY <1>6 DEF ReadObservations, YearIInv
    <2>2. YearTypeOK'
      BY <1>0, <1>1, <2>1 DEF YearTypeOK
    <2>3. TotalTraced'
      BY <1>0, <1>1, <2>1 DEF YearIInv, TotalTraced, Traced, Past, Done
    <2>. QED
      BY <1>0, <1>1, <1>2, <2>1, <2>2, <2>3 DEF YearIInv, Past, Done
  <1>7. ASSUME ReadSessions PROVE YearIInv'
    <2>1. Is("versions", export.kind, export.strict, export.summary, export.total,
             export.observations, [d \in Year |-> sess[d]], export.versions)
          /\ export.pc = "sessions"
      BY <1>7 DEF ReadSessions, YearIInv
    <2>2. YearTypeOK'
      BY <1>0, <1>1, <2>1 DEF YearTypeOK
    <2>3. TotalTraced'
      BY <1>0, <1>1, <2>1 DEF YearIInv, TotalTraced, Traced, Past, Done
    <2>. QED
      BY <1>0, <1>1, <1>2, <2>1, <2>2, <2>3 DEF YearIInv, Past, Done
  <1>8. ASSUME ReadVersions PROVE YearIInv'
    <2>1. Is("done", export.kind, export.strict, export.summary, export.total,
             export.observations, export.sessions, [d \in Year |-> rows[d]])
          /\ export.pc = "versions"
      BY <1>8 DEF ReadVersions, YearIInv
    <2>2. YearTypeOK'
      BY <1>0, <1>1, <2>1 DEF YearTypeOK
    <2>3. DOMAIN export.summary \subseteq Year
      BY <1>0 DEF YearTypeOK
    <2>4. TotalTraced'
      <3>1. PICK counted \in Countings : Traced(counted) /\ export.total = Totals(counted)
        BY <2>1 DEF YearIInv, TotalTraced, Past
      <3>2. \A d \in DOMAIN counted : d \in Year /\ Recorded(counted[d], rows[d])
        BY <1>0, CountingType
      <3>3. Traced(counted)'
        BY <1>0, <2>1, <3>1, <3>2 DEF Traced, Recorded
      <3>. QED
        BY <1>1, <2>1, <3>1, <3>3 DEF TotalTraced
    <2>. QED
      BY <1>0, <1>1, <1>2, <2>1, <2>2, <2>3, <2>4 DEF YearIInv, Past, Done
  <1>. QED
    BY <1>3, <1>4, <1>5, <1>6, <1>7, <1>8 DEF ExportStep

THEOREM YearInvariance == YearSpec => []YearIInv
  <1>1. YearInit => YearIInv
    <2>1. YearInit => \A d \in Days : sess[d] <= evidence[d]
      BY DEF YearInit, Init
    <2>2. YearInit => TypeOK
      BY IInvInit DEF YearInit, IInv
    <2>. QED
      BY <2>1, <2>2 DEF YearInit, YearIInv, TotalTraced, YearTypeOK, NoExport, Kinds, Past, Done
  <1>2. IInv /\ IInv' /\ YearIInv /\ [YearNext]_yearVars => YearIInv'
    <2>. SUFFICES ASSUME IInv, IInv', YearIInv, [YearNext]_yearVars PROVE YearIInv'
      OBVIOUS
    <2>1. CASE UNCHANGED yearVars
      <3>1. UNCHANGED <<today, evidence, sess, rows, bulk, acts, nights, rebuilt, moved,
                        touched, export>>
        BY <2>1 DEF yearVars, vars
      <3>2. TotalTraced'
        <4>1. Countings' = Countings
          BY <3>1 DEF Countings, Recorded
        <4>2. \A counted : Traced(counted)' <=> Traced(counted)
          BY <3>1 DEF Traced, Recorded, Done
        <4>. QED
          BY <3>1, <4>1, <4>2 DEF YearIInv, TotalTraced, Past, Done
      <3>. QED
        BY <3>1, <3>2 DEF YearIInv, YearTypeOK, TypeOK, Past, Done, Recorded
    <2>2. ASSUME Next, touched' = IF export.pc = "idle" THEN {} ELSE touched \cup Rewritten,
                 UNCHANGED export
          PROVE  YearIInv'
      BY <2>2, ReadsStandDays
    <2>3. ASSUME ExportStep, UNCHANGED <<vars, touched>> PROVE YearIInv'
      BY <2>3, ReadsStandExport
    <2>. QED
      BY <2>1, <2>2, <2>3 DEF YearNext
  <1>. QED
    BY <1>1, <1>2, ExportsChangeNothing, Invariance, PTL DEF YearSpec

-----------------------------------------------------------------------------
(***************************************************************************)
(* What follows from it.                                                   *)
(***************************************************************************)

\* The audit trail of a bundle has every row of its Summary sheet, whatever was
\* written between the two reads.
THEOREM TrailCovers == YearSpec => []AuditTrailCovers
  <1>1. YearIInv => AuditTrailCovers
    BY DEF YearIInv, AuditTrailCovers
  <1>. QED
    BY <1>1, YearInvariance, PTL

\* The parts of an export agree on every date nobody rewrote while it ran.
THEOREM UntouchedAgree == YearSpec => []UntouchedDaysAgree
  <1>1. ASSUME IInv, YearIInv, NEW d \in DOMAIN export.summary \ touched
        PROVE  LET row == export.summary[d]
               IN  /\ export.pc = "done" /\ export.strict => row.locked
                   /\ Done({"bundle"}) =>
                        /\ IsLatest(row, export.versions[d])
                        /\ row.computed = SecondsOf[export.sessions[d]]
                        /\ export.sessions[d] <= export.observations[d]
    <2>1. d \in Year /\ d \in Days
      BY <1>1 DEF YearIInv, YearTypeOK
    <2>2. ASSUME export.pc = "done"
          PROVE  rows[d] # {} /\ export.summary[d] = Latest(rows[d])
      BY <1>1, <2>2 DEF YearIInv, Past
    <2>3. export.pc = "done" /\ export.strict => export.summary[d].locked
      BY <1>1, <2>1, <2>2 DEF YearIInv, Past
    <2>4. ASSUME Done({"bundle"})
          PROVE  /\ IsLatest(export.summary[d], export.versions[d])
                 /\ export.summary[d].computed = SecondsOf[export.sessions[d]]
                 /\ export.sessions[d] <= export.observations[d]
      <3>1. export.pc = "done"
        BY <2>4 DEF Done
      <3>2. export.versions[d] = rows[d] /\ export.sessions[d] = sess[d]
            /\ sess[d] <= export.observations[d]
        BY <1>1, <2>1, <2>4 DEF YearIInv
      <3>3. rows[d] \in SUBSET Row /\ Contiguous(rows[d]) /\ Agrees(rows[d], sess[d])
        BY <1>1, <2>1 DEF IInv, TypeOK, Good
      <3>4. Latest(rows[d]) \in rows[d] /\ IsLatest(Latest(rows[d]), rows[d])
        BY <2>2, <3>1, <3>3, LatestOfGood
      <3>. QED
        BY <2>2, <3>1, <3>2, <3>3, <3>4 DEF Agrees
    <2>. QED
      BY <2>3, <2>4
  <1>2. IInv /\ YearIInv => UntouchedDaysAgree
    BY <1>1 DEF UntouchedDaysAgree
  <1>. QED
    BY <1>2, YearInvariance, ExportsChangeNothing, Invariance, PTL

\* The totals of a workbook trace to its Summary sheet and to the audit trail, and
\* agree with the review queue and, but for what was rewritten, with the guard.
THEOREM TotalsAreTraced == YearSpec => []TotalsCountVersions
  <1>1. ASSUME IInv, YearIInv, Done({"xlsx", "bundle"})
        PROVE  TotalsCountVersions
    <2>0. TypeOK /\ Year \subseteq Days
      BY <1>1 DEF IInv
    <2>1. PICK counted \in Countings : Traced(counted) /\ export.total = Totals(counted)
      BY <1>1 DEF YearIInv, TotalTraced
    <2>2. \A d \in DOMAIN counted : d \in Year /\ d \in Days /\ counted[d] \in Row
      BY <2>0, CountingType
    <2>3. ASSUME NEW d \in DOMAIN counted
          PROVE  counted[d].claimed > Cap
                   <=> "anomalous" \in Reasons(counted[d], sess[d], d, d, {})
      <3>1. d \in Days /\ d \in Int /\ ~(d < d - Window)
        BY <2>2, Parameters
      <3>2. FlagsOf[sess[d]] \subseteq SessionFlags
        BY <2>0, <3>1 DEF TypeOK
      <3>3. "anomalous" \notin FlagsOf[sess[d]]
        BY <3>2 DEF SessionFlags
      <3>. QED
        BY <3>1, <3>3 DEF Reasons
    <2>4. { d \in DOMAIN counted : counted[d].claimed > Cap }
            = { d \in DOMAIN counted :
                  "anomalous" \in Reasons(counted[d], sess[d], d, d, {}) }
      BY <2>3
    <2>. DEFINE unlocked == { d \in DOMAIN counted : ~counted[d].locked }
    <2>5. /\ export.total.claimed = Claims(counted)
          /\ export.total.locked = Cardinality({ d \in DOMAIN counted : counted[d].locked })
          /\ export.total.unlocked = Cardinality(unlocked)
          /\ export.total.anomalous =
               Cardinality({ d \in DOMAIN counted : counted[d].claimed > Cap })
      BY <2>1 DEF Totals
    <2>6. ASSUME export.strict PROVE Cardinality(unlocked) <= Cardinality(Year \cap touched)
      <3>1. ASSUME NEW d \in DOMAIN counted, d \notin touched PROVE counted[d].locked
        <4>1. d \in DOMAIN export.summary /\ counted[d] = export.summary[d]
          BY <2>1, <3>1 DEF Traced
        <4>2. rows[d] # {} /\ export.summary[d] = Latest(rows[d])
          BY <1>1, <3>1, <4>1 DEF YearIInv, Past, Done
        <4>3. Latest(rows[d]).locked
          BY <1>1, <2>2, <2>6, <3>1, <4>2 DEF YearIInv, Past, Done
        <4>. QED
          BY <4>1, <4>2, <4>3
      <3>2. unlocked \subseteq Year \cap touched
        BY <2>2, <3>1
      <3>3. IsFiniteSet(Year \cap touched)
        <4>1. IsFiniteSet(0 .. MaxDay)
          BY Parameters, FS_Interval
        <4>. QED
          BY <2>0, <4>1, FS_Subset DEF Days
      <3>. QED
        BY <3>2, <3>3, FS_Subset
    <2>. QED
      BY <2>1, <2>4, <2>5, <2>6 DEF TotalsCountVersions
  <1>2. IInv /\ YearIInv => TotalsCountVersions
    BY <1>1 DEF TotalsCountVersions
  <1>. QED
    BY <1>2, YearInvariance, ExportsChangeNothing, Invariance, PTL

=============================================================================
