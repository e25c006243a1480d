-------------------------- MODULE DayLedgerProofs ---------------------------
(***************************************************************************)
(* Theorems about DayLedger, for every set of dates and sessions, every    *)
(* evidence and every bound.                                               *)
(***************************************************************************)
EXTENDS DayLedger, HistoryProofs

USE EvidenceAssumption, LedgerAssumption

-----------------------------------------------------------------------------
(***************************************************************************)
(* Lemmas about one history.                                               *)
(***************************************************************************)

\* The UNIQUE constraint makes a stale read harmless: if the next version is
\* free, the row read is still the latest.
LEMMA FreeSuccessorIsLatest ==
  ASSUME NEW R \in SUBSET Row, Contiguous(R), NEW r \in R,
         ~VersionTaken(R, r.version + 1)
  PROVE  IsLatest(r, R)
  <1>1. PICK n \in {0} \cup {s.version : s \in R} :
           /\ \A s \in R : s.version <= n
           /\ \A k \in 1 .. n : \E s \in R : s.version = k
    BY DEF Contiguous
  <1>2. \A s \in R : s.version \in Nat \ {0}
    BY DEF Row
  <1>3. n \in Nat
    BY <1>1, <1>2
  <1>4. ~(r.version < n)
    BY <1>1, <1>2, <1>3 DEF VersionTaken
  <1>5. \A s \in R : s.version <= r.version
    BY <1>1, <1>2, <1>3, <1>4
  <1>. QED
    BY <1>5 DEF IsLatest

-----------------------------------------------------------------------------
(***************************************************************************)
(* Type correctness.                                                       *)
(***************************************************************************)

LEMMA CorrectedType ==
  ASSUME NEW q \in [version : Nat, computed : Nat], NEW a \in Int
  PROVE  Corrected(q, a) \in Row
  <1>1. q.version + 1 \in Nat \ {0} /\ q.computed \in Nat
    OBVIOUS
  <1>2. NewRow(q.version + 1, q.computed, a, "human") \in Row
    BY <1>1, NewRowType
  <1>. QED
    BY <1>2 DEF Corrected

\* Ending an operation and rolling back keep the types.
LEMMA ForgetType ==
  ASSUME TypeOK, NEW w \in Workers, Forget(w)
  PROVE  /\ job' \in [Workers -> Jobs \cup {"none"}]
         /\ todo' \in [Workers -> SUBSET Dates]
         /\ pc' \in [Workers -> {"idle", "read", "write"}]
         /\ seen' \in [Workers -> [version : Nat, computed : Nat]]
         /\ loaded' \in [Workers -> Evidence]
  <1>1. NoRead \in [version : Nat, computed : Nat] /\ 0 \in Evidence
    BY DEF NoRead, Evidence
  <1>. QED
    BY <1>1 DEF TypeOK, Forget

LEMMA RollbackType ==
  ASSUME TypeOK, NEW w \in Workers, Rollback(w)
  PROVE  /\ rows' \in [Dates -> SUBSET Row]
         /\ sess' \in [Dates -> Evidence]
         /\ evidence' \in [Dates -> Evidence]
         /\ writer' \in Workers \cup {NoWorker}
         /\ dirty' \in [rows : [Dates -> SUBSET Row], sess : [Dates -> Evidence]]
  BY DEF TypeOK, Rollback, tables

\* An operation that fails ends and rolls back.
LEMMA FailType ==
  ASSUME TypeOK, NEW w \in Workers, Rollback(w), Forget(w)
  PROVE  TypeOK'
  BY ForgetType, RollbackType DEF TypeOK

LEMMA FlushType ==
  ASSUME TypeOK, NEW w \in Workers, NEW d \in Dates,
         NEW R \in [Dates -> SUBSET Row], NEW S \in [Dates -> Evidence],
         Flush(w, d, R, S)
  PROVE  TypeOK'
  <1>1. NoRead \in [version : Nat, computed : Nat] /\ 0 \in Evidence
    BY DEF NoRead, Evidence
  <1>. QED
    BY <1>1 DEF TypeOK, Flush, tables

\* The row an adjust or a lock reads is remembered with its types.
LEMMA ReadType ==
  ASSUME TypeOK, NEW w \in Workers, NEW d \in Dates, NEW r \in View(w)[d]
  PROVE  /\ r \in Row
         /\ Read(r) \in [version : Nat, computed : Nat]
  <1>1. r \in Row
    BY DEF TypeOK, View
  <1>. QED
    BY <1>1 DEF Read, Row

LEMMA TypeInit == Init => TypeOK
  BY DEF Init, TypeOK, NoRead, Evidence

LEMMA TypeStep == TypeOK /\ [Next]_vars => TypeOK'
  <1>. SUFFICES ASSUME TypeOK, [Next]_vars PROVE TypeOK'
    OBVIOUS
  <1>1. ASSUME NEW w \in Workers, NEW q \in Requests, Submit(w, q) PROVE TypeOK'
    <2>1. q.job \in Jobs /\ q.dates \in SUBSET Dates
      OBVIOUS
    <2>. QED
      BY <1>1, <2>1 DEF TypeOK, Submit, tables
  <1>2. ASSUME NEW w \in Workers, NEW d \in Dates, AdjustRead(w, d) PROVE TypeOK'
    <2>1. CASE View(w)[d] = {}
      BY <1>2, <2>1, FailType DEF AdjustRead
    <2>2. CASE View(w)[d] # {}
      <3>1. PICK r \in View(w)[d] : seen' = [seen EXCEPT ![w] = Read(r)]
        BY <1>2, <2>2 DEF AdjustRead
      <3>2. Read(r) \in [version : Nat, computed : Nat]
        BY ReadType
      <3>. QED
        BY <1>2, <2>2, <3>1, <3>2 DEF AdjustRead, TypeOK, tables
    <2>. QED
      BY <2>1, <2>2
  <1>3. ASSUME NEW w \in Workers, NEW d \in Dates, AdjustInsert(w, d) PROVE TypeOK'
    <2>1. PICK a \in Adjustments :
            Flush(w, d, [dirty.rows EXCEPT ![d] = @ \cup {Corrected(seen[w], a)}], dirty.sess)
      BY <1>3 DEF AdjustInsert
    <2>2. Corrected(seen[w], a) \in Row
      BY CorrectedType DEF TypeOK
    <2>3. [dirty.rows EXCEPT ![d] = @ \cup {Corrected(seen[w], a)}] \in [Dates -> SUBSET Row]
      BY <2>2 DEF TypeOK
    <2>4. dirty.sess \in [Dates -> Evidence]
      BY DEF TypeOK
    <2>. QED
      BY <2>1, <2>3, <2>4, FlushType
  <1>4. ASSUME NEW w \in Workers, NEW d \in Dates, AdjustConflict(w, d) PROVE TypeOK'
    BY <1>4, FailType DEF AdjustConflict
  <1>5. ASSUME NEW w \in Workers, NEW d \in Dates, LockRead(w, d) PROVE TypeOK'
    <2>1. CASE Rollback(w) /\ Forget(w)
      BY <2>1, FailType
    <2>2. ASSUME NEW r \in View(w)[d],
                 IF r.locked
                   THEN /\ todo' = [todo EXCEPT ![w] = @ \ {d}]
                        /\ UNCHANGED <<seen, pc>>
                   ELSE /\ seen' = [seen EXCEPT ![w] = Read(r)]
                        /\ pc' = [pc EXCEPT ![w] = "write"]
                        /\ UNCHANGED todo,
                 UNCHANGED <<tables, writer, dirty, job, loaded>>
          PROVE  TypeOK'
      <3>1. Read(r) \in [version : Nat, computed : Nat]
        BY ReadType
      <3>2. CASE r.locked
        <4>1. todo' = [todo EXCEPT ![w] = @ \ {d}] /\ UNCHANGED <<seen, pc>>
          BY <2>2, <3>2
        <4>2. todo' \in [Workers -> SUBSET Dates]
          BY <4>1 DEF TypeOK
        <4>. QED
          BY <2>2, <4>1, <4>2 DEF TypeOK, tables
      <3>3. CASE ~r.locked
        <4>1. /\ seen' = [seen EXCEPT ![w] = Read(r)]
              /\ pc' = [pc EXCEPT ![w] = "write"]
              /\ UNCHANGED todo
          BY <2>2, <3>3
        <4>2. /\ seen' \in [Workers -> [version : Nat, computed : Nat]]
              /\ pc' \in [Workers -> {"idle", "read", "write"}]
          BY <3>1, <4>1 DEF TypeOK
        <4>. QED
          BY <2>2, <4>1, <4>2 DEF TypeOK, tables
      <3>. QED
        BY <3>2, <3>3
    <2>. QED
      BY <1>5, <2>1, <2>2 DEF LockRead
  <1>6. ASSUME NEW w \in Workers, NEW d \in Dates, LockUpdate(w, d) PROVE TypeOK'
    <2>1. LockVersion(dirty.rows[d], seen[w].version) \in SUBSET Row
      BY LockKeepsContent DEF TypeOK
    <2>2. [dirty.rows EXCEPT ![d] = LockVersion(@, seen[w].version)] \in [Dates -> SUBSET Row]
      BY <2>1 DEF TypeOK
    <2>3. dirty.sess \in [Dates -> Evidence]
      BY DEF TypeOK
    <2>. QED
      BY <1>6, <2>2, <2>3, FlushType DEF LockUpdate
  <1>7. ASSUME NEW w \in Workers, NEW d \in Dates, LoadObservations(w, d) PROVE TypeOK'
    BY <1>7 DEF LoadObservations, TypeOK, tables
  <1>8. ASSUME NEW w \in Workers, NEW d \in Dates, ReplaceSessions(w, d) PROVE TypeOK'
    <2>1. loaded[w] \in Evidence /\ SecondsOf[loaded[w]] \in Nat
      BY DEF TypeOK
    <2>2. Resummarised(dirty.rows[d], SecondsOf[loaded[w]]) \in SUBSET Row
      BY <2>1, ResummarisedType DEF TypeOK
    <2>3. [dirty.rows EXCEPT ![d] = Resummarised(@, SecondsOf[loaded[w]])]
            \in [Dates -> SUBSET Row]
      BY <2>2 DEF TypeOK
    <2>4. [dirty.sess EXCEPT ![d] = loaded[w]] \in [Dates -> Evidence]
      BY <2>1 DEF TypeOK
    <2>. QED
      BY <1>8, <2>3, <2>4, FlushType DEF ReplaceSessions
  <1>9. ASSUME NEW w \in Workers, Commit(w) PROVE TypeOK'
    BY <1>9, ForgetType DEF TypeOK, Commit
  <1>10. ASSUME NEW w \in Workers, BusyTimeout(w) \/ Abort(w) PROVE TypeOK'
    BY <1>10, FailType DEF BusyTimeout, Abort
  <1>11. ASSUME NEW d \in Dates, NewObservations(d) PROVE TypeOK'
    <2>1. evidence[d] + 1 \in Evidence
      BY <1>11 DEF NewObservations, TypeOK, Evidence
    <2>. QED
      BY <1>11, <2>1 DEF NewObservations, TypeOK, locals
  <1>12. CASE UNCHANGED vars
    BY <1>12 DEF TypeOK, vars
  <1>. QED
    BY <1>1, <1>2, <1>3, <1>4, <1>5, <1>6, <1>7, <1>8, <1>9, <1>10, <1>11, <1>12
       DEF Next, Step

\* Every variable keeps its type.
THEOREM TypeCorrect == Spec => []TypeOK
  BY TypeInit, TypeStep, PTL DEF Spec

-----------------------------------------------------------------------------
(***************************************************************************)
(* The inductive invariant.                                                *)
(***************************************************************************)

\* What an operation makes of a good history is a good history in which every
\* row is still there, at most locked, and every new row is unlocked.
LEMMA WorkedKeeps ==
  ASSUME NEW R \in SUBSET Row, NEW S \in Evidence, Good(R, S),
         NEW R2 \in SUBSET Row, NEW S2 \in Evidence,
         NEW j, Worked(j, R, S, R2, S2)
  PROVE  /\ Good(R2, S2)
         /\ \A r \in R : \E s \in R2 : SameContent(r, s) /\ (r.locked => s.locked)
         /\ \A s \in R2 : (\E r \in R : SameContent(r, s)) \/ ~s.locked
  <1>0. \A r \in R : SameContent(r, r)
    BY DEF SameContent, Row
  <1>1. CASE R2 = R /\ S2 = S
    BY <1>0, <1>1
  <1>2. ASSUME S2 = S, NEW r \in R, NEW a \in Adjustments, IsLatest(r, R),
               R2 = R \cup {Corrected(r, a)}
        PROVE  /\ Good(R2, S2)
               /\ \A x \in R : x \in R2
               /\ \A x \in R2 : x \in R \/ ~x.locked
    <2>1. a \in Int
      OBVIOUS
    <2>2. Good(R2, S2)
      BY <1>2, <2>1, GoodCorrected
    <2>3. ~Corrected(r, a).locked
      BY DEF Corrected, NewRow
    <2>. QED
      BY <1>2, <2>2, <2>3
  <1>3. ASSUME S2 = S, NEW r \in R, R2 = LockVersion(R, r.version)
        PROVE  /\ Good(R2, S2)
               /\ \A x \in R : \E s \in R2 : SameContent(x, s) /\ (x.locked => s.locked)
               /\ \A s \in R2 : \E x \in R : SameContent(x, s)
    <2>1. r.version \in Nat
      BY DEF Row
    <2>. QED
      BY <1>3, <2>1, LockKeepsContent, GoodLock
  <1>4. ASSUME R2 = Resummarised(R, SecondsOf[S2])
        PROVE  /\ Good(R2, S2)
               /\ \A x \in R : x \in R2
               /\ \A x \in R2 : x \in R \/ ~x.locked
    <2>1. Good(R2, S2)
      BY <1>4, GoodResummarised
    <2>. QED
      BY <1>4, <2>1 DEF Resummarised, NewRow
  <1>. QED
    BY <1>0, <1>1, <1>2, <1>3, <1>4 DEF Worked

\* Until its operation writes it, a date in the image is as committed.
LEMMA UntouchedDate ==
  ASSUME IInv, NEW w \in Workers, MayWrite(w), NEW d \in todo[w]
  PROVE  dirty.rows[d] = rows[d] /\ dirty.sess[d] = sess[d]
  <1>1. d \in Dates
    BY DEF IInv, TypeOK
  <1>. QED
    BY <1>1 DEF IInv, ImageOK, MayWrite

\* So a read of it sees the committed rows, lock or no lock.
LEMMA ViewIsCommitted ==
  ASSUME IInv, NEW w \in Workers, NEW d \in todo[w]
  PROVE  View(w)[d] = rows[d]
  BY UntouchedDate DEF View, MayWrite

\* A failed operation leaves a good state.
LEMMA FailKeeps ==
  ASSUME IInv, NEW w \in Workers, Rollback(w), Forget(w)
  PROVE  IInv'
  <1>1. TypeOK /\ TypeOK'
    BY FailType DEF IInv
  <1>2. /\ pc' = [pc EXCEPT ![w] = "idle"] /\ job' = [job EXCEPT ![w] = "none"]
        /\ todo' = [todo EXCEPT ![w] = {}] /\ seen' = [seen EXCEPT ![w] = NoRead]
        /\ UNCHANGED <<rows, sess, evidence>>
    BY DEF Rollback, Forget, tables
  <1>3. \/ writer = w /\ writer' = NoWorker /\ dirty' = [rows |-> rows, sess |-> sess]
        \/ writer # w /\ writer' = writer /\ dirty' = dirty
    BY DEF Rollback
  <1>4. JobsOK'
    BY <1>1, <1>2, <1>3 DEF IInv, TypeOK, JobsOK
  <1>5. LockHeld'
    BY <1>1, <1>2, <1>3 DEF IInv, TypeOK, LockHeld
  <1>6. ImageOK'
    <2>1. CASE writer = w
      BY <1>2, <1>3, <2>1 DEF ImageOK
    <2>2. CASE writer # w
      <3>1. writer \in Workers => todo'[writer] = todo[writer] /\ job'[writer] = job[writer]
        BY <1>1, <1>2, <2>2 DEF TypeOK
      <3>. QED
        BY <1>2, <1>3, <2>2, <3>1 DEF IInv, ImageOK
    <2>. QED
      BY <2>1, <2>2
  <1>7. SeenIsReal'
    BY <1>1, <1>2 DEF IInv, TypeOK, SeenIsReal, NextDate
  <1>8. \A d \in Dates : Good(rows'[d], sess'[d])
    BY <1>2 DEF IInv
  <1>. QED
    BY <1>1, <1>4, <1>5, <1>6, <1>7, <1>8 DEF IInv

\* A write that works on one date of the operation leaves a good state.
LEMMA FlushKeeps ==
  ASSUME IInv, TypeOK', NEW w \in Workers, NEW d \in todo[w],
         MayWrite(w), pc[w] = "write",
         NEW R, NEW S,
         Flush(w, d, [dirty.rows EXCEPT ![d] = R], S),
         \A e \in Dates : e # d => S[e] = dirty.sess[e],
         Worked(job[w], rows[d], sess[d], R, S[d])
  PROVE  IInv'
  <1>1. d \in Dates /\ TypeOK
    BY DEF IInv, TypeOK
  <1>2. /\ writer' = w
        /\ dirty' = [rows |-> [dirty.rows EXCEPT ![d] = R], sess |-> S]
        /\ todo' = [todo EXCEPT ![w] = @ \ {d}] /\ pc' = [pc EXCEPT ![w] = "read"]
        /\ seen' = [seen EXCEPT ![w] = NoRead]
        /\ UNCHANGED <<rows, sess, evidence, job>>
    BY DEF Flush, tables
  <1>3. /\ dirty'.rows[d] = R /\ dirty'.sess[d] = S[d]
        /\ \A e \in Dates : e # d => /\ dirty'.rows[e] = dirty.rows[e]
                                     /\ dirty'.sess[e] = dirty.sess[e]
    BY <1>1, <1>2 DEF TypeOK
  <1>4. /\ todo'[w] = todo[w] \ {d} /\ pc'[w] = "read"
        /\ \A v \in Workers : v # w => todo'[v] = todo[v] /\ pc'[v] = pc[v] /\ seen'[v] = seen[v]
    BY <1>1, <1>2 DEF TypeOK
  <1>5. /\ job[w] \in Jobs
        /\ job[w] = "adjust" => writer = NoWorker /\ todo'[w] = {}
    BY <1>1, <1>4 DEF IInv, JobsOK, MayWrite
  <1>6. JobsOK'
    BY <1>2, <1>4, <1>5 DEF IInv, JobsOK
  <1>7. LockHeld'
    BY <1>2, <1>4 DEF LockHeld
  <1>8. ImageOK'
    <2>1. \A e \in todo'[w] : dirty'.rows[e] = rows[e] /\ dirty'.sess[e] = sess[e]
      BY <1>1, <1>3, <1>4, UntouchedDate DEF TypeOK
    <2>2. \A e \in Dates : Worked(job[w], rows[e], sess[e], dirty'.rows[e], dirty'.sess[e])
      <3>. SUFFICES ASSUME NEW e \in Dates, e # d
                    PROVE  Worked(job[w], rows[e], sess[e], dirty'.rows[e], dirty'.sess[e])
        BY <1>3
      <3>1. CASE writer = w
        BY <1>3, <3>1 DEF IInv, ImageOK
      <3>2. CASE writer = NoWorker
        BY <1>3, <3>2 DEF IInv, ImageOK, Worked
      <3>. QED
        BY <3>1, <3>2 DEF MayWrite
    <2>3. job[w] = "adjust" =>
            \A e \in Dates : e # d => dirty'.rows[e] = rows[e]
      BY <1>3, <1>5 DEF IInv, ImageOK
    <2>. QED
      BY <1>2, <2>1, <2>2, <2>3 DEF ImageOK
  <1>9. SeenIsReal'
    BY <1>2, <1>4 DEF IInv, SeenIsReal, NextDate
  <1>10. \A e \in Dates : Good(rows'[e], sess'[e])
    BY <1>2 DEF IInv
  <1>. QED
    BY <1>6, <1>7, <1>8, <1>9, <1>10 DEF IInv

\* A read that changes only what the operation itself remembers leaves a good
\* state.
LEMMA ReadKeeps ==
  ASSUME IInv, TypeOK', NEW w \in Workers, NEW d \in Dates,
         pc[w] # "idle", pc'[w] # "idle",
         UNCHANGED <<tables, writer, dirty, job>>,
         todo'[w] \subseteq todo[w],
         \A v \in Workers : v # w => todo'[v] = todo[v] /\ pc'[v] = pc[v] /\ seen'[v] = seen[v],
         pc'[w] = "write" /\ job[w] \in {"adjust", "lock"} =>
            \A e \in Dates : NextDate(w, e)' => \E r \in rows[e] : Read(r) = seen'[w]
  PROVE  IInv'
  <1>1. UNCHANGED <<rows, sess, writer, dirty, job>>
    BY DEF tables
  <1>2. JobsOK'
    <2>. SUFFICES ASSUME NEW v \in Workers, pc'[v] # "idle"
                  PROVE  /\ job[v] \in Jobs
                         /\ job[v] = "adjust" => \E e \in Dates : todo'[v] \subseteq {e}
                         /\ job[v] = "adjust" /\ writer = v => todo'[v] = {}
      BY <1>1 DEF JobsOK
    <2>1. pc[v] # "idle" /\ todo'[v] \subseteq todo[v]
      OBVIOUS
    <2>. QED
      BY <2>1 DEF IInv, JobsOK
  <1>3. LockHeld'
    BY <1>1 DEF IInv, LockHeld
  <1>4. ImageOK'
    <2>1. writer \in Workers => todo'[writer] \subseteq todo[writer]
      OBVIOUS
    <2>. QED
      BY <1>1, <2>1 DEF IInv, ImageOK
  <1>5. SeenIsReal'
    <2>. SUFFICES ASSUME NEW v \in Workers, NEW e \in Dates,
                         pc'[v] = "write", job[v] \in {"adjust", "lock"}, NextDate(v, e)'
                  PROVE  \E r \in rows[e] : Read(r) = seen'[v]
      BY <1>1 DEF SeenIsReal
    <2>1. CASE v = w
      BY <2>1
    <2>2. CASE v # w
      BY <2>2 DEF IInv, SeenIsReal, NextDate
    <2>. QED
      BY <2>1, <2>2
  <1>. QED
    BY <1>1, <1>2, <1>3, <1>4, <1>5 DEF IInv

\* A commit makes the image what everyone sees.
LEMMA CommitKeeps ==
  ASSUME IInv, TypeOK', NEW w \in Workers, Commit(w)
  PROVE  IInv'
  <1>1. TypeOK
    BY DEF IInv
  <1>2. /\ pc' = [pc EXCEPT ![w] = "idle"] /\ job' = [job EXCEPT ![w] = "none"]
        /\ todo' = [todo EXCEPT ![w] = {}] /\ seen' = [seen EXCEPT ![w] = NoRead]
        /\ dirty' = dirty
    BY DEF Commit, Forget
  <1>3. \A v \in Workers : v # w => /\ pc'[v] = pc[v] /\ job'[v] = job[v]
                                    /\ todo'[v] = todo[v] /\ seen'[v] = seen[v]
    BY <1>1, <1>2 DEF TypeOK
  <1>4. pc'[w] = "idle"
    BY <1>1, <1>2 DEF TypeOK
  <1>5. CASE writer # w
    <2>1. UNCHANGED <<rows, sess, writer>>
      BY <1>5 DEF Commit
    <2>2. JobsOK' /\ LockHeld'
      BY <1>3, <1>4, <1>5, <2>1 DEF IInv, JobsOK, LockHeld
    <2>3. ImageOK'
      BY <1>2, <1>3, <1>5, <2>1 DEF IInv, ImageOK
    <2>4. SeenIsReal'
      <3>. SUFFICES ASSUME NEW v \in Workers, NEW d \in Dates,
                           pc'[v] = "write", job'[v] \in {"adjust", "lock"}, NextDate(v, d)'
                    PROVE  \E r \in rows[d] : Read(r) = seen'[v]
        BY <2>1 DEF SeenIsReal
      <3>1. v # w
        BY <1>4
      <3>. QED
        <4>1. pc[v] = "write" /\ job[v] \in {"adjust", "lock"} /\ NextDate(v, d)
          BY <1>3, <3>1 DEF NextDate
        <4>2. \E r \in rows[d] : Read(r) = seen[v]
          BY <4>1 DEF IInv, SeenIsReal
        <4>. QED
          BY <1>3, <3>1, <4>2
    <2>. QED
      BY <2>1, <2>2, <2>3, <2>4 DEF IInv
  <1>6. CASE writer = w
    <2>1. rows' = dirty.rows /\ sess' = dirty.sess /\ writer' = NoWorker
      BY <1>6 DEF Commit
    <2>2. JobsOK' /\ LockHeld'
      BY <1>3, <1>4, <1>6, <2>1 DEF IInv, JobsOK, LockHeld
    <2>3. ImageOK'
      BY <1>1, <1>2, <2>1 DEF ImageOK, TypeOK
    <2>4. ASSUME NEW d \in Dates
          PROVE  /\ Good(rows'[d], sess'[d])
                 /\ \A r \in rows[d] : \E s \in rows'[d] : Read(s) = Read(r)
      <3>1. /\ rows[d] \in SUBSET Row /\ rows'[d] \in SUBSET Row
            /\ sess[d] \in Evidence /\ sess'[d] \in Evidence
        BY <1>1 DEF TypeOK
      <3>2. Worked(job[w], rows[d], sess[d], rows'[d], sess'[d])
        BY <1>6, <2>1 DEF IInv, ImageOK
      <3>3. Good(rows[d], sess[d])
        BY DEF IInv
      <3>4. /\ Good(rows'[d], sess'[d])
            /\ \A r \in rows[d] : \E s \in rows'[d] : SameContent(r, s)
        BY <3>1, <3>2, <3>3, WorkedKeeps
      <3>. QED
        BY <3>1, <3>4, SameFields DEF Read
    <2>5. SeenIsReal'
      <3>. SUFFICES ASSUME NEW v \in Workers, NEW d \in Dates,
                           pc'[v] = "write", job'[v] \in {"adjust", "lock"}, NextDate(v, d)'
                    PROVE  \E r \in rows'[d] : Read(r) = seen'[v]
        BY DEF SeenIsReal
      <3>1. v # w
        BY <1>4
      <3>2. \E r \in rows[d] : Read(r) = seen[v]
        BY <1>3, <3>1 DEF IInv, SeenIsReal, NextDate
      <3>. QED
        BY <1>3, <2>4, <3>1, <3>2
    <2>. QED
      BY <2>2, <2>3, <2>4, <2>5 DEF IInv
  <1>. QED
    BY <1>5, <1>6

\* An operation handles one date at a time.
LEMMA NextDateUnique ==
  ASSUME NEW w, NEW d \in Dates, NEW e \in Dates, NextDate(w, d), NextDate(w, e)
  PROVE  d = e
  <1>1. d \in Int /\ e \in Int /\ d <= e /\ e <= d
    BY DEF NextDate
  <1>. QED
    BY <1>1

LEMMA IInvInit == Init => IInv
  <1>. SUFFICES ASSUME Init PROVE IInv
    OBVIOUS
  <1>1. TypeOK
    BY TypeInit
  <1>2. JobsOK /\ SeenIsReal
    BY DEF Init, JobsOK, SeenIsReal
  <1>3. LockHeld /\ ImageOK
    BY DEF Init, LockHeld, ImageOK
  <1>4. Good({}, 0)
    BY DEF Good, Contiguous, Linked, Agrees, Sticks
  <1>. QED
    BY <1>1, <1>2, <1>3, <1>4 DEF Init, IInv

\* No step of any session leaves the invariant.
LEMMA IInvStep == IInv /\ [Next]_vars => IInv'
  <1>. SUFFICES ASSUME IInv, [Next]_vars PROVE IInv'
    OBVIOUS
  <1>0. TypeOK /\ TypeOK'
    BY TypeStep DEF IInv
  <1>1. ASSUME NEW w \in Workers, NEW q \in Requests, Submit(w, q) PROVE IInv'
    <2>1. /\ job' = [job EXCEPT ![w] = q.job] /\ todo' = [todo EXCEPT ![w] = q.dates]
          /\ pc' = [pc EXCEPT ![w] = "read"]
          /\ UNCHANGED <<rows, sess, writer, dirty, seen>>
      BY <1>1 DEF Submit, tables
    <2>2. writer # w
      BY <1>1 DEF Submit, IInv, LockHeld
    <2>3. q.job \in Jobs /\ (q.job = "adjust" => \E d \in Dates : q.dates = {d})
      OBVIOUS
    <2>4. JobsOK'
      BY <1>0, <2>1, <2>2, <2>3 DEF IInv, TypeOK, JobsOK
    <2>5. LockHeld'
      BY <1>0, <2>1 DEF IInv, TypeOK, LockHeld
    <2>6. ImageOK'
      <3>1. writer \in Workers => todo'[writer] = todo[writer] /\ job'[writer] = job[writer]
        BY <1>0, <2>1, <2>2 DEF TypeOK
      <3>. QED
        BY <2>1, <3>1 DEF IInv, ImageOK
    <2>7. SeenIsReal'
      <3>1. pc'[w] = "read"
        BY <1>0, <2>1 DEF TypeOK
      <3>2. \A v \in Workers : v # w => pc'[v] = pc[v] /\ job'[v] = job[v] /\ todo'[v] = todo[v]
        BY <1>0, <2>1 DEF TypeOK
      <3>3. SUFFICES ASSUME NEW v \in Workers, NEW d \in Dates, v # w,
                            pc[v] = "write", job[v] \in {"adjust", "lock"}, NextDate(v, d)
                     PROVE  \E r \in rows[d] : Read(r) = seen[v]
        BY <2>1, <3>1, <3>2 DEF SeenIsReal, NextDate
      <3>. QED
        BY <3>3 DEF IInv, SeenIsReal
    <2>. QED
      BY <1>0, <2>1, <2>4, <2>5, <2>6, <2>7 DEF IInv
  <1>2. ASSUME NEW w \in Workers, NEW d \in Dates, AdjustRead(w, d) PROVE IInv'
    <2>1. CASE View(w)[d] = {}
      BY <1>2, <2>1, FailKeeps DEF AdjustRead
    <2>2. CASE View(w)[d] # {}
      <3>1. PICK r \in View(w)[d] : seen' = [seen EXCEPT ![w] = Read(r)]
        BY <1>2, <2>2 DEF AdjustRead
      <3>2. d \in todo[w] /\ pc[w] = "read" /\ pc' = [pc EXCEPT ![w] = "write"]
        BY <1>2, <2>2 DEF AdjustRead, NextDate
      <3>3. UNCHANGED <<tables, writer, dirty, job, todo>>
        BY <1>2, <2>2 DEF AdjustRead
      <3>4. r \in rows[d]
        BY <3>2, ViewIsCommitted
      <3>5. \A e \in Dates : NextDate(w, e)' => e = d
        <4>1. NextDate(w, d) /\ todo' = todo
          BY <1>2, <3>3 DEF AdjustRead
        <4>. QED
          BY <4>1, NextDateUnique DEF NextDate
      <3>. QED
        BY <1>0, <3>1, <3>2, <3>3, <3>4, <3>5, ReadKeeps DEF TypeOK
    <2>. QED
      BY <2>1, <2>2
  <1>3. ASSUME NEW w \in Workers, NEW d \in Dates, AdjustInsert(w, d) PROVE IInv'
    <2>. DEFINE R(a) == dirty.rows[d] \cup {Corrected(seen[w], a)}
    <2>1. PICK a \in Adjustments :
            Flush(w, d, [dirty.rows EXCEPT ![d] = R(a)], dirty.sess)
      BY <1>3 DEF AdjustInsert
    <2>2. d \in todo[w] /\ MayWrite(w) /\ pc[w] = "write" /\ job[w] = "adjust"
      BY <1>3 DEF AdjustInsert, NextDate
    <2>3. dirty.rows[d] = rows[d] /\ dirty.sess[d] = sess[d]
      BY <2>2, UntouchedDate
    <2>4. PICK r \in rows[d] : Read(r) = seen[w]
      BY <1>3 DEF AdjustInsert, IInv, SeenIsReal
    <2>5. r.version = seen[w].version /\ r.computed = seen[w].computed
      BY <2>4 DEF Read
    <2>6. IsLatest(r, rows[d])
      <3>1. ~VersionTaken(rows[d], r.version + 1)
        BY <1>3, <2>3, <2>5 DEF AdjustInsert
      <3>2. rows[d] \in SUBSET Row /\ Contiguous(rows[d])
        BY <1>0 DEF TypeOK, IInv, Good
      <3>. QED
        BY <3>1, <3>2, FreeSuccessorIsLatest
    <2>7. R(a) = rows[d] \cup {Corrected(r, a)}
      BY <2>3, <2>5 DEF Corrected
    <2>8. Worked(job[w], rows[d], sess[d], R(a), dirty.sess[d])
      BY <2>2, <2>3, <2>6, <2>7 DEF Worked
    <2>. HIDE DEF R
    <2>. QED
      BY <1>0, <2>1, <2>2, <2>8, FlushKeeps
  <1>4. ASSUME NEW w \in Workers, NEW d \in Dates, AdjustConflict(w, d) PROVE IInv'
    BY <1>4, FailKeeps DEF AdjustConflict
  <1>5. ASSUME NEW w \in Workers, NEW d \in Dates, LockRead(w, d) PROVE IInv'
    <2>1. CASE Rollback(w) /\ Forget(w)
      BY <2>1, FailKeeps
    <2>2. ASSUME NEW r \in View(w)[d],
                 IF r.locked
                   THEN /\ todo' = [todo EXCEPT ![w] = @ \ {d}]
                        /\ UNCHANGED <<seen, pc>>
                   ELSE /\ seen' = [seen EXCEPT ![w] = Read(r)]
                        /\ pc' = [pc EXCEPT ![w] = "write"]
                        /\ UNCHANGED todo,
                 UNCHANGED <<tables, writer, dirty, job, loaded>>
          PROVE  IInv'
      <3>1. d \in todo[w] /\ pc[w] = "read" /\ \A e \in todo[w] : d <= e
        BY <1>5 DEF LockRead, NextDate
      <3>2. r \in rows[d]
        BY <3>1, ViewIsCommitted
      <3>3. CASE r.locked
        <4>1. todo' = [todo EXCEPT ![w] = @ \ {d}] /\ UNCHANGED <<seen, pc>>
          BY <2>2, <3>3
        <4>2. /\ todo'[w] \subseteq todo[w] /\ pc'[w] = "read"
              /\ \A v \in Workers : v # w => todo'[v] = todo[v] /\ pc'[v] = pc[v] /\ seen'[v] = seen[v]
          BY <1>0, <3>1, <4>1 DEF TypeOK
        <4>. QED
          BY <1>0, <2>2, <3>1, <4>2, ReadKeeps
      <3>4. CASE ~r.locked
        <4>1. /\ seen' = [seen EXCEPT ![w] = Read(r)]
              /\ pc' = [pc EXCEPT ![w] = "write"]
              /\ UNCHANGED todo
          BY <2>2, <3>4
        <4>2. /\ todo'[w] \subseteq todo[w] /\ pc'[w] = "write" /\ seen'[w] = Read(r)
              /\ \A v \in Workers : v # w => todo'[v] = todo[v] /\ pc'[v] = pc[v] /\ seen'[v] = seen[v]
          BY <1>0, <4>1 DEF TypeOK
        <4>3. \A e \in Dates : NextDate(w, e)' => e = d
          BY <1>5, <4>1, NextDateUnique DEF NextDate, LockRead
        <4>. QED
          BY <1>0, <2>2, <3>1, <3>2, <4>2, <4>3, ReadKeeps
      <3>. QED
        BY <3>3, <3>4
    <2>. QED
      BY <1>5, <2>1, <2>2 DEF LockRead
  <1>6. ASSUME NEW w \in Workers, NEW d \in Dates, LockUpdate(w, d) PROVE IInv'
    <2>. DEFINE R == LockVersion(dirty.rows[d], seen[w].version)
    <2>1. Flush(w, d, [dirty.rows EXCEPT ![d] = R], dirty.sess)
      BY <1>6 DEF LockUpdate
    <2>2. d \in todo[w] /\ MayWrite(w) /\ pc[w] = "write" /\ job[w] = "lock"
      BY <1>6 DEF LockUpdate, NextDate
    <2>3. dirty.rows[d] = rows[d] /\ dirty.sess[d] = sess[d]
      BY <2>2, UntouchedDate
    <2>4. PICK r \in rows[d] : Read(r) = seen[w]
      BY <1>6 DEF LockUpdate, IInv, SeenIsReal
    <2>5. r.version = seen[w].version
      BY <2>4 DEF Read
    <2>6. Worked(job[w], rows[d], sess[d], R, dirty.sess[d])
      BY <2>2, <2>3, <2>5 DEF Worked
    <2>. HIDE DEF R
    <2>. QED
      BY <1>0, <2>1, <2>2, <2>6, FlushKeeps
  <1>7. ASSUME NEW w \in Workers, NEW d \in Dates, LoadObservations(w, d) PROVE IInv'
    <2>1. /\ pc[w] = "read" /\ job[w] = "sessionise"
          /\ pc' = [pc EXCEPT ![w] = "write"]
          /\ UNCHANGED <<tables, writer, dirty, job, todo, seen>>
      BY <1>7 DEF LoadObservations
    <2>2. /\ pc'[w] = "write" /\ todo'[w] = todo[w]
          /\ \A v \in Workers : v # w => todo'[v] = todo[v] /\ pc'[v] = pc[v] /\ seen'[v] = seen[v]
      BY <1>0, <2>1 DEF TypeOK
    <2>. QED
      BY <1>0, <2>1, <2>2, ReadKeeps
  <1>8. ASSUME NEW w \in Workers, NEW d \in Dates, ReplaceSessions(w, d) PROVE IInv'
    <2>. DEFINE R == Resummarised(dirty.rows[d], SecondsOf[loaded[w]])
                S == [dirty.sess EXCEPT ![d] = loaded[w]]
    <2>1. Flush(w, d, [dirty.rows EXCEPT ![d] = R], S)
      BY <1>8 DEF ReplaceSessions
    <2>2. d \in todo[w] /\ MayWrite(w) /\ pc[w] = "write" /\ job[w] = "sessionise"
      BY <1>8 DEF ReplaceSessions, NextDate
    <2>3. dirty.rows[d] = rows[d]
      BY <2>2, UntouchedDate
    <2>4. S[d] = loaded[w] /\ \A e \in Dates : e # d => S[e] = dirty.sess[e]
      BY <1>0 DEF TypeOK
    <2>5. Worked(job[w], rows[d], sess[d], R, S[d])
      BY <2>2, <2>3, <2>4 DEF Worked
    <2>6. /\ MayWrite(w) /\ pc[w] = "write"
          /\ \A e \in Dates : e # d => S[e] = dirty.sess[e]
      BY <2>2, <2>4
    <2>. HIDE DEF R, S
    <2>7. d \in todo[w]
      BY <2>2
    <2>. QED
      BY <1>0, <2>1, <2>5, <2>6, <2>7, FlushKeeps, SMTT(30)
  <1>9. ASSUME NEW w \in Workers, Commit(w) PROVE IInv'
    BY <1>0, <1>9, CommitKeeps
  <1>10. ASSUME NEW w \in Workers, BusyTimeout(w) \/ Abort(w) PROVE IInv'
    BY <1>10, FailKeeps DEF BusyTimeout, Abort
  <1>11. ASSUME NEW d \in Dates, NewObservations(d) PROVE IInv'
    <2>1. UNCHANGED <<rows, sess, writer, dirty, job, todo, pc, seen>>
      BY <1>11 DEF NewObservations, locals
    <2>. QED
      BY <1>0, <2>1 DEF IInv, JobsOK, LockHeld, ImageOK, SeenIsReal, NextDate
  <1>12. CASE UNCHANGED vars
    BY <1>0, <1>12 DEF vars, IInv, JobsOK, LockHeld, ImageOK, SeenIsReal, NextDate
  <1>. QED
    BY <1>1, <1>2, <1>3, <1>4, <1>5, <1>6, <1>7, <1>8, <1>9, <1>10, <1>11, <1>12
       DEF Next, Step

\* The invariant holds of every reachable state.
THEOREM Invariance == Spec => []IInv
  BY IInvInit, IInvStep, PTL DEF Spec

\* Every committed history is versions 1 .. n, each row following from the last.
THEOREM WellFormed == Spec => []HistoriesWellFormed
  <1>1. IInv => HistoriesWellFormed
    BY DEF IInv, Good, HistoriesWellFormed
  <1>. QED
    BY <1>1, Invariance, PTL

\* The latest version of a day says what the stored sessions add up to.
THEOREM LatestMatchesSessions == Spec => []SessionsMatchLatest
  <1>1. IInv => SessionsMatchLatest
    BY DEF IInv, Good, SessionsMatchLatest
  <1>. QED
    BY <1>1, Invariance, PTL

\* No run of the sessioniser loses a human's correction.
THEOREM CorrectionsAreKept == Spec => []CorrectionsStick
  <1>1. IInv => CorrectionsStick
    BY DEF IInv, Good, CorrectionsStick
  <1>. QED
    BY <1>1, Invariance, PTL

-----------------------------------------------------------------------------
(***************************************************************************)
(* What a step may never do, and the atomic day service.                   *)
(***************************************************************************)

\* Readers see a change only when the holder of the lock commits its image.
LEMMA OnlyCommitsShow ==
  ASSUME [Next]_vars
  PROVE  \/ UNCHANGED <<rows, sess>>
         \/ writer \in Workers /\ rows' = dirty.rows /\ sess' = dirty.sess
  <1>1. \A w \in Workers : Commit(w) =>
           \/ UNCHANGED <<rows, sess>>
           \/ writer = w /\ rows' = dirty.rows /\ sess' = dirty.sess
    BY DEF Commit
  <1>2. \A w \in Workers : \A q \in Requests : Submit(w, q) => UNCHANGED <<rows, sess>>
    BY DEF Submit, tables
  <1>3. \A w \in Workers : Rollback(w) => UNCHANGED <<rows, sess>>
    BY DEF Rollback, tables
  <1>4. \A w \in Workers : BusyTimeout(w) \/ Abort(w) => UNCHANGED <<rows, sess>>
    BY <1>3 DEF BusyTimeout, Abort
  <1>5. ASSUME NEW w \in Workers, NEW d \in Dates
        PROVE  /\ AdjustRead(w, d) => UNCHANGED <<rows, sess>>
               /\ AdjustInsert(w, d) => UNCHANGED <<rows, sess>>
               /\ AdjustConflict(w, d) => UNCHANGED <<rows, sess>>
    BY <1>3 DEF AdjustRead, AdjustInsert, AdjustConflict, Flush, tables
  <1>6. ASSUME NEW w \in Workers, NEW d \in Dates
        PROVE  /\ LockRead(w, d) => UNCHANGED <<rows, sess>>
               /\ LockUpdate(w, d) => UNCHANGED <<rows, sess>>
               /\ LoadObservations(w, d) => UNCHANGED <<rows, sess>>
               /\ ReplaceSessions(w, d) => UNCHANGED <<rows, sess>>
    BY <1>3 DEF LockRead, LockUpdate, LoadObservations, ReplaceSessions, Flush, tables
  <1>7. \A d \in Dates : NewObservations(d) => UNCHANGED <<rows, sess>>
    BY DEF NewObservations
  <1>. QED
    BY <1>1, <1>2, <1>4, <1>5, <1>6, <1>7 DEF Next, Step, vars

\* Rows are never deleted or rewritten, only locked, and appear unlocked.
THEOREM AppendOnly == Spec => AppendOnlyHistory
  <1>1. IInv /\ IInv' /\ [Next]_vars => [AppendOnlyStep]_vars
    <2>. SUFFICES ASSUME IInv, IInv', [Next]_vars PROVE AppendOnlyStep
      OBVIOUS
    <2>1. \A d \in Dates : \A r \in rows[d] : SameContent(r, r)
      BY DEF IInv, TypeOK, SameContent, Row
    <2>2. CASE UNCHANGED <<rows, sess>>
      BY <2>1, <2>2 DEF AppendOnlyStep
    <2>3. CASE writer \in Workers /\ rows' = dirty.rows /\ sess' = dirty.sess
      <3>. SUFFICES ASSUME NEW d \in Dates
                    PROVE  /\ \A r \in rows[d] : \E s \in rows'[d] :
                                 SameContent(r, s) /\ (r.locked => s.locked)
                           /\ \A s \in rows'[d] :
                                 (\E r \in rows[d] : SameContent(r, s)) \/ ~s.locked
        BY DEF AppendOnlyStep
      <3>1. Worked(job[writer], rows[d], sess[d], rows'[d], sess'[d])
        BY <2>3 DEF IInv, ImageOK
      <3>2. /\ rows[d] \in SUBSET Row /\ rows'[d] \in SUBSET Row
            /\ sess[d] \in Evidence /\ sess'[d] \in Evidence
            /\ Good(rows[d], sess[d])
        BY DEF IInv, TypeOK
      <3>. QED
        BY <3>1, <3>2, WorkedKeeps
    <2>. QED
      BY <2>2, <2>3, OnlyCommitsShow
  <1>. QED
    BY <1>1, Invariance, PTL DEF Spec, AppendOnlyHistory

\* The definitions the atomic service is made of are those of the ledger.
LEMMA AtomicNewRow ==
  ASSUME NEW v, NEW c, NEW a, NEW b
  PROVE  Atomic!NewRow(v, c, a, b) = NewRow(v, c, a, b)
  BY DEF Atomic!NewRow, NewRow, Atomic!ClaimOf, ClaimOf

LEMMA AtomicTypes == Atomic!Row = Row /\ Atomic!Evidence = Evidence
  BY DEF Atomic!Row, Row, Atomic!Evidence, Evidence

LEMMA AtomicRowOps ==
  ASSUME NEW R, NEW r, NEW a, NEW v
  PROVE  /\ Atomic!IsLatest(r, R) <=> IsLatest(r, R)
         /\ Atomic!Corrected(r, a) = Corrected(r, a)
         /\ Atomic!LockVersion(R, v) = LockVersion(R, v)
  BY AtomicNewRow DEF Atomic!IsLatest, IsLatest, Atomic!Corrected, Corrected,
                      Atomic!LockVersion, LockVersion

LEMMA AtomicResummarised ==
  ASSUME NEW R, NEW c
  PROVE  Atomic!Resummarised(R, c) = Resummarised(R, c)
  BY AtomicNewRow, AtomicRowOps DEF Atomic!Resummarised, Resummarised

\* The concurrent sessions implement the atomic day service: a commit is one of
\* its operations, everything else a stutter.
THEOREM Refinement == Spec => ImplementsDayVersions
  <1>1. Init => Atomic!Init
    BY DEF Init, Atomic!Init
  <1>2. IInv /\ IInv' /\ [Next]_vars => [Atomic!Next]_(Atomic!vars)
    <2>. SUFFICES ASSUME IInv, IInv', [Next]_vars
                  PROVE  Atomic!Next \/ UNCHANGED <<rows, sess>>
      BY DEF Atomic!vars
    <2>1. CASE UNCHANGED <<rows, sess>>
      BY <2>1
    <2>2. CASE writer \in Workers /\ rows' = dirty.rows /\ sess' = dirty.sess
      <3>1. /\ rows \in [Dates -> SUBSET Row] /\ rows' \in [Dates -> SUBSET Row]
            /\ sess \in [Dates -> Evidence] /\ sess' \in [Dates -> Evidence]
        BY DEF IInv, TypeOK
      <3>0. /\ (\A d \in Dates : rows'[d] = rows[d]) => rows' = rows
            /\ (\A d \in Dates : sess'[d] = sess[d]) => sess' = sess
        <4>1. rows = [d \in Dates |-> rows[d]] /\ rows' = [d \in Dates |-> rows'[d]]
          BY <3>1
        <4>2. sess = [d \in Dates |-> sess[d]] /\ sess' = [d \in Dates |-> sess'[d]]
          BY <3>1
        <4>3. ASSUME \A d \in Dates : rows'[d] = rows[d] PROVE rows' = rows
          BY <4>1, <4>3, Zenon
        <4>4. ASSUME \A d \in Dates : sess'[d] = sess[d] PROVE sess' = sess
          BY <4>2, <4>4, Zenon
        <4>. QED
          BY <4>3, <4>4
      <3>2. \A d \in Dates : Worked(job[writer], rows[d], sess[d], rows'[d], sess'[d])
        BY <2>2 DEF IInv, ImageOK
      <3>3. job[writer] \in Jobs
        BY <2>2 DEF IInv, LockHeld, JobsOK
      <3>4. CASE job[writer] = "adjust"
        <4>1. sess' = sess
          <5>1. \A d \in Dates : sess'[d] = sess[d]
            BY <3>2, <3>4 DEF Worked
          <5>. QED
            BY <3>0, <5>1
        <4>2. CASE rows' = rows
          BY <4>1, <4>2
        <4>3. CASE rows' # rows
          <5>1. PICK d \in Dates : rows'[d] # rows[d]
            BY <3>0, <4>3
          <5>2. PICK r \in rows[d], a \in Adjustments :
                  IsLatest(r, rows[d]) /\ rows'[d] = rows[d] \cup {Corrected(r, a)}
            BY <3>2, <3>4, <5>1 DEF Worked
          <5>3. \A e \in Dates : e # d => rows'[e] = rows[e]
            BY <2>2, <3>4, <5>1 DEF IInv, ImageOK
          <5>4. rows' = [rows EXCEPT ![d] = @ \cup {Corrected(r, a)}]
            BY <3>1, <5>2, <5>3
          <5>5. /\ Atomic!IsLatest(r, rows[d])
                /\ rows' = [rows EXCEPT ![d] = @ \cup {Atomic!Corrected(r, a)}]
            BY <5>2, <5>4, AtomicRowOps
          <5>6. Atomic!Adjusts(rows, sess, rows', sess')
            BY <4>1, <5>5 DEF Atomic!Adjusts
          <5>. QED
            BY <3>1, <5>6, AtomicTypes DEF Atomic!Next
        <4>. QED
          BY <4>2, <4>3
      <3>5. CASE job[writer] = "lock"
        <4>1. sess' = sess
          <5>1. \A d \in Dates : sess'[d] = sess[d]
            BY <3>2, <3>5 DEF Worked
          <5>. QED
            BY <3>0, <5>1
        <4>2. \A d \in Dates : \/ rows'[d] = rows[d]
                               \/ \E r \in rows[d] : rows'[d] = LockVersion(rows[d], r.version)
          BY <3>2, <3>5 DEF Worked
        <4>3. Atomic!Locks(rows, sess, rows', sess')
          BY <4>1, <4>2, AtomicRowOps DEF Atomic!Locks
        <4>. QED
          BY <3>1, <4>3, AtomicTypes DEF Atomic!Next
      <3>6. CASE job[writer] = "sessionise"
        <4>1. \A d \in Dates :
                 \/ rows'[d] = rows[d] /\ sess'[d] = sess[d]
                 \/ rows'[d] = Resummarised(rows[d], SecondsOf[sess'[d]])
          BY <3>2, <3>6 DEF Worked
        <4>2. Atomic!Sessionises(rows, sess, rows', sess')
          BY <4>1, AtomicResummarised DEF Atomic!Sessionises
        <4>. QED
          BY <3>1, <4>2, AtomicTypes DEF Atomic!Next
      <3>. QED
        BY <3>3, <3>4, <3>5, <3>6 DEF Jobs
    <2>. QED
      BY <2>1, <2>2, OnlyCommitsShow
  <1>. QED
    BY <1>1, <1>2, Invariance, PTL DEF Spec, ImplementsDayVersions, Atomic!Spec

=============================================================================
