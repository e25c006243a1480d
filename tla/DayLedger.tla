----------------------------- MODULE DayLedger ------------------------------
(***************************************************************************)
(* The concurrent database sessions that write daily_summaries: HTTP       *)
(* requests of the JSON API and the web pages, the Telegram bot, the       *)
(* nightly job and the command line, each with a SQLAlchemy session of its *)
(* own on one SQLite file in WAL mode.                                     *)
(*                                                                         *)
(* A SELECT outside a transaction sees the last commit and pins nothing.   *)
(* The first INSERT, UPDATE or DELETE takes the one write lock, and the    *)
(* session keeps it, working on an image nobody else sees, until it        *)
(* commits or rolls back.  A session that finds the lock taken waits for   *)
(* the busy timeout and then fails.  So whatever an operation read before  *)
(* its first write may be stale when it writes; the UNIQUE constraint on   *)
(* (local_date, version) is what stands between a stale read and a broken  *)
(* history.                                                                *)
(***************************************************************************)
EXTENDS DaySummaries

CONSTANTS
  Dates,        \* local dates, as numbers: the code handles them in order
  Workers,      \* concurrent database sessions
  NoWorker,     \* nobody holds the write lock
  Adjustments,  \* seconds a human may ask for, negative or positive
  Requests,     \* the operations asked for: [job, dates] records
  MaxVersion    \* bound: no correction is requested once a date has this version

Jobs == {"adjust", "lock", "sessionise"}

ASSUME LedgerAssumption ==
  /\ Dates \subseteq Int
  /\ Requests \subseteq [job : Jobs, dates : SUBSET Dates]
  /\ \A q \in Requests : q.job = "adjust" => \E d \in Dates : q.dates = {d}
  /\ NoWorker \notin Workers
  /\ Adjustments \subseteq Int
  /\ MaxVersion \in Nat

\* What a stale read can still influence: the next version and its seconds.
Read(r) == [version |-> r.version, computed |-> r.computed]
NoRead  == [version |-> 0, computed |-> 0]

VARIABLES
  rows,      \* committed daily_summaries: rows[d] is the set of rows of date d
  sess,      \* committed sessions: sess[d] is the evidence level they come from
  evidence,  \* committed observations: evidence[d] is what they now amount to
  writer,    \* the session that holds SQLite's write lock, or NoWorker
  dirty,     \* its uncommitted image of the two tables; the committed one if nobody's
  job,       \* job[w]: the operation w is running
  todo,      \* todo[w]: the dates it has not finished
  pc,        \* pc[w]: about to read, about to write, or idle
  seen,      \* seen[w]: the row an adjust or lock read as the latest
  loaded     \* loaded[w]: the evidence level a sessioniser run loaded

tables == <<rows, sess, evidence>>
locals == <<job, todo, pc, seen, loaded>>
vars   == <<rows, sess, evidence, writer, dirty, job, todo, pc, seen, loaded>>

TypeOK ==
  /\ rows \in [Dates -> SUBSET Row]
  /\ sess \in [Dates -> Evidence]
  /\ evidence \in [Dates -> Evidence]
  /\ writer \in Workers \cup {NoWorker}
  /\ dirty \in [rows : [Dates -> SUBSET Row], sess : [Dates -> Evidence]]
  /\ job \in [Workers -> Jobs \cup {"none"}]
  /\ todo \in [Workers -> SUBSET Dates]
  /\ pc \in [Workers -> {"idle", "read", "write"}]
  /\ seen \in [Workers -> [version : Nat, computed : Nat]]
  /\ loaded \in [Workers -> Evidence]

Init ==
  /\ rows     = [d \in Dates |-> {}]
  /\ sess     = [d \in Dates |-> 0]
  /\ evidence = [d \in Dates |-> 0]
  /\ writer   = NoWorker
  /\ dirty    = [rows |-> [d \in Dates |-> {}], sess |-> [d \in Dates |-> 0]]
  /\ job      = [w \in Workers |-> "none"]
  /\ todo     = [w \in Workers |-> {}]
  /\ pc       = [w \in Workers |-> "idle"]
  /\ seen     = [w \in Workers |-> NoRead]
  /\ loaded   = [w \in Workers |-> 0]

-----------------------------------------------------------------------------
(***************************************************************************)
(* Sessions and the write lock.                                            *)
(***************************************************************************)

\* The rows a SELECT by w returns: its own image once it holds the lock.
View(w) == IF writer = w THEN dirty.rows ELSE rows

\* MUTANT of MayWrite: there is no write lock.
AnyoneMayWrite(w) == TRUE

MayWrite(w) == writer \in {NoWorker, w}

\* The date the session handles next: dates are processed in ascending order.
NextDate(w, d) == d \in todo[w] /\ \A e \in todo[w] : d <= e

\* Session.close: everything the session held in memory goes.
Forget(w) ==
  /\ job'    = [job    EXCEPT ![w] = "none"]
  /\ todo'   = [todo   EXCEPT ![w] = {}]
  /\ pc'     = [pc     EXCEPT ![w] = "idle"]
  /\ seen'   = [seen   EXCEPT ![w] = NoRead]
  /\ loaded' = [loaded EXCEPT ![w] = 0]

\* Rollback: the image is discarded and the lock, if it is w's, is free.
Rollback(w) ==
  /\ IF writer = w
       THEN writer' = NoWorker /\ dirty' = [rows |-> rows, sess |-> sess]
       ELSE UNCHANGED <<writer, dirty>>
  /\ UNCHANGED tables

\* A flush by w takes the lock and leaves its image as given; the date is done.
Flush(w, d, newRows, newSess) ==
  /\ writer' = w
  /\ dirty'  = [rows |-> newRows, sess |-> newSess]
  /\ todo'   = [todo EXCEPT ![w] = @ \ {d}]
  /\ pc'     = [pc EXCEPT ![w] = "read"]
  /\ seen'   = [seen EXCEPT ![w] = NoRead]
  /\ loaded' = [loaded EXCEPT ![w] = 0]
  /\ UNCHANGED <<tables, job>>

\* A request, a command or a scheduled run starts: an adjust for one date, a lock
\* for one date or for those the bulk lock picked, a sessioniser run for any.
Submit(w, q) ==
  /\ pc[w] = "idle"
  /\ q.job = "adjust" => \A d \in q.dates : \A r \in rows[d] : r.version < MaxVersion
  /\ job'  = [job  EXCEPT ![w] = q.job]
  /\ todo' = [todo EXCEPT ![w] = q.dates]
  /\ pc'   = [pc   EXCEPT ![w] = "read"]
  /\ UNCHANGED <<tables, writer, dirty, seen, loaded>>

\* get_session commits when the handler returns, the jobs and the command line
\* when their last date is done.
Commit(w) ==
  /\ pc[w] = "read"
  /\ todo[w] = {}
  /\ IF writer = w
       THEN /\ rows' = dirty.rows
            /\ sess' = dirty.sess
            /\ writer' = NoWorker
       ELSE UNCHANGED <<rows, sess, writer>>
  /\ Forget(w)
  /\ UNCHANGED <<evidence, dirty>>

\* An exception, a dry run or the death of the process: nothing of it stays.
Abort(w) ==
  /\ pc[w] # "idle"
  /\ Rollback(w)
  /\ Forget(w)

\* MUTANT of BusyTimeout: a session waits for the lock for ever.
WaitForever(w) == FALSE /\ UNCHANGED vars

\* The write lock was not released within SQLite's busy timeout.
BusyTimeout(w) ==
  /\ pc[w] = "write"
  /\ ~MayWrite(w)
  /\ Rollback(w)
  /\ Forget(w)

-----------------------------------------------------------------------------
(***************************************************************************)
(* adjust_day                                                              *)
(***************************************************************************)

\* No summary for the date is a 404.
AdjustRead(w, d) ==
  /\ job[w] = "adjust" /\ pc[w] = "read" /\ NextDate(w, d)
  /\ IF View(w)[d] = {}
       THEN Rollback(w) /\ Forget(w)
       ELSE /\ \E r \in View(w)[d] : /\ IsLatest(r, View(w)[d])
                                     /\ seen' = [seen EXCEPT ![w] = Read(r)]
            /\ pc' = [pc EXCEPT ![w] = "write"]
            /\ UNCHANGED <<tables, writer, dirty, job, todo, loaded>>

\* MUTANT of VersionTaken: the table has no UNIQUE (local_date, version).
NoUniqueIndex(R, v) == FALSE

\* The UNIQUE constraint on (local_date, version) refuses the row.
VersionTaken(R, v) == \E r \in R : r.version = v

AdjustInsert(w, d) ==
  /\ job[w] = "adjust" /\ pc[w] = "write" /\ NextDate(w, d)
  /\ MayWrite(w)
  /\ ~VersionTaken(dirty.rows[d], seen[w].version + 1)
  /\ \E a \in Adjustments :
       Flush(w, d, [dirty.rows EXCEPT ![d] = @ \cup {Corrected(seen[w], a)}], dirty.sess)

\* IntegrityError: the request fails and rolls back.
AdjustConflict(w, d) ==
  /\ job[w] = "adjust" /\ pc[w] = "write" /\ NextDate(w, d)
  /\ MayWrite(w)
  /\ VersionTaken(dirty.rows[d], seen[w].version + 1)
  /\ Rollback(w)
  /\ Forget(w)

-----------------------------------------------------------------------------
(***************************************************************************)
(* lock_day, once or in the loop of lock_clean_days                        *)
(***************************************************************************)

\* A date without summary is a 404 and fails the request; a locked one is left.
LockRead(w, d) ==
  /\ job[w] = "lock" /\ pc[w] = "read" /\ NextDate(w, d)
  /\ \/ /\ View(w)[d] = {}
        /\ Rollback(w)
        /\ Forget(w)
     \/ \E r \in View(w)[d] :
          /\ IsLatest(r, View(w)[d])
          /\ IF r.locked
               THEN /\ todo' = [todo EXCEPT ![w] = @ \ {d}]
                    /\ UNCHANGED <<seen, pc>>
               ELSE /\ seen' = [seen EXCEPT ![w] = Read(r)]
                    /\ pc' = [pc EXCEPT ![w] = "write"]
                    /\ UNCHANGED todo
          /\ UNCHANGED <<tables, writer, dirty, job, loaded>>

\* The UPDATE names the row that was read, whatever the latest is by now.
LockUpdate(w, d) ==
  /\ job[w] = "lock" /\ pc[w] = "write" /\ NextDate(w, d)
  /\ MayWrite(w)
  /\ Flush(w, d, [dirty.rows EXCEPT ![d] = LockVersion(@, seen[w].version)], dirty.sess)

-----------------------------------------------------------------------------
(***************************************************************************)
(* sessionise_date, for one date or in the loop of the nightly job and CLI *)
(***************************************************************************)

\* The observations are loaded before the first write of the date.
LoadObservations(w, d) ==
  /\ job[w] = "sessionise" /\ pc[w] = "read" /\ NextDate(w, d)
  /\ loaded' = [loaded EXCEPT ![w] = evidence[d]]
  /\ pc' = [pc EXCEPT ![w] = "write"]
  /\ UNCHANGED <<tables, writer, dirty, job, todo, seen>>

\* The DELETE of the old sessions takes the lock, so the latest summary is read
\* inside the transaction and its version cannot be taken.
ReplaceSessions(w, d) ==
  /\ job[w] = "sessionise" /\ pc[w] = "write" /\ NextDate(w, d)
  /\ MayWrite(w)
  /\ Flush(w, d,
           [dirty.rows EXCEPT ![d] = Resummarised(@, SecondsOf[loaded[w]])],
           [dirty.sess EXCEPT ![d] = loaded[w]])

-----------------------------------------------------------------------------
(***************************************************************************)
(* The poller, as the ledger sees it: a short transaction of its own that  *)
(* commits more observations of a date.                                    *)
(***************************************************************************)
NewObservations(d) ==
  /\ writer = NoWorker
  /\ evidence[d] < MaxEvidence
  /\ evidence' = [evidence EXCEPT ![d] = @ + 1]
  /\ UNCHANGED <<rows, sess, writer, dirty, locals>>

\* What a session does of itself once it was submitted.
Step(w) ==
  \/ \E d \in Dates : \/ AdjustRead(w, d)
                      \/ AdjustInsert(w, d)
                      \/ AdjustConflict(w, d)
                      \/ LockRead(w, d)
                      \/ LockUpdate(w, d)
                      \/ LoadObservations(w, d)
                      \/ ReplaceSessions(w, d)
  \/ Commit(w)
  \/ BusyTimeout(w)

Next ==
  \/ \E w \in Workers :
       \/ \E q \in Requests : Submit(w, q)
       \/ Step(w)
       \/ Abort(w)
  \/ \E d \in Dates : NewObservations(d)

Spec == Init /\ [][Next]_vars

\* Threads run: a session that can go on does, and one that waits for the lock
\* gets it or times out.  Nobody has to submit, abort or observe anything.
Fairness == \A w \in Workers : WF_vars(Step(w))

FairSpec == Spec /\ Fairness

-----------------------------------------------------------------------------
(***************************************************************************)
(* Properties                                                              *)
(***************************************************************************)

\* Every committed history is versions 1 .. n without gap or duplicate, and each
\* row follows from the one before it, although every adjust chose its version
\* number from a read that may have been stale (days_service.adjust_day,
\* persistence._ensure_summary_version, UNIQUE in models.DailySummary).
HistoriesWellFormed == \A d \in Dates : Contiguous(rows[d]) /\ Linked(rows[d])

\* The sessions a reader finds next to a day are the ones its latest version was
\* computed from: no correction, however late, brings back the computed seconds
\* of sessions that were replaced meanwhile (adjust_day copies, sessionise_date
\* replaces).
SessionsMatchLatest == \A d \in Dates : Agrees(rows[d], sess[d])

\* A human's correction stands until a human replaces it: no run of the
\* sessioniser, however interleaved, loses it (_ensure_summary_version).
CorrectionsStick == \A d \in Dates : Sticks(rows[d])

\* Rows are never deleted or rewritten: the only change a row ever sees is from
\* unlocked to locked, and rows appear unlocked ("daily_summaries rows are NEVER
\* overwritten", persistence.py).
AppendOnlyStep ==
  \A d \in Dates :
    /\ \A r \in rows[d] : \E s \in rows'[d] : SameContent(r, s) /\ (r.locked => s.locked)
    /\ \A s \in rows'[d] :
         \/ \E r \in rows[d] : SameContent(r, s)
         \/ ~s.locked
AppendOnlyHistory == [][AppendOnlyStep]_vars

\* The concurrent sessions implement the atomic day service.
Atomic == INSTANCE DayVersions WITH history <- rows, sessions <- sess
ImplementsDayVersions == Atomic!Spec

(***************************************************************************)
(* Why it works: the inductive invariant.                                  *)
(***************************************************************************)

\* What one operation has made of one date so far, in its own image.
Worked(j, R, S, R2, S2) ==
  \/ R2 = R /\ S2 = S
  \/ j = "adjust" /\ S2 = S /\ \E r \in R : \E a \in Adjustments :
       IsLatest(r, R) /\ R2 = R \cup {Corrected(r, a)}
  \/ j = "lock" /\ S2 = S /\ \E r \in R : R2 = LockVersion(R, r.version)
  \/ j = "sessionise" /\ R2 = Resummarised(R, SecondsOf[S2])

JobsOK ==
  \A w \in Workers : pc[w] # "idle" =>
    /\ job[w] \in Jobs
    /\ job[w] = "adjust" => \E d \in Dates : todo[w] \subseteq {d}
    /\ job[w] = "adjust" /\ writer = w => todo[w] = {}

LockHeld == writer \in Workers => pc[writer] # "idle"

\* The image of the session that holds the lock: its remaining dates are as
\* committed, a finished one as its operation left it, and an adjust has touched
\* one date only.
ImageOK ==
  /\ writer = NoWorker => dirty = [rows |-> rows, sess |-> sess]
  /\ writer \in Workers =>
       /\ \A d \in todo[writer] :
            dirty.rows[d] = rows[d] /\ dirty.sess[d] = sess[d]
       /\ \A d \in Dates :
            Worked(job[writer], rows[d], sess[d], dirty.rows[d], dirty.sess[d])
       /\ job[writer] = "adjust" =>
            \A d, e \in Dates : d # e => \/ dirty.rows[d] = rows[d]
                                         \/ dirty.rows[e] = rows[e]

\* The row an operation read before its first write is still there, though
\* perhaps no longer the latest.
SeenIsReal ==
  \A w \in Workers : \A d \in Dates :
    pc[w] = "write" /\ job[w] \in {"adjust", "lock"} /\ NextDate(w, d) =>
      \E r \in rows[d] : Read(r) = seen[w]

\* The committed histories are good because whatever may be stale in an
\* operation is either protected by the lock or refused by the UNIQUE
\* constraint.  No step, of any number of sessions, leaves these states.
IInv ==
  /\ TypeOK
  /\ JobsOK
  /\ LockHeld
  /\ ImageOK
  /\ SeenIsReal
  /\ \A d \in Dates : Good(rows[d], sess[d])

\* Every operation ends, with an answer or an error, even if others keep taking
\* the write lock (SQLite's busy timeout; get_session always closes).
EveryJobEnds == \A w \in Workers : pc[w] # "idle" ~> pc[w] = "idle"

=============================================================================
