---------------------------- MODULE ReviewQueue -----------------------------
(***************************************************************************)
(* The life of the dates of a logbook: evidence arrives while a date and   *)
(* the one after it last, the nightly job turns it into sessions and a     *)
(* summary, and people correct and lock what they see in the review queue, *)
(* one by one or all clean days at once.                                   *)
(*                                                                         *)
(* DayLedger has the interleavings inside one operation; here an operation *)
(* is one step and what matters is on which DAY it runs, except for the    *)
(* bulk lock, which judges every day by several reads and writes last.     *)
(***************************************************************************)
EXTENDS DaySummaries, FiniteSets

CONSTANTS
  MaxDay,       \* bound: the last date
  Window,       \* SCAN_WINDOW_DAYS
  Trailing,     \* the days the nightly job looks back
  Threshold,    \* settings.lock_reminder_threshold_days
  Cap,          \* config.daily_cap_hours, in the unit of SecondsOf
  FlagsOf,      \* FlagsOf[e]: what the queue sees in sessions of level e
  SpillOf,      \* SpillOf[e]: how many later dates sessions of level e run into
  Adjustments,  \* seconds a human may ask for
  MaxActs,      \* bound: requests made by people
  LastObserved  \* bound: dates after this one are not observed

Days == 0 .. MaxDay
SessionFlags == {"data_gap", "heavy_bridging", "long_session"}

ASSUME QueueAssumption ==
  /\ {MaxDay, Window, Trailing, Cap, MaxActs, LastObserved} \subseteq Nat
  /\ FlagsOf \in [Evidence -> SUBSET SessionFlags]
  /\ SpillOf \in [Evidence -> Nat]
  /\ Threshold \in Int
  /\ Adjustments \subseteq Int

VARIABLES
  today,     \* the local date
  evidence,  \* evidence[d]: what the observations of d amount to
  sess,      \* sess[d]: the evidence level the stored sessions of d come from
  rows,      \* rows[d]: the daily_summaries of d
  bulk,      \* the running lock_clean_days: what it has read so far
  acts,      \* requests made
  \* History, for the properties only:
  nights,    \* the dates on which the nightly job ran
  rebuilt,   \* the dates a person had rebuilt
  moved      \* dates rewritten since the running bulk lock began to read

tables == <<evidence, sess, rows>>
vars   == <<today, evidence, sess, rows, bulk, acts, nights, rebuilt, moved>>

NoBulk == [pc |-> "idle", day |-> 0, covered |-> {}, latest |-> <<>>, clean |-> {}]

TypeOK ==
  /\ today \in Days
  /\ evidence \in [Days -> Evidence]
  /\ sess \in [Days -> Evidence]
  /\ rows \in [Days -> SUBSET Row]
  /\ bulk.pc \in {"idle", "rows", "sessions", "lock"}
  /\ bulk.day \in Days /\ bulk.covered \subseteq Days /\ bulk.clean \subseteq Days
  /\ acts \in 0 .. MaxActs
  /\ nights \subseteq Days
  /\ rebuilt \subseteq Days
  /\ moved \subseteq Days

Init ==
  /\ today    = 0
  /\ evidence = [d \in Days |-> 0]
  /\ sess     = [d \in Days |-> 0]
  /\ rows     = [d \in Days |-> {}]
  /\ bulk     = NoBulk
  /\ acts     = 0
  /\ nights   = {}
  /\ rebuilt  = {}
  /\ moved    = {}

Latest(R) == CHOOSE r \in R : IsLatest(r, R)

\* The dates of a range whose latest version is not locked:
\* count_unlocked_in_range, and the same in dates_needing_resessionisation.
UnlockedIn(range) == { d \in range \cap Days : rows[d] # {} /\ ~Latest(rows[d]).locked }

-----------------------------------------------------------------------------
(***************************************************************************)
(* The review queue                                                        *)
(***************************************************************************)

\* Date d is in the shadow of sessions attributed to an earlier date of the window.
Shadowed(d, t) ==
  \E e \in Days : t - Window <= e /\ e < t /\ e < d /\ d <= e + SpillOf[sess[e]]

SpillCovered(t) == { d \in Days : Shadowed(d, t) }

\* MUTANT of Reasons: a day in the shadow of a long session is not suspicious.
ReasonsUnshadowed(l, e, d, t, covered) ==
  (IF l.locked THEN {} ELSE {"unlocked_backlog"})
  \cup IF d < t - Window THEN {}
       ELSE (IF l.claimed > Cap THEN {"anomalous"} ELSE {})
            \cup (IF l.locked THEN {} ELSE FlagsOf[e])

\* MUTANT of Reasons: only the days of the window count as backlog.
ReasonsRecent(l, e, d, t, covered) ==
  IF d < t - Window THEN {}
    ELSE (IF l.locked THEN {} ELSE {"unlocked_backlog"} \cup FlagsOf[e])
         \cup (IF l.claimed > Cap THEN {"anomalous"} ELSE {})
         \cup (IF ~l.locked /\ SecondsOf[e] = 0 /\ d \in covered THEN {"suspect_zero"} ELSE {})

\* Why date d, with latest row l and sessions of level e, needs attention on t.
Reasons(l, e, d, t, covered) ==
  (IF l.locked THEN {} ELSE {"unlocked_backlog"})
  \cup IF d < t - Window THEN {}
       ELSE (IF l.claimed > Cap THEN {"anomalous"} ELSE {})
            \cup (IF l.locked THEN {} ELSE FlagsOf[e])
            \cup (IF ~l.locked /\ SecondsOf[e] = 0 /\ d \in covered
                    THEN {"suspect_zero"} ELSE {})

\* The latest row of every date before t that has one.
LatestBefore(t) == [d \in { e \in Days : e < t /\ rows[e] # {} } |-> Latest(rows[d])]

\* build_review_queue, read at one instant: the dates with a reason, and why.
Queue(t) ==
  LET latest == LatestBefore(t)
      why(d) == Reasons(latest[d], sess[d], d, t, SpillCovered(t))
  IN  [d \in { e \in DOMAIN latest : why(e) # {} } |-> why(d)]

\* _lock_backlog: the days the banner counts, by a query of its own.
Backlog(t) == { d \in DOMAIN LatestBefore(t) : ~LatestBefore(t)[d].locked }

\* list_days: of each date of a range that has a summary, the latest row, how many
\* versions there are, and whether there are sessions.
ListDays(range) ==
  [d \in { e \in range \cap Days : rows[e] # {} } |->
     [latest   |-> Latest(rows[d]),
      versions |-> Cardinality(rows[d]),
      worked   |-> SecondsOf[sess[d]] > 0]]

\* build_reminder_text: the days old enough to be listed, of them those it marks,
\* and the others, which it calls clean.
Reminded(t) ==
  { d \in DOMAIN Queue(t) : "unlocked_backlog" \in Queue(t)[d] /\ t - d >= Threshold }
RemindedFlagged(t) == { d \in Reminded(t) : Queue(t)[d] # {"unlocked_backlog"} }
RemindedClean(t)   == Reminded(t) \ RemindedFlagged(t)

-----------------------------------------------------------------------------
(***************************************************************************)
(* What people ask for                                                     *)
(***************************************************************************)

Asked == acts < MaxActs /\ acts' = acts + 1

Adjust(d, a) ==
  /\ Asked
  /\ rows[d] # {}
  /\ rows' = [rows EXCEPT ![d] = @ \cup {Corrected(Latest(@), a)}]
  /\ UNCHANGED <<today, evidence, sess, bulk, nights, rebuilt>>

Lock(d) ==
  /\ Asked
  /\ d \in UnlockedIn(Days)
  /\ rows' = [rows EXCEPT ![d] = LockVersion(@, Latest(@).version)]
  /\ UNCHANGED <<today, evidence, sess, bulk, nights, rebuilt>>

\* sessionise_date for every date of D.
Sessionise(D) ==
  /\ sess' = [d \in Days |-> IF d \in D THEN evidence[d] ELSE sess[d]]
  /\ rows' = [d \in Days |-> IF d \in D THEN Resummarised(rows[d], SecondsOf[evidence[d]])
                                        ELSE rows[d]]

\* /rebuild in the chat, the web page's button or the command line.  Bound: not for
\* a date still to come.
Rebuild(d) ==
  /\ Asked
  /\ d <= today
  /\ Sessionise({d})
  /\ rebuilt' = rebuilt \cup {d}
  /\ UNCHANGED <<today, evidence, bulk, nights>>

\* lock_clean_days: the shadows, the summaries and the sessions of the dates are
\* separate reads, and any commit may fall between them.
BulkShadows ==
  /\ bulk.pc = "idle"
  /\ Asked
  /\ bulk' = [NoBulk EXCEPT !.pc = "rows", !.day = today, !.covered = SpillCovered(today)]
  /\ UNCHANGED <<today, tables, nights, rebuilt>>

BulkRows ==
  /\ bulk.pc = "rows"
  /\ bulk' = [bulk EXCEPT !.pc = "sessions", !.latest = LatestBefore(bulk.day)]
  /\ UNCHANGED <<today, tables, acts, nights, rebuilt>>

\* The days a bulk lock that read these rows and shadows finds clean.
Clean(latest, t, covered) ==
  { d \in DOMAIN latest :
      /\ Reasons(latest[d], sess[d], d, t, covered) = {"unlocked_backlog"}
      /\ latest[d].claimed > 0 }

BulkJudge ==
  /\ bulk.pc = "sessions"
  /\ bulk' = [bulk EXCEPT !.pc = "lock",
                          !.clean = Clean(bulk.latest, bulk.day, bulk.covered)]
  /\ UNCHANGED <<today, tables, acts, nights, rebuilt>>

\* lock_day reads the latest version again and locks that one.
BulkLock ==
  /\ bulk.pc = "lock"
  /\ rows' = [d \in Days |-> IF d \in bulk.clean
                               THEN LockVersion(rows[d], Latest(rows[d]).version)
                               ELSE rows[d]]
  /\ bulk' = NoBulk
  /\ UNCHANGED <<today, evidence, sess, acts, nights, rebuilt>>

-----------------------------------------------------------------------------
(***************************************************************************)
(* The clock, the poller and the nightly job                               *)
(***************************************************************************)

Midnight ==
  /\ today < MaxDay
  /\ today' = today + 1
  /\ UNCHANGED <<tables, bulk, acts, nights, rebuilt>>

\* Sessions begin today; one that began yesterday may still be growing.
Observe(d) ==
  /\ d = today \/ (d = today - 1 /\ evidence[d] > 0)
  /\ d <= LastObserved
  /\ evidence[d] < MaxEvidence
  /\ evidence' = [evidence EXCEPT ![d] = @ + 1]
  /\ UNCHANGED <<today, sess, rows, bulk, acts, nights, rebuilt>>

\* MUTANT of DatesNeeding: the window begins a day too late.
DatesNeedingShort(t) == ({t - 1} \cap Days) \cup UnlockedIn(t - Trailing + 1 .. t - 1)

\* MUTANT of DatesNeeding: every trailing date is picked, with a row or without.
DatesNeedingAll(t) ==
  { d \in (t - Trailing .. t - 1) \cap Days : rows[d] = {} \/ ~Latest(rows[d]).locked }

\* dates_needing_resessionisation: yesterday whatever its state, and the trailing
\* dates that have a summary and whose latest version is not locked.
DatesNeeding(t) == ({t - 1} \cap Days) \cup UnlockedIn(t - Trailing .. t - 1)

\* The run of 01:15, and any further one of the date with --nightly-window from the
\* command line.  A night on which the process is down has none, and nothing makes
\* up for it.
Nightly ==
  /\ IF today \in nights THEN Asked ELSE UNCHANGED acts
  /\ Sessionise(DatesNeeding(today))
  /\ nights' = nights \cup {today}
  /\ UNCHANGED <<today, evidence, bulk, rebuilt>>

Rewritten == { d \in Days : rows'[d] # rows[d] \/ sess'[d] # sess[d] }

Step ==
  \/ Midnight
  \/ Nightly
  \/ \E d \in Days : \/ Observe(d)
                     \/ Lock(d)
                     \/ Rebuild(d)
                     \/ \E a \in Adjustments : Adjust(d, a)
  \/ BulkShadows \/ BulkRows \/ BulkJudge \/ BulkLock

Next ==
  /\ Step
  /\ moved' = IF bulk'.pc = "idle" THEN {} ELSE moved \cup Rewritten

Spec == Init /\ [][Next]_vars

-----------------------------------------------------------------------------
(***************************************************************************)
(* Properties                                                              *)
(***************************************************************************)

\* Date d reads as hours a person may claim unseen: some hours, no more than the
\* cap, sessions nobody doubts, and not empty because an earlier date has them.
Plausible(d, t) ==
  /\ Latest(rows[d]).claimed \in 1 .. Cap
  /\ FlagsOf[sess[d]] = {}
  /\ \/ SecondsOf[sess[d]] > 0
     \/ \A e \in Days : t - Window <= e /\ e < d => e + SpillOf[sess[e]] < d

\* Nobody rewrote date d or one before it since the running bulk lock began to read.
Untouched(d) == (0 .. d) \cap moved = {}

\* A bulk lock touches nothing but days that were over when it began; and a day of
\* the window that nobody rewrote while it read, nor any day before it, is locked
\* only if it is plausible.  (Days older than the window are judged by their claim
\* alone; a day rewritten between the judging and the lock is locked as it then
\* is: lock_clean_days, lock_day.)
BulkStep ==
  bulk.pc = "lock" /\ bulk'.pc = "idle" =>
    \A d \in Rewritten :
      /\ d < bulk.day
      /\ d >= bulk.day - Window /\ Untouched(d) => Plausible(d, bulk.day)
BulkLocksJudged == [][BulkStep]_vars

\* A row of c computed seconds is locked, and people made all the rows after it.
FrozenAt(R, c) ==
  \E r \in R : /\ r.locked /\ r.computed = c
               /\ \A s \in R : s.version > r.version => s.author = "human"

\* Once the job has run on a night when the evidence of a date was complete and
\* the date still in the trailing days, the total of the date disagrees with the
\* evidence only where a person locked that total while it was the latest, and
\* nothing but people's corrections came after: a lock taken too early, and the
\* corrections that follow it, keep the hours short for good
\* (dates_needing_resessionisation, _ensure_summary_version, the adjustment of a
\* locked day; the run of 01:15 may see a session that is still going on).
FinalEvidenceCounts ==
  \A d \in Days : rows[d] # {} /\ nights \cap (d + 2 .. d + Trailing) # {} =>
    LET l == Latest(rows[d])
    IN  l.computed # SecondsOf[evidence[d]] =>
          FrozenAt(rows[d], l.computed)

\* The days before today that make an export refuse, those the review queue has in
\* its backlog, however old, and those the banner counts are the same days, found
\* by three queries; of those old enough for the reminder, it calls clean what the
\* bulk lock would lock, and days without hours; and the number of versions and
\* the mark for sessions that the calendar shows are those of the latest row
\* (count_unlocked_in_range, build_review_queue, _lock_backlog, build_reminder_text,
\* lock_clean_days, list_days).
ViewsAgree ==
  LET queued == { d \in DOMAIN Queue(today) : "unlocked_backlog" \in Queue(today)[d] }
      clean  == Clean(LatestBefore(today), today, SpillCovered(today))
  IN  /\ UnlockedIn(0 .. today - 1) = queued
      /\ Backlog(today) = queued
      /\ { d \in clean : today - d >= Threshold }
           = { d \in RemindedClean(today) : Latest(rows[d]).claimed > 0 }
      /\ \A d \in DOMAIN ListDays(Days) :
           LET item == ListDays(Days)[d]
           IN  /\ item.versions = item.latest.version
               /\ item.worked <=> item.latest.computed > 0

\* A date has a summary if and only if the job ran on the night after it or a person
\* had that very date rebuilt: no later night makes up for its own, as the trailing
\* days are searched for unlocked summaries and not for missing ones, and neither
\* does anything people do to other dates (dates_needing_resessionisation).
SummaryOrigin ==
  \A d \in Days : rows[d] # {} <=> d + 1 \in nights \/ d \in rebuilt

\* VIOLATED.  docs/OPERATIONS.md says that a polling gap after a reboot is
\* "self-healing - the sessioniser back-fills the trailing 7 days", and
\* docs/ARCHITECTURE.md 5.2 that the nightly run inserts a missing row: then a date
\* with observations would have a summary once the job has run within the trailing
\* days after it (dates_needing_resessionisation).
TrailingDaysBackfilled ==
  \A d \in Days :
    evidence[d] > 0 /\ nights \cap (d + 1 .. d + Trailing) # {} => rows[d] # {}

-----------------------------------------------------------------------------
(***************************************************************************)
(* Why it works: the inductive invariant.                                  *)
(***************************************************************************)

BulkIsRecord ==
  bulk = [pc |-> bulk.pc, day |-> bulk.day, covered |-> bulk.covered,
          latest |-> bulk.latest, clean |-> bulk.clean]

\* What a bulk lock has read stays true of the dates nobody has rewritten since,
\* nor any date before them.
BulkKnows ==
  /\ bulk.pc \in {"rows", "sessions"} =>
       \A d \in Days : Untouched(d) => (d \in bulk.covered <=> Shadowed(d, bulk.day))
  /\ bulk.pc = "sessions" =>
       /\ DOMAIN bulk.latest \subseteq Days
       /\ \A d \in DOMAIN bulk.latest :
            /\ d < bulk.day
            /\ Untouched(d) => rows[d] # {} /\ bulk.latest[d] = Latest(rows[d])
  /\ bulk.pc = "lock" =>
       \A d \in bulk.clean :
         /\ d < bulk.day
         /\ d >= bulk.day - Window /\ Untouched(d) => Plausible(d, bulk.day)

\* Histories stay good on whatever day an operation runs, the job has run on no day
\* to come, and a running bulk lock knows the untouched days.
IInv ==
  /\ TypeOK
  /\ \A d \in Days : Good(rows[d], sess[d])
  /\ nights \subseteq 0 .. today
  /\ BulkIsRecord
  /\ BulkKnows

=============================================================================
