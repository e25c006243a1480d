------------------------------- MODULE Backup -------------------------------
(***************************************************************************)
(* Snapshots of the database: one file per local date, written by VACUUM   *)
(* INTO, and retention, which keeps the snapshots of the latest days and   *)
(* the first snapshot of each of the latest months.  The nightly job and   *)
(* on-demand requests run the same function, also at once; a run can fail  *)
(* or be killed between any two of its steps, and days pass with no run.   *)
(***************************************************************************)
EXTENDS Integers, FiniteSets

CONSTANTS
  Workers,        \* the nightly job and requests
  DailyRetain,    \* DAILY_RETAIN
  MonthlyRetain,  \* MONTHLY_RETAIN
  Calendar,       \* Calendar[d]: the month of day d
  MaxDay,         \* bound: latest day
  MaxFaults       \* bound: failed copies and crashes

ASSUME BackupAssumption ==
  /\ DailyRetain \in Nat \ {0} /\ MonthlyRetain \in Nat
  /\ MaxDay \in Nat /\ MaxFaults \in Nat
  /\ Calendar \in [0 .. MaxDay -> Nat]
  /\ \A d, e \in 0 .. MaxDay : d <= e => Calendar[d] <= Calendar[e]

Days     == 0 .. MaxDay
NoDay    == -1
Month(d) == Calendar[d]

VARIABLES
  today,   \* the local date
  files,   \* what there is of the snapshot of each day
  last,    \* the day of poller_state.last_backup_at, or NoDay
  faults,
  pc,      \* what each run is doing
  date,    \* date[w]: the date w began on
  doomed,  \* doomed[w]: the dates w has yet to delete
  made,    \* history: days that ever had a file
  taken    \* history: days whose snapshot was ever complete

vars == <<today, files, last, faults, pc, date, doomed, made, taken>>

Contents == {"none", "growing", "empty", "partial", "whole"}

Init ==
  /\ today = 0
  /\ files = [d \in Days |-> "none"]
  /\ last = NoDay
  /\ faults = 0
  /\ pc = [w \in Workers |-> "idle"]
  /\ date = [w \in Workers |-> NoDay]
  /\ doomed = [w \in Workers |-> {}]
  /\ made = {} /\ taken = {}

\* A run ends on the day it began or the next.
NextDay ==
  /\ today < MaxDay
  /\ \A w \in Workers : pc[w] # "idle" => date[w] = today
  /\ today' = today + 1
  /\ UNCHANGED <<files, last, faults, pc, date, doomed, made, taken>>

Idle(w) ==
  /\ pc' = [pc EXCEPT ![w] = "idle"]
  /\ date' = [date EXCEPT ![w] = NoDay]
  /\ doomed' = [doomed EXCEPT ![w] = {}]

-----------------------------------------------------------------------------
(***************************************************************************)
(* snapshot                                                                *)
(***************************************************************************)
\* MUTANT of DateOfRun: dated by UTC, which can be a day off.
DateOfRunUTC == today + 1

DateOfRun == today

Begin(w) ==
  /\ pc[w] = "idle"
  /\ pc' = [pc EXCEPT ![w] = "snapshot"]
  /\ date' = [date EXCEPT ![w] = DateOfRun]
  /\ UNCHANGED <<today, files, last, faults, doomed, made, taken>>

\* VACUUM INTO writes to no file that has something in it already.
Writable(d) == files[d] \in {"none", "empty"}

Copy(w) ==
  /\ pc[w] = "snapshot" /\ Writable(date[w])
  /\ files' = [files EXCEPT ![date[w]] = "growing"]
  /\ made' = made \cup {date[w]}
  /\ pc' = [pc EXCEPT ![w] = "copying"]
  /\ UNCHANGED <<today, last, faults, date, doomed, taken>>

\* MUTANT of AfterRefusal: the run goes on to prune and to report success.
AfterRefusalPrune == "prune"

AfterRefusal == "refused"

Refuse(w) ==
  /\ pc[w] = "snapshot" /\ ~Writable(date[w])
  /\ pc' = [pc EXCEPT ![w] = AfterRefusal]
  /\ UNCHANGED <<today, files, last, faults, date, doomed, made, taken>>

\* The exception leaves run_snapshot: the scheduler logs it, the API answers 500.
Raise(w) ==
  /\ pc[w] = "refused"
  /\ Idle(w)
  /\ UNCHANGED <<today, files, last, faults, made, taken>>

Copied(w) ==
  /\ pc[w] = "copying"
  /\ files' = [files EXCEPT ![date[w]] = "whole"]
  /\ taken' = taken \cup {date[w]}
  /\ pc' = [pc EXCEPT ![w] = "prune"]
  /\ UNCHANGED <<today, last, faults, date, doomed, made>>

\* The disk is full, or the copy is interrupted: its file stays as it is.
CopyFails(w, left) ==
  /\ pc[w] = "copying" /\ faults < MaxFaults
  /\ faults' = faults + 1
  /\ files' = [files EXCEPT ![date[w]] = left]
  /\ Idle(w)
  /\ UNCHANGED <<today, last, made, taken>>

-----------------------------------------------------------------------------
(***************************************************************************)
(* prune_old_snapshots: what is listed is judged, and deleted one by one.  *)
(***************************************************************************)
Present == { d \in Days : files[d] # "none" }

Recent(now) == { d \in Present : d >= now - (DailyRetain - 1) }

FirstOfMonth == { d \in Present : \A e \in Present : Month(e) = Month(d) => d <= e }

Monthly == { d \in FirstOfMonth :
               Cardinality({ e \in FirstOfMonth : e > d }) < MonthlyRetain }

\* MUTANT of Kept: the oldest day of the window is not in it.
KeptLess(now) == (Recent(now) \ {now - (DailyRetain - 1)}) \cup Monthly

\* MUTANT of Kept: of each month the latest snapshot is kept.
KeptLatest(now) ==
  Recent(now) \cup { d \in Present : \A e \in Present : Month(e) = Month(d) => d >= e }

\* MUTANT of Kept: the first snapshot of every month is kept for ever.
KeptEveryMonth(now) == Recent(now) \cup FirstOfMonth

Kept(now) == Recent(now) \cup Monthly

List(w) ==
  /\ pc[w] = "prune"
  /\ doomed' = [doomed EXCEPT ![w] = Present \ Kept(date[w])]
  /\ pc' = [pc EXCEPT ![w] = "delete"]
  /\ UNCHANGED <<today, files, last, faults, date, made, taken>>

IsNext(w, d) == pc[w] = "delete" /\ d \in doomed[w] /\ \A e \in doomed[w] : d <= e

Unlink(w, d) ==
  /\ IsNext(w, d) /\ files[d] # "none"
  /\ files' = [files EXCEPT ![d] = "none"]
  /\ doomed' = [doomed EXCEPT ![w] = @ \ {d}]
  /\ UNCHANGED <<today, last, faults, pc, date, made, taken>>

\* Another run deleted it first: FileNotFoundError ends this one.
UnlinkGone(w, d) ==
  /\ IsNext(w, d) /\ files[d] = "none"
  /\ Idle(w)
  /\ UNCHANGED <<today, files, last, faults, made, taken>>

-----------------------------------------------------------------------------
(***************************************************************************)
(* run_snapshot's last step, and crashes                                   *)
(***************************************************************************)
Stamp(w) ==
  /\ pc[w] = "delete" /\ doomed[w] = {}
  /\ last' = today
  /\ Idle(w)
  /\ UNCHANGED <<today, files, faults, made, taken>>

\* The write lock is not to be had: the snapshot stays, unreported.
StampBusy(w) ==
  /\ pc[w] = "delete" /\ doomed[w] = {}
  /\ Idle(w)
  /\ UNCHANGED <<today, files, last, faults, made, taken>>

Crash(left) ==
  /\ faults < MaxFaults
  /\ faults' = faults + 1
  /\ files' = [d \in Days |-> IF files[d] = "growing" THEN left ELSE files[d]]
  /\ pc' = [w \in Workers |-> "idle"]
  /\ date' = [w \in Workers |-> NoDay]
  /\ doomed' = [w \in Workers |-> {}]
  /\ UNCHANGED <<today, last, made, taken>>

Run(w) ==
  \/ Copy(w) \/ Refuse(w) \/ Raise(w) \/ Copied(w)
  \/ \E left \in {"empty", "partial"} : CopyFails(w, left)
  \/ List(w)
  \/ \E d \in doomed[w] : Unlink(w, d) \/ UnlinkGone(w, d)
  \/ Stamp(w) \/ StampBusy(w)

Next ==
  \/ NextDay
  \/ \E left \in {"empty", "partial"} : Crash(left)
  \/ \E w \in Workers : Begin(w) \/ Run(w)

Spec == Init /\ [][Next]_vars

-----------------------------------------------------------------------------
(***************************************************************************)
(* Properties                                                              *)
(***************************************************************************)
\* A run has a date while it runs, today's or yesterday's, and a file grows only
\* while a run copies into it.
TypeOK ==
  /\ today \in Days
  /\ files \in [Days -> Contents]
  /\ last \in Days \cup {NoDay}
  /\ faults \in 0 .. MaxFaults
  /\ pc \in [Workers -> {"idle", "snapshot", "refused", "copying", "prune", "delete"}]
  /\ date \in [Workers -> Days \cup {NoDay}]
  /\ doomed \in [Workers -> SUBSET Days]
  /\ made \subseteq Days /\ taken \subseteq made
  /\ \A w \in Workers : pc[w] # "idle" => date[w] \in {today - 1, today} \cap Days
  /\ \A d \in Days : files[d] = "growing" => \E w \in Workers : pc[w] = "copying" /\ date[w] = d

\* The snapshots of the last days stay, whatever runs, fails and deletes at the
\* same time: one that was complete is complete for DailyRetain days
\* (prune_old_snapshots, ARCHITECTURE 7.1).
DailyKept == \A d \in taken : d > today - DailyRetain => files[d] = "whole"

MadeFirst == { d \in made : \A e \in made : Month(e) = Month(d) => d <= e }

\* Over all the prunings since, each of the latest months that ever had a file
\* still has its first one; a file counts whether or not it was finished
\* (prune_old_snapshots, ARCHITECTURE 7.1).
MonthlyKept ==
  \A d \in MadeFirst :
    Cardinality({ e \in MadeFirst : e > d }) < MonthlyRetain => files[d] # "none"

\* A run that reports success leaves no more than the two rules allow, though
\* others ran, failed or crashed meanwhile: the directory does not grow for ever
\* (prune_old_snapshots).
PruningBounds ==
  [][\A w \in Workers :
       Stamp(w) => Cardinality({ d \in Present : d <= date[w] })
                     <= DailyRetain + MonthlyRetain]_vars

\* The last backup that /status, /system and the health check report stands for
\* a complete snapshot of that day or of the day before, when the run began
\* (run_snapshot).
ReportedIsTaken == last # NoDay => {last - 1, last} \cap taken # {}

\* HANDOFF 8.D: "POST /api/backup (snapshot now)", "backup-now produces a
\* snapshot listed and downloadable": no run is refused while nothing fails and
\* no other run is under way.
BackupNowWorks ==
  faults = 0 =>
    \A w \in Workers :
      pc[w] = "refused" => \E v \in Workers \ {w} : pc[v] # "idle"

-----------------------------------------------------------------------------
(***************************************************************************)
(* Why it works: the inductive invariant.                                  *)
(***************************************************************************)

\* A copy into a day that still counts is the only one, and nothing deletes it.
Copies ==
  \A w \in Workers : pc[w] = "copying" =>
    /\ date[w] \in made
    /\ date[w] > today - DailyRetain =>
         /\ files[date[w]] = "growing"
         /\ \A v \in Workers : pc[v] = "copying" /\ date[v] = date[w] => v = w

\* A run that prunes has taken its snapshot.
PrunesAfterSnapshot == \A w \in Workers : pc[w] \in {"prune", "delete"} => date[w] \in taken

LaterFirsts(d) == { e \in MadeFirst : e > d }

\* What a run is about to delete neither rule protects, now or later.
Condemned ==
  \A w \in Workers : pc[w] = "delete" =>
    \A d \in doomed[w] :
      /\ d \in made /\ d <= date[w] - DailyRetain
      /\ d \in MadeFirst => Cardinality(LaterFirsts(d)) >= MonthlyRetain

\* Of the snapshots older than the daily window, a run leaves no more undeleted
\* than the monthly rule keeps.  With a window of one day another run, begun the
\* day before, could still add one.
LeftBehind(w) == { d \in Present : d <= date[w] - DailyRetain } \ doomed[w]

FewLeft ==
  DailyRetain > 1 =>
    \A w \in Workers : pc[w] = "delete" => Cardinality(LeftBehind(w)) <= MonthlyRetain

IInv ==
  /\ TypeOK
  /\ Present \subseteq made
  /\ Copies
  /\ PrunesAfterSnapshot
  /\ Condemned
  /\ FewLeft
  /\ DailyKept
  /\ MonthlyKept
  /\ ReportedIsTaken

=============================================================================
