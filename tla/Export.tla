------------------------------- MODULE Export -------------------------------
(***************************************************************************)
(* The exports of a financial year, next to the people and jobs that keep  *)
(* changing its days (ReviewQueue).  An export holds no transaction: the   *)
(* guard, each sheet and each CSV of the bundle is a SELECT of its own and *)
(* sees whatever was committed last.                                       *)
(***************************************************************************)
EXTENDS ReviewQueue, FiniteSetsExt

CONSTANT Year  \* the dates of the exported financial year

ASSUME YearAssumption == Year \subseteq Days

VARIABLES
  export,  \* the export under way, and what it has read
  touched  \* history: the dates rewritten since its first read

yearVars == <<vars, export, touched>>

Kinds == {"csv", "xlsx", "bundle"}

NoExport == [pc |-> "idle", kind |-> "csv", strict |-> FALSE, summary |-> <<>>,
             total |-> <<>>, observations |-> <<>>, sessions |-> <<>>, versions |-> <<>>]

YearTypeOK ==
  /\ TypeOK
  /\ export.pc \in {"idle", "summary", "total", "observations", "sessions", "versions", "done"}
  /\ export.kind \in Kinds
  /\ export.strict \in BOOLEAN
  /\ DOMAIN export.summary \subseteq Year
  /\ \A d \in DOMAIN export.summary : export.summary[d] \in Row
  /\ touched \subseteq Days

YearInit == Init /\ export = NoExport /\ touched = {}

\* latest_summaries_in_range for the year.
LatestInYear == [d \in { e \in Year : rows[e] # {} } |-> Latest(rows[d])]

Claims(latest) == MapThenSumSet(LAMBDA d : latest[d].claimed, DOMAIN latest)

\* MUTANT of Totals: a day of exactly the cap is anomalous.
TotalsAtCap(latest) ==
  [claimed   |-> Claims(latest),
   locked    |-> Cardinality({ d \in DOMAIN latest : latest[d].locked }),
   unlocked  |-> Cardinality({ d \in DOMAIN latest : ~latest[d].locked }),
   anomalous |-> Cardinality({ d \in DOMAIN latest : latest[d].claimed >= Cap })]

\* The aggregates of the Year total sheet.
Totals(latest) ==
  [claimed   |-> Claims(latest),
   locked    |-> Cardinality({ d \in DOMAIN latest : latest[d].locked }),
   unlocked  |-> Cardinality({ d \in DOMAIN latest : ~latest[d].locked }),
   anomalous |-> Cardinality({ d \in DOMAIN latest : latest[d].claimed > Cap })]

-----------------------------------------------------------------------------
(***************************************************************************)
(* The steps of an export                                                  *)
(***************************************************************************)

\* MUTANT of Guard: only days that have left the nightly job's window count.
GuardOld == UnlockedIn({ d \in Year : d < today - 1 }) = {}

\* _guard_unlocked: with an unlocked day in the year the request is a 409.
Guard == UnlockedIn(Year) = {}

\* A workbook or a bundle is guarded unless the request allows unlocked days; the
\* CSV of a range and the command line have no guard.
Begin(kind, strict) ==
  /\ export.pc = "idle"
  /\ strict => kind # "csv" /\ Guard
  /\ export' = [NoExport EXCEPT !.pc = "summary", !.kind = kind, !.strict = strict]

\* The Summary sheet, or the whole CSV.
ReadSummary ==
  /\ export.pc = "summary"
  /\ export' = [export EXCEPT !.summary = LatestInYear,
                              !.pc = IF export.kind = "csv" THEN "done" ELSE "total"]

\* The Year total sheet reads the rows a second time; the workbook is then saved.
ReadTotal ==
  /\ export.pc = "total"
  /\ export' = [export EXCEPT !.total = Totals(LatestInYear),
                              !.pc = IF export.kind = "xlsx" THEN "done" ELSE "observations"]

ReadObservations ==
  /\ export.pc = "observations"
  /\ export' = [export EXCEPT !.observations = [d \in Year |-> evidence[d]], !.pc = "sessions"]

ReadSessions ==
  /\ export.pc = "sessions"
  /\ export' = [export EXCEPT !.sessions = [d \in Year |-> sess[d]], !.pc = "versions"]

\* daily_summaries.csv has every version of every date; then the zip is complete.
ReadVersions ==
  /\ export.pc = "versions"
  /\ export' = [export EXCEPT !.versions = [d \in Year |-> rows[d]], !.pc = "done"]

ExportStep ==
  \/ \E kind \in Kinds, strict \in BOOLEAN : Begin(kind, strict)
  \/ ReadSummary \/ ReadTotal \/ ReadObservations \/ ReadSessions \/ ReadVersions

YearNext ==
  \/ /\ Next
     /\ touched' = IF export.pc = "idle" THEN {} ELSE touched \cup Rewritten
     /\ UNCHANGED export
  \/ ExportStep /\ UNCHANGED <<vars, touched>>

YearSpec == YearInit /\ [][YearNext]_yearVars

-----------------------------------------------------------------------------
(***************************************************************************)
(* Properties                                                              *)
(***************************************************************************)

Done(kinds) == export.pc = "done" /\ export.kind \in kinds

\* A row r is in the set R, perhaps locked since.
Recorded(r, R) == \E s \in R : SameContent(r, s) /\ (r.locked => s.locked)

\* Whatever happens between the reads of a bundle, every row of its Summary sheet
\* is one of the versions in its daily_summaries.csv, at most locked meanwhile: the
\* audit trail covers the sheet (write_bundle reads the trail last, and no row of
\* it ever goes).
AuditTrailCovers ==
  Done({"bundle"}) =>
    \A d \in DOMAIN export.summary : Recorded(export.summary[d], export.versions[d])

\* A date nobody rewrote during the export reads the same in every part of it:
\* locked if the export was guarded, the last of its versions, with the computed
\* seconds of the sessions listed and observations for all of them
\* (_guard_unlocked, build_summary_rows, _sessions_csv, _observations_csv).
UntouchedDaysAgree ==
  \A d \in DOMAIN export.summary \ touched :
    LET row == export.summary[d]
    IN  /\ export.pc = "done" /\ export.strict => row.locked
        /\ Done({"bundle"}) =>
             /\ IsLatest(row, export.versions[d])
             /\ row.computed = SecondsOf[export.sessions[d]]
             /\ export.sessions[d] <= export.observations[d]

\* The rows that were once in a table with rows R: those, and as they were before
\* they were locked.
Seen(R) == R \cup { [r EXCEPT !.locked = FALSE] : r \in R }

\* One row for each of some dates of the year, each of them once in the table.
Countings ==
  { counted \in UNION { [D -> UNION { Seen(rows[d]) : d \in Year }] : D \in SUBSET Year } :
      \A d \in DOMAIN counted : Recorded(counted[d], rows[d]) }

\* The Year total sheet can be traced to one row per date: it counts every date of
\* the Summary sheet, by that row or a later version, and if nobody rewrote the date
\* during the export by that very row; it counts a further date only if the date
\* was rewritten; and the trail of a bundle has the row.
Traced(counted) ==
  /\ DOMAIN export.summary \subseteq DOMAIN counted
  /\ \A d \in DOMAIN counted :
       /\ d \in DOMAIN export.summary => counted[d].version >= export.summary[d].version
       /\ d \notin touched => d \in DOMAIN export.summary /\ counted[d] = export.summary[d]
       /\ Done({"bundle"}) => Recorded(counted[d], export.versions[d])

\* Whatever is written between the reads of a workbook, its Year total sheet sums
\* rows that can be traced to its Summary sheet, never an older version, and to the
\* audit trail; the days it calls anomalous are those the review queue would flag
\* with these rows; and a guarded export counts no more unlocked days than were
\* rewritten since its guard (_write_year_total_sheet, build_review_queue,
\* _guard_unlocked).
TotalsCountVersions ==
  Done({"xlsx", "bundle"}) =>
    /\ \E counted \in Countings :
         /\ Traced(counted)
         /\ export.total.claimed   = Claims(counted)
         /\ export.total.locked    = Cardinality({ d \in DOMAIN counted : counted[d].locked })
         /\ export.total.unlocked  = Cardinality({ d \in DOMAIN counted : ~counted[d].locked })
         /\ export.total.anomalous =
              Cardinality({ d \in DOMAIN counted :
                              "anomalous" \in Reasons(counted[d], sess[d], d, d, {}) })
    /\ export.strict => export.total.unlocked <= Cardinality(Year \cap touched)

-----------------------------------------------------------------------------
(***************************************************************************)
(* Why it works: the inductive invariant.                                  *)
(***************************************************************************)

Past(steps) == export.pc \in steps

\* The totals, once read, are those of rows that trace to the sheet.
TotalTraced ==
  Past({"observations", "sessions", "versions"}) \/ Done({"xlsx", "bundle"}) =>
    \E counted \in Countings : Traced(counted) /\ export.total = Totals(counted)

\* What each read left behind still holds of the dates nobody has rewritten since,
\* and the rows of the Summary sheet stay in the table whatever happens.
YearIInv ==
  /\ YearTypeOK
  /\ export = [pc |-> export.pc, kind |-> export.kind, strict |-> export.strict,
               summary |-> export.summary, total |-> export.total,
               observations |-> export.observations, sessions |-> export.sessions,
               versions |-> export.versions]
  /\ \A d \in Days : sess[d] <= evidence[d]
  /\ ~Past({"idle"}) /\ export.strict =>
       \A d \in Year \ touched : rows[d] # {} => Latest(rows[d]).locked
  /\ Past({"total", "observations", "sessions", "versions", "done"}) =>
       /\ \A d \in DOMAIN export.summary :
            /\ Recorded(export.summary[d], rows[d])
            /\ d \notin touched => rows[d] # {} /\ export.summary[d] = Latest(rows[d])
       /\ \A d \in Year \ touched : rows[d] # {} => d \in DOMAIN export.summary
  /\ TotalTraced
  /\ Past({"sessions", "versions"}) \/ Done({"bundle"}) =>
       \A d \in Year \ touched : sess[d] <= export.observations[d]
  /\ Past({"versions"}) \/ Done({"bundle"}) =>
       \A d \in Year \ touched : export.sessions[d] = sess[d]
  /\ Done({"bundle"}) =>
       /\ \A d \in DOMAIN export.summary : Recorded(export.summary[d], export.versions[d])
       /\ \A d \in Year \ touched : export.versions[d] = rows[d]
  /\ Past({"total"}) => export.kind # "csv"
  /\ Past({"observations", "sessions", "versions"}) => export.kind = "bundle"

=============================================================================
