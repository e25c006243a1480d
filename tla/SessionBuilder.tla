--------------------------- MODULE SessionBuilder ---------------------------
(***************************************************************************)
(* The pure builder: from the observations of the tracked devices to the   *)
(* work sessions of one date.  Its loops are actions: a scan of each       *)
(* device's rows that opens and closes intervals, a sweep over their       *)
(* endpoints that unites the devices, a walk that bridges short gaps, and  *)
(* the filter by length and date.  The reference it is held against knows  *)
(* nothing of loops: it looks at the set of instants the rows cover.       *)
(*                                                                         *)
(* Time is counted in units of which a day has DayLength, and both the     *)
(* bridge and the minimum length are whole units.                          *)
(***************************************************************************)
EXTENDS Integers, Sequences, FiniteSets

CONSTANTS
  Devices,     \* tracked devices, as numbers
  Targets,     \* the dates to build: date d is d * DayLength and what follows
  DayLength,
  Buffer,      \* how far beyond the date rows are loaded (BUFFER_HOURS)
  GapBridge,   \* longest gap that is bridged
  MinSession,  \* shortest session that counts
  Horizon,     \* bound: latest timestamp
  MaxRows      \* bound: rows in the log, of all devices

ASSUME BuilderAssumption ==
  /\ Devices \subseteq Nat /\ IsFiniteSet(Devices)
  /\ Targets \subseteq Nat
  /\ DayLength \in Nat \ {0}
  /\ Buffer \in Nat /\ GapBridge \in Nat /\ MinSession \in Nat
  /\ Horizon \in Nat /\ MaxRows \in Nat

Time     == 0 .. Horizon
NoTime   == -1
DateOf(t) == t \div DayLength

Row      == [at : Time, connected : BOOLEAN]
Interval == [start : Time, end : Time, devices : SUBSET Devices,
             gaps : Nat, bridged : Nat]

VARIABLES
  log,        \* log[m]: the rows of device m by timestamp, then arrival
  pc,         \* what the builder is doing
  target,     \* the date it builds
  rows,       \* rows[m]: loaded rows not yet scanned
  unscanned,  \* devices not yet scanned to the end
  openAt,     \* when the interval being scanned began, or NoTime
  lastTrue,   \* the last connected row of it
  intervals,  \* per-device intervals found
  pending,    \* endpoints not yet swept
  openCount,  \* intervals the sweep is inside of
  cur,        \* the interval the sweep or the bridge is at, or Nothing
  merged,     \* what the sweep produced and the bridge has not taken
  out,        \* what the bridge produced
  sessions    \* the result

scanVars  == <<rows, unscanned, openAt, lastTrue>>
sweepVars == <<pending, openCount>>
vars == <<log, pc, target, rows, unscanned, openAt, lastTrue, intervals,
          pending, openCount, cur, merged, out, sessions>>

Nothing == [start |-> NoTime, end |-> NoTime, devices |-> {}, gaps |-> 0, bridged |-> 0]

Event == [at : Time, kind : {0, 1}, of : Nat \ {0}]

Init ==
  /\ log = [m \in Devices |-> <<>>]
  /\ pc = "idle"
  /\ target = NoTime
  /\ rows = [m \in Devices |-> <<>>]
  /\ unscanned = {}
  /\ openAt = NoTime /\ lastTrue = NoTime
  /\ intervals = <<>> /\ pending = {} /\ openCount = 0
  /\ cur = Nothing /\ merged = <<>> /\ out = <<>>
  /\ sessions = {}

RowCount == LET n[S \in SUBSET Devices] ==
                  IF S = {} THEN 0
                  ELSE LET m == CHOOSE m \in S : TRUE IN Len(log[m]) + n[S \ {m}]
            IN  n[Devices]

\* Rows arrive in any pattern: what the sort makes of controller timestamps and
\* of disconnects need not alternate.
Observe(m, t, c) ==
  /\ pc = "idle"
  /\ RowCount < MaxRows
  /\ \A i \in 1 .. Len(log[m]) : log[m][i].at <= t
  /\ log' = [log EXCEPT ![m] = Append(@, [at |-> t, connected |-> c])]
  /\ UNCHANGED <<pc, target, intervals, cur, merged, out, sessions, scanVars, sweepVars>>

-----------------------------------------------------------------------------
(***************************************************************************)
(* _load_observations and utc_buffer_for.                                  *)
(***************************************************************************)
\* MUTANT of Lower: no buffer before the date.
LowerAtMidnight(d) == d * DayLength

Lower(d) == d * DayLength - Buffer
Upper(d) == (d + 1) * DayLength + Buffer

\* How many of the rows, which are in the order of their time, are at most at t.
UpTo(seq, t) == Cardinality({ i \in DOMAIN seq : seq[i].at <= t })

Loaded(d) == [m \in Devices |->
                SubSeq(log[m], UpTo(log[m], Lower(d) - 1) + 1, UpTo(log[m], Upper(d)))]

Load(d) ==
  /\ pc = "idle"
  /\ pc' = "scan"
  /\ target' = d
  /\ rows' = Loaded(d)
  /\ unscanned' = Devices
  /\ UNCHANGED <<log, openAt, lastTrue, intervals, cur, merged, out, sessions, sweepVars>>

-----------------------------------------------------------------------------
(***************************************************************************)
(* _per_mac_intervals: one device after the other, one row at a time.      *)
(***************************************************************************)
Scanning(m) == pc = "scan" /\ m \in unscanned /\ \A n \in unscanned : m <= n

Of(m, from, to) == [start |-> from, end |-> to, devices |-> {m}, gaps |-> 0, bridged |-> 0]

Closed(m, t) == IF openAt = NoTime THEN intervals
                                   ELSE Append(intervals, Of(m, openAt, t))

ScanConnected(m) ==
  /\ Scanning(m) /\ rows[m] # <<>> /\ Head(rows[m]).connected
  /\ openAt' = IF openAt = NoTime THEN Head(rows[m]).at ELSE openAt
  /\ lastTrue' = Head(rows[m]).at
  /\ rows' = [rows EXCEPT ![m] = Tail(@)]
  /\ UNCHANGED <<log, pc, target, unscanned, intervals, cur, merged, out, sessions, sweepVars>>

ScanDisconnected(m) ==
  /\ Scanning(m) /\ rows[m] # <<>> /\ ~Head(rows[m]).connected
  /\ intervals' = Closed(m, Head(rows[m]).at)
  /\ openAt' = NoTime /\ lastTrue' = NoTime
  /\ rows' = [rows EXCEPT ![m] = Tail(@)]
  /\ UNCHANGED <<log, pc, target, unscanned, cur, merged, out, sessions, sweepVars>>

\* An interval still open ends at the last row that saw the device.
ScanEnd(m) ==
  /\ Scanning(m) /\ rows[m] = <<>>
  /\ intervals' = Closed(m, lastTrue)
  /\ openAt' = NoTime /\ lastTrue' = NoTime
  /\ unscanned' = unscanned \ {m}
  /\ UNCHANGED <<log, pc, target, rows, cur, merged, out, sessions, sweepVars>>

-----------------------------------------------------------------------------
(***************************************************************************)
(* _union: starts sort before ends of the same instant, so that intervals  *)
(* that touch become one.                                                  *)
(***************************************************************************)
Begin == 0
End   == 1

Events == { [at |-> intervals[i].start, kind |-> Begin, of |-> i] : i \in DOMAIN intervals }
          \cup { [at |-> intervals[i].end, kind |-> End, of |-> i] : i \in DOMAIN intervals }

\* MUTANT of Before: ends sort before starts.
EndsFirst(e, f) ==
  \/ e.at < f.at
  \/ e.at = f.at /\ e.kind > f.kind
  \/ e.at = f.at /\ e.kind = f.kind /\ e.of <= f.of

Before(e, f) ==
  \/ e.at < f.at
  \/ e.at = f.at /\ e.kind < f.kind
  \/ e.at = f.at /\ e.kind = f.kind /\ e.of <= f.of

IsNext(e) == e \in pending /\ \A f \in pending : Before(e, f)

StartSweep ==
  /\ pc = "scan" /\ unscanned = {}
  /\ pc' = "sweep"
  /\ pending' = Events
  /\ UNCHANGED <<log, target, intervals, openCount, cur, merged, out, sessions, scanVars>>

SweepBegin(e) ==
  /\ pc = "sweep" /\ IsNext(e) /\ e.kind = Begin
  /\ cur' = IF openCount = 0
              THEN [Nothing EXCEPT !.start = e.at, !.devices = intervals[e.of].devices]
              ELSE [cur EXCEPT !.devices = @ \cup intervals[e.of].devices]
  /\ openCount' = openCount + 1
  /\ pending' = pending \ {e}
  /\ UNCHANGED <<log, pc, target, intervals, merged, out, sessions, scanVars>>

SweepEnd(e) ==
  /\ pc = "sweep" /\ IsNext(e) /\ e.kind = End
  /\ openCount' = openCount - 1
  /\ pending' = pending \ {e}
  /\ IF openCount = 1 /\ cur # Nothing
       THEN /\ merged' = Append(merged, [cur EXCEPT !.end = e.at])
            /\ cur' = Nothing
       ELSE UNCHANGED <<merged, cur>>
  /\ UNCHANGED <<log, pc, target, intervals, out, sessions, scanVars>>

-----------------------------------------------------------------------------
(***************************************************************************)
(* _gap_bridge, _filter_too_short and the attribution to a date.           *)
(***************************************************************************)
StartBridge ==
  /\ pc = "sweep" /\ pending = {}
  /\ pc' = "bridge"
  /\ IF merged = <<>> THEN UNCHANGED <<cur, merged>>
                      ELSE cur' = Head(merged) /\ merged' = Tail(merged)
  /\ UNCHANGED <<log, target, intervals, out, sessions, scanVars, sweepVars>>

\* MUTANT of Bridges: a gap of exactly the threshold splits the session.
BridgesShorter(gap) == gap < GapBridge

Bridges(gap) == gap <= GapBridge

BridgeNext ==
  /\ pc = "bridge" /\ merged # <<>>
  /\ LET next == Head(merged)
         gap  == next.start - cur.end
     IN  IF Bridges(gap)
           THEN /\ cur' = [start   |-> cur.start,
                           end     |-> next.end,
                           devices |-> cur.devices \cup next.devices,
                           gaps    |-> cur.gaps + 1,
                           bridged |-> cur.bridged + gap]
                /\ UNCHANGED out
           ELSE cur' = next /\ out' = Append(out, cur)
  /\ merged' = Tail(merged)
  /\ UNCHANGED <<log, pc, target, intervals, sessions, scanVars, sweepVars>>

Counts(s) == s.end - s.start >= MinSession /\ DateOf(s.start) = target

Finish ==
  /\ pc = "bridge" /\ merged = <<>>
  /\ pc' = "done"
  /\ out' = IF cur = Nothing THEN out ELSE Append(out, cur)
  /\ cur' = Nothing
  /\ sessions' = { out'[i] : i \in { j \in DOMAIN out' : Counts(out'[j]) } }
  /\ UNCHANGED <<log, target, intervals, merged, scanVars, sweepVars>>

\* The builder keeps nothing between runs.
Return ==
  /\ pc = "done"
  /\ pc' = "idle" /\ target' = NoTime
  /\ intervals' = <<>> /\ out' = <<>> /\ sessions' = {}
  /\ UNCHANGED <<log, cur, merged, scanVars, sweepVars>>

-----------------------------------------------------------------------------
(***************************************************************************)
(* find_observation_gaps: what the review queue makes of a stored session. *)
(* The rows of all devices are one stream; those of one instant are in the *)
(* order of arrival, which is open between devices.                        *)
(***************************************************************************)
Stamped(s) ==
  { r \in UNION { { [at |-> log[m][i].at, connected |-> log[m][i].connected, of |-> m,
                     last |-> i = Len(log[m]) \/ log[m][i + 1].at > log[m][i].at] :
                       i \in DOMAIN log[m] } : m \in Devices } :
      s.start <= r.at /\ r.at <= s.end }

\* MUTANT of Gap: the threshold is doubled once more.
GapLonger(seconds) == seconds > 4 * GapBridge

Gap(seconds) == seconds > 2 * GapBridge

\* The holes between consecutive instants of the stream, by their two ends.
Holes(s) ==
  LET at == { r.at : r \in Stamped(s) }
  IN  { h \in at \X at : h[1] < h[2] /\ Gap(h[2] - h[1]) /\ at \cap (h[1] + 1 .. h[2] - 1) = {} }

\* The rows that may be the last of their instant in the stream.
LastAt(s, t) == { r \in Stamped(s) : r.at = t /\ r.last }

\* The gaps reported in any order of arrival, and those reported in some.
Gaps(s)       == { h \in Holes(s) : \A r \in LastAt(s, h[1]) : r.connected }
Reportable(s) == { h \in Holes(s) : \E r \in LastAt(s, h[1]) : r.connected }

Next ==
  \/ \E m \in Devices : \E t \in Time : \E c \in BOOLEAN : Observe(m, t, c)
  \/ \E d \in Targets : Load(d)
  \/ \E m \in Devices : ScanConnected(m) \/ ScanDisconnected(m) \/ ScanEnd(m)
  \/ StartSweep
  \/ \E e \in pending : SweepBegin(e) \/ SweepEnd(e)
  \/ StartBridge \/ BridgeNext \/ Finish
  \/ Return

Spec == Init /\ [][Next]_vars

-----------------------------------------------------------------------------
(***************************************************************************)
(* The reference.  Instants are half units, so that a gap has an inside:   *)
(* instant p is time p/2.                                                  *)
(***************************************************************************)
Instants == 0 .. 2 * Horizon

\* A connected row covers its instant and all up to the device's next row.
CoveredByFirst(n, seq) ==
  { p \in Instants : \E i \in 1 .. n :
      /\ seq[i].connected
      /\ 2 * seq[i].at <= p
      /\ \/ p = 2 * seq[i].at
         \/ i < n /\ p <= 2 * seq[i + 1].at }

CoveredBy(seq) == CoveredByFirst(Len(seq), seq)

Covered(r) == UNION { CoveredBy(r[m]) : m \in Devices }

Reach == IF 2 * GapBridge > 1 THEN 2 * GapBridge ELSE 1

\* The longest runs of covered instants in which no step is longer than Reach.
Runs(C) ==
  { r \in C \X C :
      /\ r[1] <= r[2]
      /\ C \cap (r[1] - Reach .. r[1] - 1) = {}
      /\ C \cap (r[2] + 1 .. r[2] + Reach) = {}
      /\ \A p \in C : r[1] <= p /\ p < r[2] => C \cap (p + 1 .. p + Reach) # {} }

\* The runs that are sessions of date d.
Expected(C, d) ==
  { r \in Runs(C) : r[2] - r[1] >= 2 * MinSession /\ DateOf(r[1] \div 2) = d }

Span(s) == <<2 * s.start, 2 * s.end>>

\* What the loaded rows cover, and the instants from the start to the end of s.
Cov == Covered(Loaded(target))

Within(s) == 2 * s.start .. 2 * s.end

-----------------------------------------------------------------------------
(***************************************************************************)
(* Properties                                                              *)
(***************************************************************************)
TypeOK ==
  /\ log \in [Devices -> Seq(Row)]
  /\ pc \in {"idle", "scan", "sweep", "bridge", "done"}
  /\ target \in Targets \cup {NoTime}
  /\ rows \in [Devices -> Seq(Row)]
  /\ unscanned \subseteq Devices
  /\ openAt \in Time \cup {NoTime} /\ lastTrue \in Time \cup {NoTime}
  /\ intervals \in Seq(Interval)
  /\ pending \subseteq Event
  /\ openCount \in Nat
  /\ cur \in [start : Time \cup {NoTime}, end : Time \cup {NoTime},
              devices : SUBSET Devices, gaps : Nat, bridged : Nat]
  /\ merged \in Seq(Interval) /\ out \in Seq(Interval)
  /\ sessions \subseteq Interval

\* The sessions are exactly the runs of covered instants, bridged, long enough
\* and begun on the date, whatever the order of rows of different devices, ties
\* between rows, intervals of no length and intervals that touch
\* (build_sessions_for_date, METHODOLOGY 4.1 to 4.4).
SessionsExact ==
  pc = "done" =>
    { Span(s) : s \in sessions } = Expected(Cov, target)

Seen(s) == { m \in Devices : CoveredBy(Loaded(target)[m]) \cap Within(s) # {} }

Accounted(s) ==
  /\ s.gaps = Cardinality({ p \in Within(s) \ Cov : p - 1 \in Cov })
  /\ 2 * s.bridged - s.gaps = Cardinality(Within(s) \ Cov)
  /\ s.devices = Seen(s)

\* Each session accounts for itself: the gaps it bridged are counted once, add
\* up to the time in it that no device covers, and its devices are those seen in
\* it (bridged_gaps_count, bridged_gaps_seconds, devices_seen).
SessionsAccounted == pc = "done" => \A s \in sessions : Accounted(s)

\* Every hole the review queue may report as a gap is time the session counts,
\* though nobody was seen in it; and a session of one device alone without a reported
\* gap has a row at most two bridges before each instant it counts.  (Where another
\* device disconnects just before a hole, the hole is taken for absence and goes
\* unreported: find_observation_gaps merges the devices' rows.)
GapsAreTheUnseen ==
  pc = "done" =>
    \A s \in sessions :
      /\ \A g \in Reportable(s) : 2 * g[1] .. 2 * g[2] \subseteq Cov \cap Within(s)
      /\ Gaps(s) = {} /\ Cardinality({ r.of : r \in Stamped(s) }) = 1 =>
           \A p \in Cov \cap Within(s) : \E r \in Stamped(s) :
             2 * r.at <= p /\ p <= 2 * r.at + 4 * GapBridge

\* The rows of a device are close enough together for the buffer to contain a
\* row of every stretch that reaches into the date, with room for a bridge.
Dense ==
  /\ GapBridge <= Buffer
  /\ \A m \in Devices : \A i \in 1 .. Len(log[m]) - 1 :
       log[m][i].connected => log[m][i + 1].at - log[m][i].at <= Buffer - GapBridge

\* The buffer is wide enough: what the date's rows show is what the whole log
\* would show.  A session that ends within the buffer is found whole, and, if
\* the poller was not down for most of the buffer, no session of an earlier date
\* is seen as beginning on this one (utc_buffer_for, ARCHITECTURE 5.3).
BufferSuffices ==
  pc = "done" =>
    LET whole == Expected(Covered(log), target)
    IN  /\ \A r \in whole :
             r[2] <= 2 * Upper(target) => \E s \in sessions : Span(s) = r
        /\ Dense => \A s \in sessions : \E r \in whole : r[1] = 2 * s.start

\* METHODOLOGY 4.4: "A session that begins on one calendar date and ends on the
\* next is attributed in full to the calendar date on which it began."  Not so
\* when it lasts beyond the buffer, though every poll of it is in the log.
AttributedInFull ==
  pc = "done" /\ Dense =>
    \A r \in Expected(Covered(log), target) :
      DateOf(r[2] \div 2) = target + 1 => \E s \in sessions : Span(s) = r

-----------------------------------------------------------------------------
(***************************************************************************)
(* Why it works: the inductive invariant, a part for each loop.            *)
(***************************************************************************)

InOrder(seq) == \A i, j \in DOMAIN seq : i <= j => seq[i].at <= seq[j].at

\* What is not in use is empty.
AtRest ==
  /\ pc = "idle" => intervals = <<>>
  /\ pc # "idle" => target \in Targets
  /\ pc # "scan" => unscanned = {}
  /\ unscanned = {} => openAt = NoTime
  /\ pc # "sweep" => pending = {} /\ openCount = 0
  /\ pc \in {"idle", "scan", "done"} => cur = Nothing /\ merged = <<>>
  /\ pc \in {"idle", "scan", "sweep"} => out = <<>>
  /\ pc # "done" => sessions = {}

\* The intervals found of device m, and the one being scanned.
Found(m) == { p \in Instants : \E i \in DOMAIN intervals :
                m \in intervals[i].devices /\ p \in Within(intervals[i]) }

OpenPart == { p \in Instants : openAt # NoTime /\ 2 * openAt <= p /\ p <= 2 * lastTrue }

Scanned(m) == Len(Loaded(target)[m]) - Len(rows[m])

\* The scan has found what the rows it has been through cover.
ScanRight(m) ==
  LET seq == Loaded(target)[m]
      k   == Scanned(m)
  IN  /\ k \in 0 .. Len(seq)
      /\ rows[m] = SubSeq(seq, k + 1, Len(seq))
      /\ m \notin unscanned => k = Len(seq)
      /\ m \in unscanned /\ ~Scanning(m) => k = 0
      /\ Scanning(m) =>
           /\ openAt # NoTime <=> k > 0 /\ seq[k].connected
           /\ openAt # NoTime => openAt <= lastTrue /\ lastTrue = seq[k].at
      /\ CoveredByFirst(k, seq) = Found(m) \cup IF Scanning(m) THEN OpenPart ELSE {}

PlainInterval(v) ==
  /\ v.start <= v.end /\ v.gaps = 0 /\ v.bridged = 0
  /\ \E m \in Devices : v.devices = {m}

IntervalsRight ==
  /\ \A i \in DOMAIN intervals : PlainInterval(intervals[i])
  /\ pc = "scan" => \A m \in Devices : ScanRight(m)
  /\ pc \in {"sweep", "bridge", "done"} =>
       \A m \in Devices : Found(m) = CoveredBy(Loaded(target)[m])

BeginOf(i) == [at |-> intervals[i].start, kind |-> Begin, of |-> i]
EndOf(i)   == [at |-> intervals[i].end, kind |-> End, of |-> i]

\* The intervals the sweep has entered, and those it is inside of.
Begun == { i \in DOMAIN intervals : BeginOf(i) \notin pending }
Open  == { i \in Begun : EndOf(i) \in pending }

Among(i, b)  == b.start <= intervals[i].start /\ intervals[i].devices \subseteq b.devices
Inside(i, b) == Among(i, b) /\ intervals[i].end <= b.end

SweepRight ==
  /\ pending \subseteq Events
  /\ \A e \in Events \ pending : \A f \in pending : Before(e, f)
  /\ openCount = Cardinality(Open)
  /\ cur = Nothing <=> Open = {}
  /\ cur # Nothing =>
       /\ cur.start \in Time /\ cur.gaps = 0 /\ cur.bridged = 0
       /\ \A f \in pending : cur.start <= f.at
       /\ \A p \in Instants :
            2 * cur.start <= p /\ (\A f \in pending : p <= 2 * f.at) => p \in Cov
       /\ \A m \in cur.devices : \E i \in Begun :
            Among(i, cur) /\ m \in intervals[i].devices
       /\ \A j \in DOMAIN merged : merged[j].end < cur.start
  /\ \A i \in Begun :
       \/ cur # Nothing /\ Among(i, cur)
       \/ \E j \in DOMAIN merged : Inside(i, merged[j])
  /\ \A j \in DOMAIN merged :
       /\ merged[j].start <= merged[j].end /\ merged[j].gaps = 0 /\ merged[j].bridged = 0
       /\ Within(merged[j]) \subseteq Cov
       /\ \A m \in merged[j].devices : \E i \in Begun :
            Inside(i, merged[j]) /\ m \in intervals[i].devices
       /\ \A f \in pending : merged[j].end <= f.at /\ (f.kind = Begin => merged[j].end < f.at)
       /\ \A k \in DOMAIN merged : j < k => merged[j].end < merged[k].start

\* A stretch without a hole, and a stretch whose holes are all bridged.
Solid(b) ==
  /\ b.start <= b.end /\ b.gaps = 0 /\ b.bridged = 0
  /\ Within(b) \subseteq Cov
  /\ b.devices = Seen(b)

Linked(b) ==
  /\ b.start <= b.end
  /\ 2 * b.start \in Cov /\ 2 * b.end \in Cov
  /\ \A p \in Cov : 2 * b.start <= p /\ p < 2 * b.end => Cov \cap (p + 1 .. p + Reach) # {}
  /\ \A p \in Cov : 2 * b.start < p /\ p <= 2 * b.end => Cov \cap (p - Reach .. p - 1) # {}
  /\ Accounted(b)

Apart(a, b) == a.end + GapBridge < b.start

BridgeRight ==
  /\ cur = Nothing => merged = <<>> /\ out = <<>>
  /\ cur # Nothing => cur \in Interval /\ Linked(cur)
  /\ \A j \in DOMAIN merged :
       /\ Solid(merged[j])
       /\ cur.end < merged[j].start
       /\ \A k \in DOMAIN merged : j < k => merged[j].end < merged[k].start
  /\ \A j \in DOMAIN out :
       /\ Linked(out[j]) /\ Apart(out[j], cur)
       /\ \A k \in DOMAIN out : j < k => Apart(out[j], out[k])
  /\ \A p \in Cov :
       \/ cur # Nothing /\ p \in Within(cur)
       \/ \E j \in DOMAIN merged : p \in Within(merged[j])
       \/ \E j \in DOMAIN out : p \in Within(out[j])

\* Nothing is lost, joined or split that the reference does not.
ResultRight ==
  /\ \A j \in DOMAIN out :
       /\ Linked(out[j])
       /\ \A k \in DOMAIN out : j < k => Apart(out[j], out[k])
  /\ \A p \in Cov : \E j \in DOMAIN out : p \in Within(out[j])
  /\ sessions = { out[i] : i \in { j \in DOMAIN out : Counts(out[j]) } }

IInv ==
  /\ TypeOK
  /\ \A m \in Devices : InOrder(log[m])
  /\ AtRest
  /\ IntervalsRight
  /\ pc = "sweep" => SweepRight
  /\ pc = "bridge" => BridgeRight
  /\ pc = "done" => ResultRight

=============================================================================
