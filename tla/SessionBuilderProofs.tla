------------------------- MODULE SessionBuilderProofs -------------------------
(***************************************************************************)
(* Theorems about SessionBuilder, for any devices, dates, lengths of a     *)
(* day, a buffer, a bridge and a session, and a log of any length.         *)
(***************************************************************************)
EXTENDS SessionBuilder, SequenceTheorems, FiniteSetTheorems, NaturalsInduction,
        WellFoundedInduction, TLAPS

-----------------------------------------------------------------------------
(***************************************************************************)
(* Numbers, sets of them, and sequences in order.                          *)
(***************************************************************************)
LEMMA Numbers ==
  /\ Devices \subseteq Nat /\ Targets \subseteq Nat /\ DayLength \in Nat \ {0}
  /\ Buffer \in Nat /\ GapBridge \in Nat /\ MinSession \in Nat /\ Horizon \in Nat
  /\ Time \subseteq Nat /\ NoTime \notin Time /\ NoTime = -1
  /\ \A t \in Time : 2 * t \in Instants
  /\ Instants \subseteq Nat
  /\ \A t \in Time : t <= Horizon
  /\ Reach \in Nat /\ Reach >= 1 /\ Reach >= 2 * GapBridge /\ Reach < 2 * GapBridge + 2
  BY BuilderAssumption DEF Time, NoTime, Instants, Reach

\* A nonempty set of numbers has a least, and a bounded one a greatest.
LEMMA Least ==
  ASSUME NEW S \in SUBSET Nat, S # {}
  PROVE  \E x \in S : \A y \in S : x <= y
  <1>1. IsWellFoundedOn(OpToRel(<, Nat), Nat)
    BY NatLessThanWellFounded
  <1>2. PICK x \in S : \A y \in S : ~(<<y, x>> \in OpToRel(<, Nat))
    BY <1>1, WFMin
  <1>3. \A y \in S : ~(y < x)
    BY <1>2 DEF OpToRel
  <1>. QED
    BY <1>3

LEMMA Greatest ==
  ASSUME NEW S \in SUBSET Nat, S # {}, NEW b \in Nat, \A y \in S : y <= b
  PROVE  \E x \in S : \A y \in S : y <= x
  <1>. DEFINE T == { b - y : y \in S }
  <1>1. T \in SUBSET Nat /\ T # {}
    <2>1. \A y \in S : y \in Nat /\ b - y \in Nat
      OBVIOUS
    <2>. QED
      BY <2>1
  <1>2. PICK z \in T : \A w \in T : z <= w
    BY <1>1, Least
  <1>3. PICK x \in S : z = b - x
    OBVIOUS
  <1>4. ASSUME NEW y \in S PROVE y <= x
    <2>1. z <= b - y
      BY <1>2
    <2>. QED
      BY <1>3, <2>1
  <1>. QED
    BY <1>4

\* The times of a date are those between its two midnights.
LEMMA Dates ==
  ASSUME NEW t \in Nat, NEW d \in Nat
  PROVE  /\ Lower(d) \in Int /\ Upper(d) \in Int
         /\ Lower(d) + Buffer \in Nat /\ Lower(d) <= Upper(d)
         /\ DateOf(t) = d => Lower(d) + Buffer <= t /\ t < Upper(d) - Buffer
  <1>1. d * DayLength \in Nat /\ (d + 1) * DayLength \in Nat
        /\ (d + 1) * DayLength = d * DayLength + DayLength
    BY Numbers
  <1>2. Lower(d) = d * DayLength - Buffer /\ Upper(d) = (d + 1) * DayLength + Buffer
    BY DEF Lower, Upper
  <1>3. ASSUME t \div DayLength = d
        PROVE  d * DayLength <= t /\ t < d * DayLength + DayLength
    BY <1>3, Numbers
  <1>. QED
    BY <1>1, <1>2, <1>3, Numbers DEF DateOf

LEMMA Halves ==
  ASSUME NEW t \in Nat
  PROVE  (2 * t) \div 2 = t
  OBVIOUS

LEMMA RowsAre ==
  ASSUME NEW seq \in Seq(Row)
  PROVE  /\ Len(seq) \in Nat /\ DOMAIN seq = 1 .. Len(seq)
         /\ \A i \in 1 .. Len(seq) : /\ seq[i] \in Row
                                      /\ seq[i].at \in Time /\ seq[i].at \in Nat
                                      /\ seq[i].connected \in BOOLEAN
  <1>1. Len(seq) \in Nat /\ DOMAIN seq = 1 .. Len(seq)
    BY LenProperties
  <1>2. \A i \in 1 .. Len(seq) : seq[i] \in Row
    BY ElementOfSeq
  <1>3. \A r \in Row : r.at \in Time /\ r.at \in Nat /\ r.connected \in BOOLEAN
    BY Numbers DEF Row
  <1>. QED
    BY <1>1, <1>2, <1>3

\* In an ordered sequence the rows up to a time come first.
LEMMA UpToSplits ==
  ASSUME NEW seq \in Seq(Row), InOrder(seq), NEW t \in Int
  PROVE  /\ UpTo(seq, t) \in 0 .. Len(seq)
         /\ \A i \in 1 .. Len(seq) : seq[i].at <= t <=> i <= UpTo(seq, t)
  <1>. DEFINE S == { i \in DOMAIN seq : seq[i].at <= t }
  <1>1. Len(seq) \in Nat /\ DOMAIN seq = 1 .. Len(seq)
        /\ \A i \in 1 .. Len(seq) : seq[i] \in Row /\ seq[i].at \in Nat
    BY RowsAre
  <1>0. UpTo(seq, t) = Cardinality(S)
    BY DEF UpTo
  <1>. HIDE DEF S
  <1>2. CASE S = {}
    <2>1. Cardinality(S) = 0
      BY <1>2, FS_EmptySet
    <2>. QED
      <3>1. \A i \in 1 .. Len(seq) : ~(seq[i].at <= t)
        BY <1>1, <1>2 DEF S
      <3>. QED
        BY <1>0, <1>1, <2>1, <3>1
  <1>3. CASE S # {}
    <2>1. S \in SUBSET Nat /\ \A i \in S : i <= Len(seq)
      BY <1>1 DEF S
    <2>2. PICK k \in S : \A i \in S : i <= k
      BY <1>1, <1>3, <2>1, Greatest
    <2>3. k \in 1 .. Len(seq) /\ seq[k].at <= t
      BY <1>1 DEF S
    <2>4. ASSUME NEW i \in 1 .. Len(seq) PROVE seq[i].at <= t <=> i <= k
      <3>1. i <= k => seq[i].at <= seq[k].at
        BY <1>1, <2>3 DEF InOrder
      <3>2. seq[i].at \in Int /\ seq[k].at \in Int
        BY <1>1, <2>3
      <3>3. seq[i].at <= t => i \in S
        BY <1>1 DEF S
      <3>. QED
        BY <2>2, <2>3, <3>1, <3>2, <3>3
    <2>5. S = 1 .. k
      BY <1>1, <2>3, <2>4 DEF S
    <2>6. Cardinality(S) = k
      BY <2>3, <2>5, FS_Interval
    <2>. QED
      BY <1>0, <1>1, <2>3, <2>4, <2>6
  <1>. QED
    BY <1>2, <1>3

-----------------------------------------------------------------------------
(***************************************************************************)
(* What is loaded, and what rows cover.                                    *)
(***************************************************************************)

\* seq is the part of a device's log between the bounds of date d, the row after
\* the a-th being its first.
PartOf(seq, all, a, d) ==
  /\ a \in Nat /\ seq \in Seq(Row) /\ InOrder(seq)
  /\ \A i \in 1 .. Len(seq) :
       /\ a + i \in 1 .. Len(all) /\ seq[i] = all[a + i]
       /\ Lower(d) <= seq[i].at /\ seq[i].at <= Upper(d)
  /\ \A j \in 1 .. Len(all) :
       Lower(d) <= all[j].at /\ all[j].at <= Upper(d) =>
         j - a \in 1 .. Len(seq) /\ seq[j - a] = all[j]

\* The rows loaded for a date are those of the log between the bounds, in order.
LEMMA LoadedRows ==
  ASSUME log \in [Devices -> Seq(Row)], NEW m \in Devices, InOrder(log[m]),
         NEW d \in Nat, NEW a, a = UpTo(log[m], Lower(d) - 1),
         NEW seq, seq = Loaded(d)[m]
  PROVE  PartOf(seq, log[m], a, d)
  <1>. DEFINE all == log[m]
              b == UpTo(log[m], Upper(d))
  <1>1. all \in Seq(Row) /\ Lower(d) \in Int /\ Upper(d) \in Int /\ Lower(d) <= Upper(d)
    BY Numbers, Dates
  <1>2. /\ Len(all) \in Nat
        /\ \A i \in 1 .. Len(all) : all[i] \in Row /\ all[i].at \in Nat
    BY <1>1, RowsAre
  <1>3. /\ a \in 0 .. Len(all) /\ b \in 0 .. Len(all)
        /\ \A i \in 1 .. Len(all) : all[i].at <= Lower(d) - 1 <=> i <= a
        /\ \A i \in 1 .. Len(all) : all[i].at <= Upper(d) <=> i <= b
    <2>1. Lower(d) - 1 \in Int
      BY <1>1
    <2>2. /\ a \in 0 .. Len(all)
          /\ \A i \in 1 .. Len(all) : all[i].at <= Lower(d) - 1 <=> i <= a
      BY <1>1, <2>1, UpToSplits
    <2>3. /\ b \in 0 .. Len(all)
          /\ \A i \in 1 .. Len(all) : all[i].at <= Upper(d) <=> i <= b
      BY <1>1, UpToSplits
    <2>. QED
      BY <2>2, <2>3
  <1>4. seq = SubSeq(all, a + 1, b)
    BY DEF Loaded
  <1>. HIDE DEF all, b
  <1>5. a <= b
    <2>1. CASE a = 0
      BY <1>3, <2>1
    <2>2. CASE a # 0
      <3>1. a \in 1 .. Len(all) /\ all[a].at \in Int
        BY <1>2, <1>3, <2>2
      <3>2. all[a].at <= Upper(d)
        BY <1>1, <1>3, <3>1
      <3>. QED
        BY <1>3, <3>1, <3>2
    <2>. QED
      BY <2>1, <2>2
  <1>6. \A i \in a + 1 .. b : all[i] \in Row
    BY <1>2, <1>3
  <1>7. /\ seq \in Seq(Row)
        /\ Len(seq) = IF a + 1 <= b THEN b - (a + 1) + 1 ELSE 0
        /\ \A i \in 1 .. b - (a + 1) + 1 : seq[i] = all[a + 1 + i - 1]
    BY <1>3, <1>4, <1>6, SubSeqProperties, SMTT(30)
  <1>8. Len(seq) = b - a /\ \A i \in 1 .. b - a : seq[i] = all[a + i]
    <2>1. a \in Int /\ b \in Int /\ b - (a + 1) + 1 = b - a
      BY <1>3
    <2>2. Len(seq) = b - a
      BY <1>5, <1>7, <2>1
    <2>3. ASSUME NEW i \in 1 .. b - a PROVE seq[i] = all[a + i]
      <3>1. i \in 1 .. b - (a + 1) + 1 /\ a + 1 + i - 1 = a + i
        BY <2>1, <2>3
      <3>. QED
        BY <1>7, <3>1
    <2>. QED
      BY <2>2, <2>3
  <1>9. \A i \in 1 .. Len(seq) :
          /\ a + i \in 1 .. Len(all) /\ seq[i] = all[a + i]
          /\ Lower(d) <= seq[i].at /\ seq[i].at <= Upper(d)
    <2>. TAKE i \in 1 .. Len(seq)
    <2>0. /\ i \in Nat \ {0} /\ i <= b - a /\ a \in Nat /\ b \in Nat /\ b <= Len(all)
          /\ i \in 1 .. b - a
      BY <1>2, <1>3, <1>8
    <2>1. a + i \in 1 .. Len(all) /\ a + i <= b /\ ~(a + i <= a) /\ seq[i] = all[a + i]
      <3>1. a + i \in 1 .. Len(all) /\ a + i <= b /\ ~(a + i <= a)
        BY <1>2, <2>0
      <3>2. seq[i] = all[a + i]
        BY <1>8, <2>0
      <3>. QED
        BY <3>1, <3>2
    <2>2. all[a + i].at \in Int
      BY <1>2, <2>1
    <2>. QED
      BY <1>1, <1>3, <2>1, <2>2
  <1>10. ASSUME NEW j \in 1 .. Len(all), Lower(d) <= all[j].at, all[j].at <= Upper(d)
         PROVE  j - a \in 1 .. Len(seq) /\ seq[j - a] = all[j]
    <2>1. all[j].at \in Int
      BY <1>2
    <2>2. ~(j <= a) /\ j <= b
      BY <1>1, <1>3, <1>10, <2>1
    <2>3. j - a \in 1 .. b - a /\ a + (j - a) = j
      BY <1>2, <1>3, <2>2
    <2>. QED
      BY <1>8, <2>3
  <1>11. InOrder(seq)
    <2>1. DOMAIN seq = 1 .. Len(seq) /\ DOMAIN all = 1 .. Len(all)
      BY <1>1, <1>7, RowsAre
    <2>2. ASSUME NEW i \in DOMAIN seq, NEW j \in DOMAIN seq, i <= j
          PROVE  seq[i].at <= seq[j].at
      <3>1. a + i \in DOMAIN all /\ a + j \in DOMAIN all /\ a + i <= a + j
        BY <1>3, <1>8, <1>9, <2>1, <2>2
      <3>2. all[a + i].at <= all[a + j].at
        BY <3>1 DEF InOrder, all
      <3>. QED
        BY <1>9, <2>1, <3>2
    <2>. QED
      BY <2>2 DEF InOrder
  <1>. QED
    <2>1. a \in Nat /\ seq \in Seq(Row)
      BY <1>3, <1>7
    <2>. QED
      BY <2>1, <1>9, <1>10, <1>11 DEF PartOf, all

\* What one more row covers.
LEMMA CoverNext ==
  ASSUME NEW seq \in Seq(Row), NEW k \in Nat, k < Len(seq)
  PROVE  CoveredByFirst(k + 1, seq) =
           CoveredByFirst(k, seq)
           \cup { p \in Instants : seq[k + 1].connected /\ p = 2 * seq[k + 1].at }
           \cup { p \in Instants : /\ k > 0 /\ seq[k].connected
                                   /\ 2 * seq[k].at <= p /\ p <= 2 * seq[k + 1].at }
  <1>1. \A p : p \in CoveredByFirst(k + 1, seq) <=>
          \/ p \in CoveredByFirst(k, seq)
          \/ p \in Instants /\ seq[k + 1].connected /\ p = 2 * seq[k + 1].at
          \/ /\ p \in Instants /\ k > 0 /\ seq[k].connected
             /\ 2 * seq[k].at <= p /\ p <= 2 * seq[k + 1].at
    <2>. SUFFICES ASSUME NEW p \in Instants
                  PROVE  p \in CoveredByFirst(k + 1, seq) <=>
                           \/ p \in CoveredByFirst(k, seq)
                           \/ seq[k + 1].connected /\ p = 2 * seq[k + 1].at
                           \/ /\ k > 0 /\ seq[k].connected
                              /\ 2 * seq[k].at <= p /\ p <= 2 * seq[k + 1].at
      BY DEF CoveredByFirst
    <2>1. p \in Nat
      BY Numbers
    <2>2. \A i \in 1 .. k + 1 : seq[i].at \in Nat
      BY RowsAre
    <2>3. ASSUME p \in CoveredByFirst(k + 1, seq)
          PROVE  \/ p \in CoveredByFirst(k, seq)
                 \/ seq[k + 1].connected /\ p = 2 * seq[k + 1].at
                 \/ /\ k > 0 /\ seq[k].connected
                    /\ 2 * seq[k].at <= p /\ p <= 2 * seq[k + 1].at
      <3>1. PICK i \in 1 .. k + 1 :
              /\ seq[i].connected /\ 2 * seq[i].at <= p
              /\ p = 2 * seq[i].at \/ (i < k + 1 /\ p <= 2 * seq[i + 1].at)
        BY <2>3 DEF CoveredByFirst
      <3>2. CASE i = k + 1
        BY <3>1, <3>2
      <3>3. CASE i = k /\ p # 2 * seq[i].at
        BY <3>1, <3>3
      <3>4. CASE i \in 1 .. k /\ (i < k \/ p = 2 * seq[i].at)
        BY <2>1, <3>1, <3>4 DEF CoveredByFirst
      <3>. QED
        BY <3>1, <3>2, <3>3, <3>4
    <2>4. ASSUME p \in CoveredByFirst(k, seq) PROVE p \in CoveredByFirst(k + 1, seq)
      <3>1. PICK i \in 1 .. k :
              /\ seq[i].connected /\ 2 * seq[i].at <= p
              /\ p = 2 * seq[i].at \/ (i < k /\ p <= 2 * seq[i + 1].at)
        BY <2>4 DEF CoveredByFirst
      <3>2. i \in 1 .. k + 1 /\ (i < k => i < k + 1)
        BY <3>1
      <3>. QED
        BY <3>1, <3>2 DEF CoveredByFirst
    <2>5. ASSUME seq[k + 1].connected, p = 2 * seq[k + 1].at PROVE p \in CoveredByFirst(k + 1, seq)
      <3>1. k + 1 \in 1 .. k + 1 /\ 2 * seq[k + 1].at <= p
        BY <2>1, <2>5
      <3>. QED
        BY <2>5, <3>1 DEF CoveredByFirst
    <2>6. ASSUME k > 0, seq[k].connected, 2 * seq[k].at <= p, p <= 2 * seq[k + 1].at
          PROVE  p \in CoveredByFirst(k + 1, seq)
      <3>1. k \in 1 .. k + 1 /\ k < k + 1
        BY <2>6
      <3>. QED
        BY <2>6, <3>1 DEF CoveredByFirst
    <2>. QED
      BY <2>3, <2>4, <2>5, <2>6
  <1>. QED
    BY <1>1

\* What one more interval adds.
LEMMA FoundNext ==
  ASSUME intervals \in Seq(Interval), NEW v \in Interval,
         intervals' = Append(intervals, v), NEW m
  PROVE  Found(m)' = Found(m) \cup { p \in Instants : m \in v.devices /\ p \in Within(v) }
  <1>1. /\ Len(intervals) \in Nat /\ DOMAIN intervals = 1 .. Len(intervals)
        /\ DOMAIN intervals' = 1 .. Len(intervals) + 1
        /\ \A i \in DOMAIN intervals : intervals'[i] = intervals[i]
        /\ intervals'[Len(intervals) + 1] = v
    <2>1. intervals' \in Seq(Interval) /\ Len(intervals') = Len(intervals) + 1
      BY AppendProperties
    <2>. QED
      BY <2>1, AppendProperties, LenProperties
  <1>2. \A p \in Instants : p \in Found(m)' <=>
          p \in Found(m) \/ (m \in v.devices /\ p \in Within(v))
    <2>. TAKE p \in Instants
    <2>1. p \in Found(m)' <=> \E i \in DOMAIN intervals' :
            m \in intervals'[i].devices /\ p \in Within(intervals'[i])
      BY DEF Found, Within
    <2>2. p \in Found(m) <=> \E i \in DOMAIN intervals :
            m \in intervals[i].devices /\ p \in Within(intervals[i])
      BY DEF Found
    <2>3. ASSUME NEW i \in DOMAIN intervals' PROVE i \in DOMAIN intervals \/ i = Len(intervals) + 1
      BY <1>1
    <2>4. Len(intervals) + 1 \in DOMAIN intervals' /\ DOMAIN intervals \subseteq DOMAIN intervals'
      BY <1>1
    <2>. QED
      BY <1>1, <2>1, <2>2, <2>3, <2>4
  <1>3. Found(m)' \subseteq Instants /\ Found(m) \subseteq Instants
    BY DEF Found
  <1>. QED
    BY <1>2, <1>3

-----------------------------------------------------------------------------
(***************************************************************************)
(* The scan: no step of it loses an instant.                               *)
(***************************************************************************)

\* While a date is being built, what its rows show does not change.
LEMMA SameView ==
  ASSUME UNCHANGED <<log, target>>
  PROVE  /\ Loaded(target)' = Loaded(target) /\ Cov' = Cov
         /\ \A b : /\ Seen(b)' = Seen(b) /\ Within(b)' = Within(b)
                   /\ Accounted(b)' <=> Accounted(b)
                   /\ Linked(b)' <=> Linked(b)
                   /\ Solid(b)' <=> Solid(b)
  <1>1. Loaded(target)' = Loaded(target)
    BY DEF Loaded
  <1>2. Cov' = Cov
    BY <1>1 DEF Cov, Covered
  <1>3. ASSUME NEW b PROVE Seen(b)' = Seen(b) /\ Within(b)' = Within(b)
    BY <1>1 DEF Seen, Within
  <1>4. ASSUME NEW b PROVE Accounted(b)' <=> Accounted(b)
    BY <1>2, <1>3 DEF Accounted
  <1>5. ASSUME NEW b PROVE (Linked(b)' <=> Linked(b)) /\ (Solid(b)' <=> Solid(b))
    BY <1>2, <1>3, <1>4 DEF Linked, Solid
  <1>. QED
    BY <1>1, <1>2, <1>3, <1>4, <1>5

LEMMA InView ==
  ASSUME IInv, target \in Targets, NEW m \in Devices
  PROVE  Loaded(target)[m] \in Seq(Row) /\ InOrder(Loaded(target)[m])
  <1>1. target \in Nat /\ log \in [Devices -> Seq(Row)] /\ InOrder(log[m])
    BY Numbers DEF IInv, TypeOK
  <1>2. PartOf(Loaded(target)[m], log[m], UpTo(log[m], Lower(target) - 1), target)
    BY <1>1, LoadedRows
  <1>. QED
    BY <1>2 DEF PartOf

\* What a step of the scan over one row of device m does to rows and devices.
LEMMA ScanRow ==
  ASSUME IInv, NEW m \in Devices, Scanning(m), rows[m] # <<>>,
         rows' = [rows EXCEPT ![m] = Tail(@)],
         UNCHANGED <<log, target, pc, unscanned>>,
         NEW seq, seq = Loaded(target)[m], NEW k, k = Scanned(m)
  PROVE  /\ seq \in Seq(Row) /\ InOrder(seq) /\ k \in Nat /\ k < Len(seq)
         /\ Head(rows[m]) = seq[k + 1]
         /\ Loaded(target)' = Loaded(target)
         /\ Scanned(m)' = k + 1 /\ rows'[m] = SubSeq(seq, k + 2, Len(seq))
         /\ \A n \in Devices : (Scanning(n)' <=> Scanning(n)) /\ (Scanning(n) => n = m)
         /\ \A n \in Devices \ {m} : rows'[n] = rows[n] /\ Scanned(n)' = Scanned(n)
  <1>1. pc = "scan" /\ target \in Targets /\ rows \in [Devices -> Seq(Row)]
        /\ unscanned \subseteq Devices
    BY DEF Scanning, IInv, AtRest, TypeOK
  <1>2. seq \in Seq(Row) /\ InOrder(seq) /\ Len(seq) \in Nat
    BY <1>1, InView, RowsAre
  <1>3. k \in 0 .. Len(seq) /\ rows[m] = SubSeq(seq, k + 1, Len(seq))
    BY <1>1 DEF IInv, IntervalsRight, ScanRight
  <1>4. k \in Nat /\ k < Len(seq)
    <2>1. CASE Len(seq) < k + 1
      BY <1>2, <1>3, <2>1, SubSeqEmpty
    <2>. QED
      BY <1>2, <1>3, <2>1
  <1>5. Head(rows[m]) = seq[k + 1] /\ Tail(rows[m]) = SubSeq(seq, k + 2, Len(seq))
    <2>1. k + 1 \in 1 .. Len(seq) /\ Len(seq) \in k + 1 .. Len(seq) /\ (k + 1) + 1 = k + 2
      BY <1>2, <1>3, <1>4
    <2>2. /\ Head(SubSeq(seq, k + 1, Len(seq))) = seq[k + 1]
          /\ Tail(SubSeq(seq, k + 1, Len(seq))) = SubSeq(seq, (k + 1) + 1, Len(seq))
      BY <1>2, <2>1, HeadTailOfSubSeq
    <2>. QED
      BY <1>3, <2>1, <2>2
  <1>6. rows'[m] = Tail(rows[m]) /\ \A n \in Devices \ {m} : rows'[n] = rows[n]
    BY <1>1
  <1>7. Loaded(target)' = Loaded(target)
    BY SameView
  <1>8. Scanned(m)' = k + 1
    <2>1. rows[m] \in Seq(Row) /\ Len(rows[m]) \in Nat
      BY <1>1, RowsAre
    <2>2. Len(Tail(rows[m])) = Len(rows[m]) - 1
      BY <2>1, HeadTailProperties
    <2>3. k = Len(seq) - Len(rows[m]) /\ Scanned(m)' = Len(seq) - Len(Tail(rows[m]))
      BY <1>6, <1>7 DEF Scanned
    <2>4. \A a, b, c \in Int : c = b - 1 => a - c = (a - b) + 1
      OBVIOUS
    <2>5. Len(seq) - (Len(rows[m]) - 1) = (Len(seq) - Len(rows[m])) + 1
      BY <1>2, <2>1, <2>4
    <2>. QED
      BY <2>2, <2>3, <2>5
  <1>9. \A n \in Devices \ {m} : rows'[n] = rows[n] /\ Scanned(n)' = Scanned(n)
    BY <1>6, <1>7 DEF Scanned
  <1>10. \A n \in Devices : (Scanning(n)' <=> Scanning(n)) /\ (Scanning(n) => n = m)
    BY <1>1, Numbers DEF Scanning
  <1>. QED
    BY <1>2, <1>3, <1>4, <1>5, <1>6, <1>7, <1>8, <1>9, <1>10

\* The other devices are not affected.
LEMMA ScanOthers ==
  ASSUME NEW n, ScanRight(n), ~Scanning(n), ~Scanning(n)',
         Loaded(target)' = Loaded(target), rows'[n] = rows[n],
         n \in unscanned' <=> n \in unscanned, Found(n)' = Found(n)
  PROVE  ScanRight(n)'
  <1>1. Scanned(n)' = Scanned(n)
    BY DEF Scanned
  <1>. QED
    BY <1>1 DEF ScanRight

LEMMA ScanConnectedRight ==
  ASSUME IInv, NEW m \in Devices, ScanConnected(m)
  PROVE  IntervalsRight'
  <1>. DEFINE seq == Loaded(target)[m]
              k   == Scanned(m)
  <1>1. /\ Scanning(m) /\ pc = "scan" /\ rows[m] # <<>>
        /\ Head(rows[m]).connected
        /\ openAt' = IF openAt = NoTime THEN Head(rows[m]).at ELSE openAt
        /\ lastTrue' = Head(rows[m]).at
        /\ rows' = [rows EXCEPT ![m] = Tail(@)]
        /\ UNCHANGED <<log, target, pc, unscanned, intervals>>
    BY DEF ScanConnected, Scanning
  <1>2. ScanRight(m) /\ \A n \in Devices : ScanRight(n)
    BY <1>1 DEF IInv, IntervalsRight
  <1>3. /\ seq \in Seq(Row) /\ InOrder(seq) /\ k \in Nat /\ k < Len(seq)
        /\ Head(rows[m]) = seq[k + 1]
        /\ Loaded(target)' = Loaded(target)
        /\ Scanned(m)' = k + 1 /\ rows'[m] = SubSeq(seq, k + 2, Len(seq))
        /\ \A n \in Devices : (Scanning(n)' <=> Scanning(n)) /\ (Scanning(n) => n = m)
        /\ \A n \in Devices \ {m} : rows'[n] = rows[n]
    BY <1>1, ScanRow
  <1>4. \A n \in Devices : Found(n)' = Found(n)
    BY <1>1 DEF Found, Within
  <1>5. \A n \in Devices \ {m} : ScanRight(n)'
    BY <1>1, <1>2, <1>3, <1>4, ScanOthers
  <1>6. /\ openAt # NoTime <=> k > 0 /\ seq[k].connected
        /\ openAt # NoTime => openAt <= lastTrue /\ lastTrue = seq[k].at
        /\ CoveredByFirst(k, seq) = Found(m) \cup OpenPart
    BY <1>1, <1>2 DEF ScanRight
  <1>7. /\ seq[k + 1].at \in Time /\ seq[k + 1].at \in Nat
        /\ k > 0 => seq[k].at \in Nat /\ seq[k].at <= seq[k + 1].at
        /\ openAt \in Time \cup {NoTime} /\ Len(seq) \in Nat
    <2>1. k + 1 \in 1 .. Len(seq) /\ (k > 0 => k \in 1 .. Len(seq)) /\ k <= k + 1
          /\ Len(seq) \in Nat
      BY <1>3, RowsAre
    <2>2. DOMAIN seq = 1 .. Len(seq) /\ \A i \in 1 .. Len(seq) : seq[i].at \in Time /\ seq[i].at \in Nat
      BY <1>3, RowsAre
    <2>. QED
      BY <1>3, <2>1, <2>2 DEF InOrder, IInv, TypeOK
  <1>. HIDE DEF seq, k
  <1>8. openAt' # NoTime /\ openAt' <= lastTrue' /\ lastTrue' = seq[k + 1].at
    <2>1. CASE openAt = NoTime
      BY <1>1, <1>3, <1>7, <2>1, Numbers
    <2>2. CASE openAt # NoTime
      <3>1. openAt \in Nat /\ openAt' = openAt /\ openAt <= seq[k].at /\ k > 0
        BY <1>1, <1>6, <1>7, <2>2, Numbers
      <3>. QED
        BY <1>1, <1>3, <1>7, <2>2, <3>1, SMTT(30)
    <2>. QED
      BY <2>1, <2>2
  <1>9. CoveredByFirst(k + 1, seq) = Found(m)' \cup OpenPart'
    <2>1. \A p \in Instants : p \in CoveredByFirst(k + 1, seq) <=>
            \/ p \in Found(m) \/ p \in OpenPart
            \/ p = 2 * seq[k + 1].at
            \/ k > 0 /\ seq[k].connected /\ 2 * seq[k].at <= p /\ p <= 2 * seq[k + 1].at
      BY <1>1, <1>3, <1>6, CoverNext
    <2>2. \A p \in Instants : p \in OpenPart' <=> 2 * openAt' <= p /\ p <= 2 * seq[k + 1].at
      BY <1>8 DEF OpenPart
    <2>3. \A p \in Instants : p \in OpenPart <=> openAt # NoTime /\ 2 * openAt <= p /\ p <= 2 * lastTrue
      BY DEF OpenPart
    <2>4. ASSUME NEW p \in Instants
          PROVE  p \in OpenPart' <=>
                   \/ p \in OpenPart
                   \/ p = 2 * seq[k + 1].at
                   \/ k > 0 /\ seq[k].connected /\ 2 * seq[k].at <= p /\ p <= 2 * seq[k + 1].at
      <3>1. p \in Nat
        BY Numbers
      <3>2. CASE openAt = NoTime
        <4>1. openAt' = seq[k + 1].at
          BY <1>1, <1>3, <3>2
        <4>. QED
          BY <1>6, <1>7, <2>2, <2>3, <3>1, <3>2, <4>1
      <3>3. CASE openAt # NoTime
        <4>1. openAt' = openAt /\ openAt \in Nat /\ k > 0 /\ seq[k].connected
          BY <1>1, <1>6, <1>7, <3>3, Numbers
        <4>2. openAt <= seq[k].at /\ lastTrue = seq[k].at
          BY <1>6, <3>3
        <4>. QED
          BY <1>7, <2>2, <2>3, <3>1, <3>3, <4>1, <4>2
      <3>. QED
        BY <3>2, <3>3
    <2>5. CoveredByFirst(k + 1, seq) \subseteq Instants /\ OpenPart' \subseteq Instants
          /\ Found(m) \subseteq Instants
      BY DEF CoveredByFirst, OpenPart, Found
    <2>6. Found(m)' = Found(m)
      BY <1>4
    <2>. QED
      BY <2>1, <2>4, <2>5, <2>6
  <1>10. ScanRight(m)'
    <2>1. k + 1 \in 0 .. Len(seq) /\ k + 1 > 0 /\ k + 1 + 1 = k + 2
      BY <1>3, <1>7
    <2>2. Loaded(target)'[m] = seq /\ Scanned(m)' = k + 1
      BY <1>3 DEF seq, k
    <2>3. Scanning(m)' /\ m \in unscanned' /\ seq[k + 1].connected
      BY <1>1, <1>3 DEF Scanning
    <2>4. rows'[m] = SubSeq(seq, k + 1 + 1, Len(seq))
      BY <1>3, <2>1
    <2>. QED
      BY <1>8, <1>9, <2>1, <2>2, <2>3, <2>4 DEF ScanRight
  <1>11. \A i \in DOMAIN intervals' : PlainInterval(intervals'[i])
    BY <1>1 DEF IInv, IntervalsRight
  <1>. QED
    BY <1>1, <1>5, <1>10, <1>11 DEF IntervalsRight, PlainInterval

\* What closing the interval being scanned does to what was found.
LEMMA CloseInterval ==
  ASSUME IInv, NEW m \in Devices, NEW t \in Time, openAt # NoTime => openAt <= t,
         intervals' = Closed(m, t)
  PROVE  /\ intervals' \in Seq(Interval)
         /\ \A i \in DOMAIN intervals' : PlainInterval(intervals'[i])
         /\ \A n \in Devices \ {m} : Found(n)' = Found(n)
         /\ \A p : p \in Found(m)' <=>
              \/ p \in Found(m)
              \/ p \in Instants /\ openAt # NoTime /\ 2 * openAt <= p /\ p <= 2 * t
  <1>. DEFINE v == Of(m, openAt, t)
  <1>1. /\ intervals \in Seq(Interval)
        /\ \A i \in DOMAIN intervals : PlainInterval(intervals[i])
        /\ openAt \in Time \cup {NoTime}
    BY DEF IInv, TypeOK, IntervalsRight
  <1>2. CASE openAt = NoTime
    <2>1. intervals' = intervals
      BY <1>2 DEF Closed
    <2>2. \A n : Found(n)' = Found(n)
      BY <2>1 DEF Found, Within
    <2>. QED
      BY <1>1, <1>2, <2>1, <2>2
  <1>3. CASE openAt # NoTime
    <2>1. openAt \in Time /\ openAt \in Nat /\ t \in Nat
      BY <1>1, <1>3, Numbers
    <2>2. v \in Interval
      BY <2>1, Numbers DEF Of, Interval
    <2>3. PlainInterval(v)
      BY <1>3 DEF Of, PlainInterval
    <2>4. intervals' = Append(intervals, v)
      BY <1>3 DEF Closed
    <2>5. /\ intervals' \in Seq(Interval) /\ Len(intervals') = Len(intervals) + 1
          /\ \A i \in 1 .. Len(intervals) : intervals'[i] = intervals[i]
          /\ intervals'[Len(intervals) + 1] = v
      BY <1>1, <2>2, <2>4, AppendProperties
    <2>6. DOMAIN intervals' = 1 .. Len(intervals') /\ DOMAIN intervals = 1 .. Len(intervals)
          /\ Len(intervals) \in Nat
      BY <1>1, <2>5, LenProperties
    <2>7. ASSUME NEW i \in DOMAIN intervals' PROVE PlainInterval(intervals'[i])
      <3>1. i \in 1 .. Len(intervals) \/ i = Len(intervals) + 1
        BY <2>5, <2>6
      <3>. QED
        BY <1>1, <2>3, <2>5, <2>6, <3>1
    <2>8. \A n : Found(n)' = Found(n) \cup { p \in Instants : n \in v.devices /\ p \in Within(v) }
      BY <1>1, <2>2, <2>4, FoundNext
    <2>9. v.devices = {m} /\ v.start = openAt /\ v.end = t
      BY DEF Of
    <2>10. ASSUME NEW p \in Instants PROVE p \in Within(v) <=> 2 * openAt <= p /\ p <= 2 * t
      <3>1. p \in Nat
        BY Numbers
      <3>. QED
        BY <2>1, <2>9, <3>1 DEF Within
    <2>11. \A n \in Devices \ {m} : Found(n)' = Found(n)
      BY <2>8, <2>9
    <2>12. \A p : p \in Found(m)' <=>
             \/ p \in Found(m)
             \/ p \in Instants /\ openAt # NoTime /\ 2 * openAt <= p /\ p <= 2 * t
      BY <1>3, <2>8, <2>9, <2>10
    <2>. QED
      BY <2>5, <2>7, <2>11, <2>12
  <1>. QED
    BY <1>2, <1>3

LEMMA ScanDisconnectedRight ==
  ASSUME IInv, NEW m \in Devices, ScanDisconnected(m)
  PROVE  IntervalsRight' /\ intervals' \in Seq(Interval)
  <1>. DEFINE seq == Loaded(target)[m]
              k   == Scanned(m)
  <1>1. /\ Scanning(m) /\ pc = "scan" /\ rows[m] # <<>>
        /\ ~Head(rows[m]).connected
        /\ intervals' = Closed(m, Head(rows[m]).at)
        /\ openAt' = NoTime
        /\ rows' = [rows EXCEPT ![m] = Tail(@)]
        /\ UNCHANGED <<log, target, pc, unscanned>>
    BY DEF ScanDisconnected, Scanning
  <1>2. ScanRight(m) /\ \A n \in Devices : ScanRight(n)
    BY <1>1 DEF IInv, IntervalsRight
  <1>3. /\ seq \in Seq(Row) /\ InOrder(seq) /\ k \in Nat /\ k < Len(seq)
        /\ Head(rows[m]) = seq[k + 1]
        /\ Loaded(target)' = Loaded(target)
        /\ Scanned(m)' = k + 1 /\ rows'[m] = SubSeq(seq, k + 2, Len(seq))
        /\ \A n \in Devices : (Scanning(n)' <=> Scanning(n)) /\ (Scanning(n) => n = m)
        /\ \A n \in Devices \ {m} : rows'[n] = rows[n]
    BY <1>1, ScanRow
  <1>4. /\ openAt # NoTime <=> k > 0 /\ seq[k].connected
        /\ openAt # NoTime => openAt <= lastTrue /\ lastTrue = seq[k].at
        /\ CoveredByFirst(k, seq) = Found(m) \cup OpenPart
    BY <1>1, <1>2 DEF ScanRight
  <1>5. /\ seq[k + 1].at \in Time /\ seq[k + 1].at \in Nat
        /\ k > 0 => seq[k].at \in Nat /\ seq[k].at <= seq[k + 1].at
        /\ openAt \in Time \cup {NoTime} /\ Len(seq) \in Nat
    <2>1. k + 1 \in 1 .. Len(seq) /\ (k > 0 => k \in 1 .. Len(seq)) /\ k <= k + 1
          /\ Len(seq) \in Nat
      BY <1>3, RowsAre
    <2>2. DOMAIN seq = 1 .. Len(seq) /\ \A i \in 1 .. Len(seq) : seq[i].at \in Time /\ seq[i].at \in Nat
      BY <1>3, RowsAre
    <2>. QED
      BY <1>3, <2>1, <2>2 DEF InOrder, IInv, TypeOK
  <1>. HIDE DEF seq, k
  <1>6. openAt # NoTime => openAt \in Nat /\ openAt <= seq[k].at /\ openAt <= seq[k + 1].at
    <2>1. openAt # NoTime => openAt \in Nat
      BY <1>5, Numbers
    <2>2. openAt # NoTime => k > 0 /\ openAt <= seq[k].at
      BY <1>4
    <2>. QED
      BY <1>5, <2>1, <2>2
  <1>7. /\ intervals' \in Seq(Interval)
        /\ \A i \in DOMAIN intervals' : PlainInterval(intervals'[i])
        /\ \A n \in Devices \ {m} : Found(n)' = Found(n)
        /\ \A p : p \in Found(m)' <=>
             \/ p \in Found(m)
             \/ p \in Instants /\ openAt # NoTime /\ 2 * openAt <= p /\ p <= 2 * seq[k + 1].at
    BY <1>1, <1>3, <1>5, <1>6, CloseInterval
  <1>8. \A n \in Devices \ {m} : ScanRight(n)'
    BY <1>1, <1>2, <1>3, <1>7, ScanOthers
  <1>9. \A p : p \in CoveredByFirst(k + 1, seq) <=> p \in Found(m)'
    <2>1. \A p : p \in CoveredByFirst(k + 1, seq) <=>
            \/ p \in Found(m) \/ p \in OpenPart
            \/ /\ p \in Instants /\ k > 0 /\ seq[k].connected
               /\ 2 * seq[k].at <= p /\ p <= 2 * seq[k + 1].at
      BY <1>1, <1>3, <1>4, CoverNext
    <2>2. \A p : p \in OpenPart <=>
            p \in Instants /\ openAt # NoTime /\ 2 * openAt <= p /\ p <= 2 * lastTrue
      BY DEF OpenPart
    <2>3. CASE openAt = NoTime
      BY <1>4, <1>7, <2>1, <2>2, <2>3
    <2>4. CASE openAt # NoTime
      <3>1. openAt \in Nat /\ k > 0 /\ seq[k].connected /\ seq[k].at \in Nat
            /\ lastTrue = seq[k].at /\ openAt <= seq[k].at /\ seq[k].at <= seq[k + 1].at
        BY <1>4, <1>5, <1>6, <2>4
      <3>2. ASSUME NEW p \in Instants
            PROVE  2 * openAt <= p /\ p <= 2 * seq[k + 1].at <=>
                     \/ 2 * openAt <= p /\ p <= 2 * lastTrue
                     \/ 2 * seq[k].at <= p /\ p <= 2 * seq[k + 1].at
        <4>1. p \in Nat
          BY Numbers
        <4>. QED
          BY <1>5, <3>1, <4>1
      <3>. QED
        BY <1>7, <2>1, <2>2, <2>4, <3>1, <3>2
    <2>. QED
      BY <2>3, <2>4
  <1>10. ScanRight(m)'
    <2>1. k + 1 \in 0 .. Len(seq) /\ k + 1 > 0 /\ k + 1 + 1 = k + 2
      BY <1>3, <1>5
    <2>2. Loaded(target)'[m] = seq /\ Scanned(m)' = k + 1
      BY <1>3 DEF seq, k
    <2>3. Scanning(m)' /\ m \in unscanned' /\ ~seq[k + 1].connected /\ openAt' = NoTime
      BY <1>1, <1>3 DEF Scanning
    <2>4. rows'[m] = SubSeq(seq, k + 1 + 1, Len(seq))
      BY <1>3, <2>1
    <2>5. OpenPart' = {} /\ CoveredByFirst(k + 1, seq) = Found(m)'
      BY <1>9, <2>3 DEF OpenPart
    <2>. QED
      BY <2>1, <2>2, <2>3, <2>4, <2>5 DEF ScanRight
  <1>. QED
    BY <1>1, <1>7, <1>8, <1>10 DEF IntervalsRight, PlainInterval

LEMMA ScanEndRight ==
  ASSUME IInv, NEW m \in Devices, ScanEnd(m)
  PROVE  IntervalsRight' /\ intervals' \in Seq(Interval)
  <1>. DEFINE seq == Loaded(target)[m]
              k   == Scanned(m)
  <1>1. /\ Scanning(m) /\ pc = "scan" /\ rows[m] = <<>> /\ m \in unscanned
        /\ intervals' = Closed(m, lastTrue)
        /\ openAt' = NoTime
        /\ unscanned' = unscanned \ {m}
        /\ UNCHANGED <<log, target, pc, rows>>
    BY DEF ScanEnd, Scanning
  <1>2. ScanRight(m) /\ (\A n \in Devices : ScanRight(n))
        /\ target \in Targets /\ unscanned \subseteq Devices
    BY <1>1 DEF IInv, IntervalsRight, TypeOK, AtRest
  <1>3. seq \in Seq(Row) /\ Len(seq) \in Nat
    BY <1>2, InView, RowsAre
  <1>4. k = Len(seq)
    <2>1. Len(rows[m]) = 0
      BY <1>1, EmptySeq
    <2>. QED
      BY <1>3, <2>1 DEF Scanned
  <1>5. Loaded(target)' = Loaded(target)
    BY <1>1, SameView
  <1>6. /\ openAt # NoTime <=> k > 0 /\ seq[k].connected
        /\ openAt # NoTime => openAt <= lastTrue /\ lastTrue = seq[k].at
        /\ CoveredByFirst(k, seq) = Found(m) \cup OpenPart
        /\ k \in 0 .. Len(seq) /\ rows[m] = SubSeq(seq, k + 1, Len(seq))
    BY <1>1, <1>2 DEF ScanRight
  <1>. HIDE DEF seq, k
  <1>7. /\ intervals' \in Seq(Interval)
        /\ \A i \in DOMAIN intervals' : PlainInterval(intervals'[i])
        /\ \A n \in Devices \ {m} : Found(n)' = Found(n)
        /\ \A p : p \in Found(m)' <=> p \in Found(m) \/ p \in OpenPart
    <2>1. CASE openAt = NoTime
      <3>1. intervals' = intervals
        BY <1>1, <2>1 DEF Closed
      <3>2. \A n : Found(n)' = Found(n)
        BY <3>1 DEF Found, Within
      <3>3. OpenPart = {}
        BY <2>1 DEF OpenPart
      <3>. QED
        BY <3>1, <3>2, <3>3 DEF IInv, TypeOK, IntervalsRight
    <2>2. CASE openAt # NoTime
      <3>1. k \in 1 .. Len(seq) /\ lastTrue = seq[k].at /\ openAt <= lastTrue
        BY <1>3, <1>6, <2>2
      <3>2. lastTrue \in Time
        BY <1>3, <3>1, RowsAre
      <3>. QED
        BY <1>1, <3>1, <3>2, CloseInterval DEF OpenPart
    <2>. QED
      BY <2>1, <2>2
  <1>8. OpenPart' = {}
    BY <1>1 DEF OpenPart
  <1>9. ASSUME NEW n \in Devices \ {m} PROVE ScanRight(n)'
    <2>1. ~Scanning(n)
      <3>1. n \in unscanned => m <= n /\ m # n /\ m \in Nat /\ n \in Nat
        BY <1>1, Numbers DEF Scanning
      <3>2. Scanning(n) => n <= m /\ n \in unscanned
        BY <1>1 DEF Scanning
      <3>. QED
        BY <3>1, <3>2
    <2>2. Scanned(n)' = Scanned(n)
      BY <1>1, <1>5 DEF Scanned
    <2>3. n \in unscanned' <=> n \in unscanned
      BY <1>1
    <2>4. Scanning(n)' => n \in unscanned
      BY <2>3 DEF Scanning
    <2>5. /\ Scanned(n) \in 0 .. Len(Loaded(target)[n])
          /\ rows[n] = SubSeq(Loaded(target)[n], Scanned(n) + 1, Len(Loaded(target)[n]))
          /\ n \notin unscanned => Scanned(n) = Len(Loaded(target)[n])
          /\ n \in unscanned => Scanned(n) = 0
          /\ CoveredByFirst(Scanned(n), Loaded(target)[n]) = Found(n)'
      BY <1>2, <1>7, <2>1 DEF ScanRight
    <2>6. rows'[n] = rows[n] /\ openAt' = NoTime /\ ~(Scanned(n) = 0 /\ Scanned(n) > 0)
      BY <1>1
    <2>. QED
      BY <1>5, <1>8, <2>2, <2>3, <2>4, <2>5, <2>6 DEF ScanRight
  <1>10. ScanRight(m)'
    <2>1. Loaded(target)'[m] = seq /\ Scanned(m)' = k
      BY <1>1, <1>5 DEF seq, k, Scanned
    <2>2. ~Scanning(m)' /\ m \notin unscanned'
      BY <1>1 DEF Scanning
    <2>3. CoveredByFirst(k, seq) = Found(m)'
      BY <1>6, <1>7
    <2>. QED
      BY <1>1, <1>4, <1>6, <1>8, <2>1, <2>2, <2>3 DEF ScanRight
  <1>. QED
    BY <1>1, <1>7, <1>9, <1>10 DEF IntervalsRight, PlainInterval

\* The steps around the scan.
LEMMA LoadRight ==
  ASSUME IInv, NEW d \in Targets, Load(d)
  PROVE  IntervalsRight' /\ rows' \in [Devices -> Seq(Row)]
  <1>1. /\ pc = "idle" /\ pc' = "scan" /\ target' = d /\ rows' = Loaded(d)
        /\ unscanned' = Devices /\ UNCHANGED <<log, openAt, lastTrue, intervals>>
        /\ intervals = <<>> /\ openAt = NoTime /\ d \in Nat
        /\ log \in [Devices -> Seq(Row)] /\ \A m \in Devices : InOrder(log[m])
    BY Numbers DEF Load, IInv, AtRest, TypeOK
  <1>2. Loaded(target)' = Loaded(d)
    BY <1>1 DEF Loaded
  <1>3. ASSUME NEW m \in Devices
        PROVE  rows'[m] \in Seq(Row) /\ ScanRight(m)'
    <2>. DEFINE seq == Loaded(d)[m]
    <2>0. PartOf(seq, log[m], UpTo(log[m], Lower(d) - 1), d)
      BY <1>1, LoadedRows
    <2>1. seq \in Seq(Row) /\ rows'[m] = seq /\ Loaded(target)'[m] = seq
      BY <1>1, <1>2, <2>0 DEF PartOf
    <2>. HIDE DEF seq
    <2>2. Len(seq) \in Nat /\ Scanned(m)' = 0
      BY <1>2, <2>1, RowsAre DEF Scanned
    <2>3. SubSeq(seq, 0 + 1, Len(seq)) = seq
      BY <2>1, <2>2, SubSeqFull
    <2>4. CoveredByFirst(0, seq) = {}
      BY DEF CoveredByFirst
    <2>5. Found(m)' = {} /\ OpenPart' = {}
      BY <1>1 DEF Found, OpenPart
    <2>6. m \in unscanned' /\ openAt' = NoTime /\ 0 \in 0 .. Len(seq) /\ ~(0 > 0)
      BY <1>1, <2>2
    <2>. QED
      BY <2>1, <2>2, <2>3, <2>4, <2>5, <2>6 DEF ScanRight
  <1>4. \A i \in DOMAIN intervals' : PlainInterval(intervals'[i])
    BY <1>1
  <1>5. rows' \in [Devices -> Seq(Row)]
    BY <1>1, <1>3 DEF Loaded
  <1>. QED
    BY <1>1, <1>3, <1>4, <1>5 DEF IntervalsRight, PlainInterval

LEMMA IntervalsKept ==
  ASSUME IInv, UNCHANGED <<log, target, intervals>>,
         pc' \in {"sweep", "bridge", "done"},
         pc \in {"sweep", "bridge", "done"} \/ StartSweep
  PROVE  IntervalsRight'
  <1>1. Loaded(target)' = Loaded(target)
    BY SameView
  <1>2. \A m \in Devices : Found(m)' = Found(m)
    BY DEF Found, Within
  <1>3. \A m \in Devices : Found(m) = CoveredBy(Loaded(target)[m])
    <2>1. CASE pc \in {"sweep", "bridge", "done"}
      BY <2>1 DEF IInv, IntervalsRight
    <2>2. CASE StartSweep
      <3>1. pc = "scan" /\ unscanned = {}
        BY <2>2 DEF StartSweep
      <3>2. ASSUME NEW m \in Devices PROVE Found(m) = CoveredBy(Loaded(target)[m])
        <4>1. ScanRight(m) /\ ~Scanning(m) /\ m \notin unscanned
          BY <3>1 DEF IInv, IntervalsRight, Scanning
        <4>. QED
          BY <4>1 DEF ScanRight, CoveredBy
      <3>. QED
        BY <3>2
    <2>. QED
      BY <2>1, <2>2
  <1>4. \A i \in DOMAIN intervals' : PlainInterval(intervals'[i])
    BY DEF IInv, IntervalsRight
  <1>. QED
    BY <1>1, <1>2, <1>3, <1>4 DEF IntervalsRight, PlainInterval

-----------------------------------------------------------------------------
(***************************************************************************)
(* The sweep: what it is inside of reaches to the next endpoint.           *)
(***************************************************************************)
LEMMA IntervalFacts ==
  ASSUME IInv, NEW i \in DOMAIN intervals
  PROVE  /\ i \in Nat /\ i \in Nat \ {0}
         /\ intervals[i].start \in Time /\ intervals[i].start \in Nat
         /\ intervals[i].end \in Time /\ intervals[i].end \in Nat
         /\ intervals[i].start <= intervals[i].end
         /\ intervals[i].devices \in SUBSET Devices
         /\ \E m \in Devices : intervals[i].devices = {m}
  <1>1. intervals \in Seq(Interval)
    BY DEF IInv, TypeOK
  <1>2. i \in 1 .. Len(intervals) /\ Len(intervals) \in Nat
    BY <1>1, LenProperties
  <1>3. intervals[i] \in Interval
    BY <1>1, <1>2, ElementOfSeq
  <1>4. PlainInterval(intervals[i])
    BY DEF IInv, IntervalsRight
  <1>5. /\ intervals[i].start \in Time /\ intervals[i].end \in Time
        /\ intervals[i].devices \in SUBSET Devices
    BY <1>3 DEF Interval
  <1>6. intervals[i].start \in Nat /\ intervals[i].end \in Nat
    BY <1>5, Numbers
  <1>7. intervals[i].start <= intervals[i].end /\ \E m \in Devices : intervals[i].devices = {m}
    BY <1>4 DEF PlainInterval
  <1>. QED
    BY <1>2, <1>5, <1>6, <1>7

LEMMA EventFacts ==
  ASSUME IInv
  PROVE  /\ \A e \in Events :
              /\ e.at \in Time /\ e.at \in Nat /\ e.kind \in {0, 1} /\ e \in Event
              /\ e.of \in DOMAIN intervals /\ e.of \in Nat
              /\ e.kind = Begin => e = BeginOf(e.of) /\ e.at = intervals[e.of].start
              /\ e.kind = End => e = EndOf(e.of) /\ e.at = intervals[e.of].end
         /\ \A i \in DOMAIN intervals :
              /\ BeginOf(i) \in Events /\ EndOf(i) \in Events
              /\ BeginOf(i).kind = 0 /\ EndOf(i).kind = 1
              /\ BeginOf(i).of = i /\ EndOf(i).of = i
              /\ BeginOf(i).at = intervals[i].start /\ EndOf(i).at = intervals[i].end
         /\ Begin = 0 /\ End = 1
  <1>1. ASSUME NEW e \in Events
        PROVE  /\ e.at \in Time /\ e.at \in Nat /\ e.kind \in {0, 1} /\ e \in Event
               /\ e.of \in DOMAIN intervals /\ e.of \in Nat
               /\ e.kind = Begin => e = BeginOf(e.of) /\ e.at = intervals[e.of].start
               /\ e.kind = End => e = EndOf(e.of) /\ e.at = intervals[e.of].end
    <2>1. PICK i \in DOMAIN intervals : e = BeginOf(i) \/ e = EndOf(i)
      BY DEF Events, BeginOf, EndOf
    <2>2. CASE e = BeginOf(i)
      BY <2>2, IntervalFacts DEF BeginOf, Begin, End, Event
    <2>3. CASE e = EndOf(i)
      BY <2>3, IntervalFacts DEF EndOf, Begin, End, Event
    <2>. QED
      BY <2>1, <2>2, <2>3
  <1>2. ASSUME NEW i \in DOMAIN intervals
        PROVE  /\ BeginOf(i) \in Events /\ EndOf(i) \in Events
               /\ BeginOf(i).kind = 0 /\ EndOf(i).kind = 1
               /\ BeginOf(i).of = i /\ EndOf(i).of = i
               /\ BeginOf(i).at = intervals[i].start /\ EndOf(i).at = intervals[i].end
    BY DEF Events, BeginOf, EndOf, Begin, End
  <1>. QED
    BY <1>1, <1>2 DEF Begin, End

LEMMA IntervalCovered ==
  ASSUME IInv, pc \in {"sweep", "bridge", "done"}, NEW i \in DOMAIN intervals, NEW p \in Instants,
         2 * intervals[i].start <= p, p <= 2 * intervals[i].end
  PROVE  /\ p \in Cov
         /\ \A m \in intervals[i].devices : p \in CoveredBy(Loaded(target)[m])
  <1>1. p \in Within(intervals[i])
    BY IntervalFacts, Numbers DEF Within
  <1>2. PICK m \in Devices : intervals[i].devices = {m}
    BY IntervalFacts
  <1>3. p \in Found(m)
    BY <1>1, <1>2 DEF Found
  <1>4. p \in CoveredBy(Loaded(target)[m])
    BY <1>3 DEF IInv, IntervalsRight
  <1>. QED
    BY <1>2, <1>4 DEF Cov, Covered

LEMMA StartSweepRight ==
  ASSUME IInv, StartSweep
  PROVE  SweepRight'
  <1>1. /\ pending' = Events /\ openCount' = 0 /\ cur' = Nothing /\ merged' = <<>>
        /\ intervals' = intervals
    BY DEF StartSweep, IInv, AtRest
  <1>2. Events' = Events
    BY <1>1 DEF Events
  <1>3. Begun' = {}
    BY <1>1, EventFacts DEF Begun, BeginOf
  <1>4. Open' = {}
    BY <1>3 DEF Open
  <1>5. Cardinality(Open') = 0
    BY <1>4, FS_EmptySet
  <1>. QED
    BY <1>1, <1>2, <1>3, <1>4, <1>5 DEF SweepRight

\* Where the sweep is when it comes to its next endpoint.
LEMMA NextEvent ==
  ASSUME IInv, pc = "sweep", NEW e, IsNext(e)
  PROVE  /\ e \in Events /\ e \in pending
         /\ \A f \in pending : f \in Events /\ e.at <= f.at
         /\ \A f \in pending \ {e} : e.kind = End /\ f.kind = Begin => e.at < f.at
         /\ \A f \in Events \ pending : f.at <= e.at
         /\ IsFiniteSet(Open) /\ openCount = Cardinality(Open) /\ openCount \in Nat
         /\ cur # Nothing => cur.start \in Time /\ cur.start \in Nat /\ cur.start <= e.at
         /\ \A i \in Open : i \in DOMAIN intervals /\ intervals[i].start <= e.at
  <1>1. /\ e \in pending /\ \A f \in pending : Before(e, f)
        /\ pending \subseteq Events
        /\ \A g \in Events \ pending : \A f \in pending : Before(g, f)
        /\ openCount = Cardinality(Open) /\ openCount \in Nat
        /\ cur # Nothing => cur.start \in Time /\ \A f \in pending : cur.start <= f.at
    BY DEF IsNext, IInv, SweepRight, TypeOK
  <1>2. \A f \in Events : f.at \in Nat /\ f.kind \in {0, 1}
    BY EventFacts
  <1>3. \A f \in pending : e.at <= f.at /\ f \in Events
    BY <1>1, <1>2 DEF Before
  <1>4. ASSUME NEW f \in pending \ {e}, e.kind = End, f.kind = Begin PROVE e.at < f.at
    BY <1>1, <1>2, <1>4 DEF Before, Begin, End
  <1>5. \A f \in Events \ pending : f.at <= e.at
    BY <1>1, <1>2 DEF Before
  <1>6. IsFiniteSet(Open)
    <2>1. intervals \in Seq(Interval)
      BY DEF IInv, TypeOK
    <2>2. DOMAIN intervals = 1 .. Len(intervals) /\ Len(intervals) \in Nat
      BY <2>1, LenProperties
    <2>3. IsFiniteSet(DOMAIN intervals)
      BY <2>2, FS_Interval
    <2>. QED
      BY <2>3, FS_Subset DEF Open, Begun
  <1>7. ASSUME NEW i \in Open PROVE i \in DOMAIN intervals /\ intervals[i].start <= e.at
    <2>1. i \in DOMAIN intervals /\ BeginOf(i) \in Events \ pending
      BY EventFacts DEF Open, Begun
    <2>. QED
      BY <1>5, <2>1, EventFacts
  <1>. QED
    BY <1>1, <1>3, <1>4, <1>5, <1>6, <1>7, Numbers

\* While an interval stays open, all up to the next endpoint is covered.
LEMMA OpenReaches ==
  ASSUME IInv, pc = "sweep", NEW e, IsNext(e), NEW left, left \subseteq pending,
         NEW i \in DOMAIN intervals, EndOf(i) \in left, intervals[i].start <= e.at,
         NEW p \in Instants, 2 * e.at <= p, \A f \in left : p <= 2 * f.at
  PROVE  p \in Cov
  <1>1. p \in Nat /\ e.at \in Nat
    BY NextEvent, EventFacts, Numbers
  <1>2. p <= 2 * intervals[i].end /\ intervals[i].start \in Nat
    BY EventFacts, IntervalFacts
  <1>3. 2 * intervals[i].start <= p
    BY <1>1, <1>2
  <1>. QED
    BY <1>2, <1>3, IntervalCovered

LEMMA SweepBeginRight ==
  ASSUME IInv, NEW e \in pending, SweepBegin(e)
  PROVE  SweepRight' /\ openCount' \in Nat
         /\ cur'.devices \in SUBSET Devices /\ cur'.start \in Time /\ cur'.end = cur.end
         /\ cur' = [start |-> cur'.start, end |-> cur'.end, devices |-> cur'.devices,
                    gaps |-> 0, bridged |-> 0]
  <1>. DEFINE i == e.of
  <1>1. /\ pc = "sweep" /\ IsNext(e) /\ e.kind = Begin
        /\ cur' = IF openCount = 0
                    THEN [Nothing EXCEPT !.start = e.at, !.devices = intervals[e.of].devices]
                    ELSE [cur EXCEPT !.devices = @ \cup intervals[e.of].devices]
        /\ openCount' = openCount + 1 /\ pending' = pending \ {e}
        /\ UNCHANGED <<log, pc, target, intervals, merged>>
        /\ SweepRight
    BY DEF SweepBegin, IInv
  <1>2. /\ e \in Events
        /\ \A f \in pending : f \in Events /\ e.at <= f.at
        /\ IsFiniteSet(Open) /\ openCount = Cardinality(Open) /\ openCount \in Nat
        /\ cur # Nothing => cur.start \in Time /\ cur.start \in Nat /\ cur.start <= e.at
        /\ \A k \in Open : k \in DOMAIN intervals /\ intervals[k].start <= e.at
    BY <1>1, NextEvent
  <1>3. /\ i \in DOMAIN intervals /\ e = BeginOf(i) /\ e.at = intervals[i].start
        /\ e.at \in Time /\ e.at \in Nat /\ EndOf(i) \in Events /\ EndOf(i) # e
        /\ intervals[i].devices \in SUBSET Devices
        /\ \A k \in DOMAIN intervals : BeginOf(k) = e => k = i
    BY <1>1, <1>2, EventFacts, IntervalFacts
  <1>4. EndOf(i) \in pending
    <2>. SUFFICES ASSUME EndOf(i) \notin pending PROVE FALSE
      OBVIOUS
    <2>1. Before(EndOf(i), e)
      BY <1>1, <1>3 DEF SweepRight
    <2>2. EndOf(i).at >= e.at /\ EndOf(i).kind = 1 /\ e.kind = 0 /\ EndOf(i).at \in Nat
      BY <1>1, <1>3, EventFacts, IntervalFacts
    <2>. QED
      BY <1>3, <2>1, <2>2 DEF Before
  <1>5. /\ BeginOf(i) \in pending /\ i \notin Begun /\ i \notin Open
        /\ \A k : BeginOf(k)' = BeginOf(k) /\ EndOf(k)' = EndOf(k)
        /\ Events' = Events /\ Cov' = Cov
    BY <1>1, <1>3, SameView DEF Begun, Open, BeginOf, EndOf, Events
  <1>6. Begun' = Begun \cup {i}
    BY <1>1, <1>3, <1>5 DEF Begun
  <1>7. Open' = Open \cup {i}
    <2>1. \A k \in Begun : EndOf(k) \in pending' <=> EndOf(k) \in pending
      BY <1>1, <1>3, EventFacts DEF Begun
    <2>2. EndOf(i) \in pending'
      BY <1>1, <1>3, <1>4
    <2>. QED
      BY <1>5, <1>6, <2>1, <2>2 DEF Open
  <1>8. openCount' = Cardinality(Open')
    BY <1>1, <1>2, <1>5, <1>7, FS_AddElement
  <1>9. openCount = 0 <=> cur = Nothing
    BY <1>1, <1>2, FS_EmptySet DEF SweepRight
  <1>10. /\ cur # Nothing => cur.gaps = 0 /\ cur.bridged = 0
         /\ cur \in [start : Time \cup {NoTime}, end : Time \cup {NoTime},
                     devices : SUBSET Devices, gaps : Nat, bridged : Nat]
    BY <1>1 DEF SweepRight, IInv, TypeOK
  <1>11. /\ cur'.start = IF cur = Nothing THEN e.at ELSE cur.start
         /\ cur'.devices = IF cur = Nothing THEN intervals[i].devices
                                            ELSE cur.devices \cup intervals[i].devices
         /\ cur'.end = cur.end /\ cur'.gaps = 0 /\ cur'.bridged = 0
         /\ cur' = [start |-> cur'.start, end |-> cur'.end, devices |-> cur'.devices,
                    gaps |-> 0, bridged |-> 0]
    BY <1>1, <1>9, <1>10 DEF Nothing
  <1>. HIDE DEF i
  <1>12. /\ cur'.start \in Time /\ cur'.start \in Nat /\ cur'.start <= e.at
         /\ cur' # Nothing /\ cur'.devices \in SUBSET Devices
    <2>1. cur'.start \in Time /\ cur'.start \in Nat /\ cur'.start <= e.at
      BY <1>2, <1>3, <1>11
    <2>2. cur' # Nothing
      BY <2>1, Numbers DEF Nothing
    <2>. QED
      BY <1>3, <1>10, <1>11, <2>1, <2>2
  <1>13. \A k \in Begun' : /\ k \in DOMAIN intervals
                           /\ \/ Among(k, cur)' 
                              \/ \E j \in DOMAIN merged' : Inside(k, merged[j])'
    <2>. TAKE k \in Begun'
    <2>1. CASE k = i
      BY <1>1, <1>3, <1>11, <1>12, <2>1 DEF Among
    <2>2. CASE k \in Begun
      <3>1. \/ cur # Nothing /\ Among(k, cur)
            \/ \E j \in DOMAIN merged : Inside(k, merged[j])
        BY <1>1, <2>2 DEF SweepRight
      <3>2. CASE cur # Nothing /\ Among(k, cur)
        BY <1>1, <1>11, <2>2, <3>2 DEF Among, Begun
      <3>3. CASE \E j \in DOMAIN merged : Inside(k, merged[j])
        BY <1>1, <2>2, <3>3 DEF Among, Inside, Begun
      <3>. QED
        BY <3>1, <3>2, <3>3
    <2>. QED
      BY <1>6, <2>1, <2>2
  <1>14. ASSUME NEW p \in Instants, 2 * cur'.start <= p, \A f \in pending' : p <= 2 * f.at
         PROVE  p \in Cov
    <2>1. p \in Nat
      BY Numbers
    <2>2. CASE 2 * e.at <= p
      <3>1. pending' \subseteq pending /\ EndOf(i) \in pending' /\ intervals[i].start <= e.at
        BY <1>1, <1>3, <1>4
      <3>. QED
        BY <1>1, <1>3, <1>14, <2>2, <3>1, OpenReaches
    <2>3. CASE p < 2 * e.at
      <3>1. cur # Nothing /\ 2 * cur.start <= p
        BY <1>3, <1>11, <1>14, <2>1, <2>3
      <3>2. \A f \in pending : p <= 2 * f.at
        BY <1>1, <1>3, <1>14, <2>1, <2>3
      <3>. QED
        BY <1>1, <3>1, <3>2 DEF SweepRight
    <2>. QED
      BY <1>3, <2>1, <2>2, <2>3
  <1>15. \A m \in cur'.devices : \E k \in Begun' : Among(k, cur)' /\ m \in intervals'[k].devices
    <2>. TAKE m \in cur'.devices
    <2>1. CASE m \in intervals[i].devices
      <3>1. Among(i, cur)' /\ i \in Begun'
        BY <1>1, <1>3, <1>6, <1>11, <1>12 DEF Among
      <3>. QED
        BY <1>1, <2>1, <3>1
    <2>2. CASE cur # Nothing /\ m \in cur.devices
      <3>1. PICK k \in Begun : Among(k, cur) /\ m \in intervals[k].devices
        BY <1>1, <2>2 DEF SweepRight
      <3>2. Among(k, cur)' /\ k \in Begun'
        BY <1>1, <1>6, <1>11, <2>2, <3>1 DEF Among
      <3>. QED
        BY <1>1, <3>1, <3>2
    <2>. QED
      BY <1>11, <2>1, <2>2
  <1>16. \A j \in DOMAIN merged' : merged'[j].end < cur'.start
    <2>. TAKE j \in DOMAIN merged'
    <2>1. merged[j].end < e.at
      BY <1>1, <1>3 DEF SweepRight
    <2>2. cur # Nothing => merged[j].end < cur.start
      BY <1>1 DEF SweepRight
    <2>. QED
      BY <1>1, <1>11, <2>1, <2>2
  <1>17. \A f \in Events' \ pending' : \A g \in pending' : Before(f, g)
    BY <1>1, <1>5 DEF SweepRight, IsNext
  <1>18. \A j \in DOMAIN merged' :
           /\ merged'[j].start <= merged'[j].end /\ merged'[j].gaps = 0 /\ merged'[j].bridged = 0
           /\ Within(merged[j])' \subseteq Cov'
           /\ \A m \in merged'[j].devices : \E k \in Begun' :
                Inside(k, merged[j])' /\ m \in intervals'[k].devices
           /\ \A f \in pending' :
                merged'[j].end <= f.at /\ (f.kind = Begin => merged'[j].end < f.at)
           /\ \A k \in DOMAIN merged' : j < k => merged'[j].end < merged'[k].start
    <2>. TAKE j \in DOMAIN merged'
    <2>1. /\ merged[j].start <= merged[j].end /\ merged[j].gaps = 0 /\ merged[j].bridged = 0
          /\ Within(merged[j]) \subseteq Cov
          /\ \A f \in pending : merged[j].end <= f.at /\ (f.kind = Begin => merged[j].end < f.at)
          /\ \A k \in DOMAIN merged : j < k => merged[j].end < merged[k].start
      BY <1>1 DEF SweepRight
    <2>2. ASSUME NEW m \in merged[j].devices
          PROVE  \E k \in Begun' : Inside(k, merged[j])' /\ m \in intervals'[k].devices
      <3>1. PICK k \in Begun : Inside(k, merged[j]) /\ m \in intervals[k].devices
        BY <1>1 DEF SweepRight
      <3>2. k \in Begun' /\ Inside(k, merged[j])'
        BY <1>1, <1>6, <3>1 DEF Inside, Among
      <3>. QED
        BY <1>1, <3>1, <3>2
    <2>3. Within(merged[j])' = Within(merged[j])
      BY <1>1 DEF Within
    <2>. QED
      BY <1>1, <1>5, <2>1, <2>2, <2>3
  <1>19. pending' \subseteq Events' /\ \A f \in pending' : cur'.start <= f.at
    <2>. SUFFICES ASSUME NEW f \in pending' PROVE f \in Events' /\ cur'.start <= f.at
      OBVIOUS
    <2>1. f \in Events /\ e.at <= f.at /\ f.at \in Nat
      BY <1>1, <1>2, EventFacts
    <2>. QED
      BY <1>3, <1>5, <1>12, <2>1
  <1>20. SweepRight'
    <2>1. Open' # {} /\ cur' # Nothing
      BY <1>7, <1>12
    <2>. QED
      BY <1>5, <1>8, <1>11, <1>12, <1>13, <1>14, <1>15, <1>16, <1>17, <1>18, <1>19, <2>1
         DEF SweepRight
  <1>. QED
    BY <1>1, <1>2, <1>11, <1>12, <1>20

LEMMA SweepEndRight ==
  ASSUME IInv, NEW e \in pending, SweepEnd(e)
  PROVE  SweepRight' /\ openCount' \in Nat /\ merged' \in Seq(Interval)
  <1>. DEFINE i == e.of
              b == [cur EXCEPT !.end = e.at]
  <1>1. /\ pc = "sweep" /\ IsNext(e) /\ e.kind = End
        /\ openCount' = openCount - 1 /\ pending' = pending \ {e}
        /\ IF openCount = 1 /\ cur # Nothing
             THEN merged' = Append(merged, b) /\ cur' = Nothing
             ELSE UNCHANGED <<merged, cur>>
        /\ UNCHANGED <<log, pc, target, intervals>>
        /\ SweepRight
    BY DEF SweepEnd, IInv
  <1>2. /\ e \in Events
        /\ \A f \in pending : f \in Events /\ e.at <= f.at
        /\ \A f \in pending \ {e} : f.kind = Begin => e.at < f.at
        /\ \A f \in Events \ pending : f.at <= e.at
        /\ IsFiniteSet(Open) /\ openCount = Cardinality(Open) /\ openCount \in Nat
        /\ cur # Nothing => cur.start \in Time /\ cur.start \in Nat /\ cur.start <= e.at
        /\ \A k \in Open : k \in DOMAIN intervals /\ intervals[k].start <= e.at
    BY <1>1, NextEvent
  <1>3. /\ i \in DOMAIN intervals /\ e = EndOf(i) /\ e.at = intervals[i].end
        /\ e.at \in Time /\ e.at \in Nat /\ BeginOf(i) \in Events /\ BeginOf(i) # e
        /\ \A k \in DOMAIN intervals : EndOf(k) = e => k = i
    BY <1>1, <1>2, EventFacts
  <1>4. BeginOf(i) \notin pending
    <2>. SUFFICES ASSUME BeginOf(i) \in pending PROVE FALSE
      OBVIOUS
    <2>1. e.at < BeginOf(i).at
      BY <1>2, <1>3, EventFacts
    <2>. QED
      BY <1>3, <2>1, EventFacts, IntervalFacts
  <1>5. /\ \A k : BeginOf(k)' = BeginOf(k) /\ EndOf(k)' = EndOf(k)
        /\ Events' = Events /\ Cov' = Cov
    BY <1>1, SameView DEF BeginOf, EndOf, Events
  <1>6. Begun' = Begun /\ i \in Open
    <2>1. \A k \in DOMAIN intervals : BeginOf(k) # e
      BY <1>1, EventFacts
    <2>. QED
      BY <1>1, <1>3, <1>4, <1>5, <2>1 DEF Begun, Open
  <1>7. Open' = Open \ {i}
    BY <1>1, <1>3, <1>5, <1>6 DEF Open, Begun
  <1>8. openCount' = Cardinality(Open') /\ openCount' \in Nat /\ Open # {} /\ cur # Nothing
    <2>1. Cardinality(Open \ {i}) = Cardinality(Open) - 1 /\ IsFiniteSet(Open \ {i})
      BY <1>2, <1>6, FS_RemoveElement
    <2>2. Cardinality(Open \ {i}) \in Nat
      BY <2>1, FS_CardinalityType
    <2>. QED
      BY <1>1, <1>2, <1>6, <1>7, <2>1, <2>2 DEF SweepRight
  <1>9. openCount = 1 <=> Open' = {}
    <2>1. IsFiniteSet(Open')
      BY <1>2, <1>7, FS_RemoveElement
    <2>2. Cardinality(Open') = 0 <=> Open' = {}
      BY <2>1, FS_EmptySet
    <2>. QED
      BY <1>1, <1>2, <1>8, <2>2
  <1>10. cur \in [start : Time \cup {NoTime}, end : Time \cup {NoTime},
                  devices : SUBSET Devices, gaps : Nat, bridged : Nat]
         /\ cur.start \in Time /\ cur.gaps = 0 /\ cur.bridged = 0 /\ merged \in Seq(Interval)
    BY <1>1, <1>8 DEF SweepRight, IInv, TypeOK
  <1>11. /\ b \in Interval /\ b.start = cur.start /\ b.end = e.at
         /\ b.devices = cur.devices /\ b.gaps = 0 /\ b.bridged = 0
    BY <1>3, <1>10 DEF Interval
  <1>. HIDE DEF b, i
  <1>12. \A f \in Events' \ pending' : \A g \in pending' : Before(f, g)
    BY <1>1, <1>5 DEF SweepRight, IsNext
  <1>13. pending' \subseteq Events'
    BY <1>1, <1>5 DEF SweepRight
  <1>14. \A k \in Begun : k \in DOMAIN intervals
           /\ ((cur # Nothing /\ Among(k, cur)) \/ \E j \in DOMAIN merged : Inside(k, merged[j]))
    BY <1>1 DEF SweepRight, Begun
  <1>15. \A j \in DOMAIN merged :
           /\ merged[j].start <= merged[j].end /\ merged[j].gaps = 0 /\ merged[j].bridged = 0
           /\ Within(merged[j]) \subseteq Cov
           /\ \A m \in merged[j].devices : \E k \in Begun :
                Inside(k, merged[j]) /\ m \in intervals[k].devices
           /\ \A f \in pending' :
                merged[j].end <= f.at /\ (f.kind = Begin => merged[j].end < f.at)
           /\ \A k \in DOMAIN merged : j < k => merged[j].end < merged[k].start
    BY <1>1 DEF SweepRight
  <1>16. CASE openCount # 1
    <2>1. merged' = merged /\ cur' = cur /\ Open' # {}
      BY <1>1, <1>9, <1>16
    <2>2. \A f \in pending' : cur.start <= f.at
      BY <1>1, <1>8 DEF SweepRight
    <2>3. ASSUME NEW p \in Instants, 2 * cur.start <= p, \A f \in pending' : p <= 2 * f.at
          PROVE  p \in Cov
      <3>1. p \in Nat
        BY Numbers
      <3>2. CASE 2 * e.at <= p
        <4>1. PICK k \in Open' : TRUE
          BY <2>1
        <4>2. k \in Open /\ k \in DOMAIN intervals /\ intervals[k].start <= e.at
          BY <1>2, <1>7
        <4>3. EndOf(k) \in pending' /\ pending' \subseteq pending
          BY <1>1, <1>5 DEF Open
        <4>. QED
          BY <1>1, <2>3, <3>2, <4>2, <4>3, OpenReaches
      <3>3. CASE p < 2 * e.at
        <4>1. \A f \in pending : p <= 2 * f.at
          BY <1>1, <1>3, <2>3, <3>1, <3>3
        <4>. QED
          BY <1>1, <1>8, <2>3, <4>1 DEF SweepRight
      <3>. QED
        BY <1>3, <3>1, <3>2, <3>3
    <2>4. /\ \A m \in cur.devices : \E k \in Begun :
               Among(k, cur) /\ m \in intervals[k].devices
          /\ \A j \in DOMAIN merged : merged[j].end < cur.start
      BY <1>1, <1>8 DEF SweepRight
    <2>5. \A k : /\ Among(k, cur)' <=> Among(k, cur)
                 /\ \A j : Inside(k, merged[j])' <=> Inside(k, merged[j])
      BY <1>1, <2>1 DEF Among, Inside
    <2>6. \A j : Within(merged[j])' = Within(merged[j])
      BY <2>1 DEF Within
    <2>7. SweepRight'
      BY <1>1, <1>5, <1>6, <1>8, <1>10, <1>12, <1>13, <1>14, <1>15,
         <2>1, <2>2, <2>3, <2>4, <2>5, <2>6 DEF SweepRight
    <2>. QED
      BY <1>8, <1>10, <2>1, <2>7
  <1>17. CASE openCount = 1
    <2>1. merged' = Append(merged, b) /\ cur' = Nothing /\ Open' = {}
      BY <1>1, <1>8, <1>9, <1>17
    <2>. DEFINE n == Len(merged)
    <2>2. /\ merged' \in Seq(Interval) /\ n \in Nat /\ DOMAIN merged = 1 .. n
          /\ DOMAIN merged' = 1 .. n + 1 /\ merged'[n + 1] = b
          /\ \A j \in 1 .. n : merged'[j] = merged[j]
      <3>1. merged' \in Seq(Interval) /\ Len(merged') = Len(merged) + 1
            /\ merged'[Len(merged) + 1] = b
            /\ \A j \in 1 .. Len(merged) : merged'[j] = merged[j]
        BY <1>10, <1>11, <2>1, AppendProperties
      <3>. QED
        BY <1>10, <3>1, LenProperties
    <2>. HIDE DEF n
    <2>3. \A k \in Begun : intervals[k].end <= e.at
      <3>. TAKE k \in Begun
      <3>1. k \in DOMAIN intervals /\ EndOf(k) \in Events \ pending'
        BY <1>5, <1>6, <2>1, EventFacts DEF Open, Begun
      <3>2. EndOf(k).at <= e.at
        BY <1>1, <1>2, <1>3, <3>1
      <3>. QED
        BY <3>1, <3>2, EventFacts
    <2>4. \A k \in Begun : Among(k, cur) => Inside(k, b)
      BY <1>11, <2>3 DEF Among, Inside
    <2>5. \A k \in Begun' : \E j \in DOMAIN merged' : Inside(k, merged[j])'
      <3>. TAKE k \in Begun'
      <3>0. \A v : Inside(k, v)' <=> Inside(k, v)
        BY <1>1 DEF Inside, Among
      <3>1. CASE Among(k, cur)
        <4>1. Inside(k, b)
          BY <1>6, <2>4, <3>1
        <4>2. PICK j \in DOMAIN merged' : merged'[j] = b
          BY <2>2
        <4>3. Inside(k, merged[j])'
          BY <1>1, <4>1, <4>2 DEF Inside, Among
        <4>. QED
          BY <4>3
      <3>2. CASE \E j \in DOMAIN merged : Inside(k, merged[j])
        <4>1. PICK j \in DOMAIN merged : Inside(k, merged[j])
          BY <3>2
        <4>2. j \in DOMAIN merged' /\ merged'[j] = merged[j]
          BY <2>2
        <4>3. Inside(k, merged[j])'
          BY <1>1, <4>1, <4>2 DEF Inside, Among
        <4>. QED
          BY <4>2, <4>3
      <3>. QED
        BY <1>6, <1>14, <3>1, <3>2
    <2>6. /\ b.start <= b.end /\ Within(b) \subseteq Cov
          /\ \A m \in b.devices : \E k \in Begun : Inside(k, b) /\ m \in intervals[k].devices
          /\ \A f \in pending' : b.end <= f.at /\ (f.kind = Begin => b.end < f.at)
          /\ \A j \in DOMAIN merged : merged[j].end < b.start
      <3>1. ASSUME NEW p \in Within(b) PROVE p \in Cov
        <4>1. p \in Nat /\ 2 * cur.start <= p /\ p <= 2 * e.at /\ p \in Instants
          <5>1. cur.start \in Nat /\ e.at \in Nat /\ e.at <= Horizon /\ p \in 2 * cur.start .. 2 * e.at
            BY <1>2, <1>3, <1>8, <1>11, Numbers DEF Within
          <5>. QED
            BY <5>1, Numbers DEF Instants
        <4>2. \A f \in pending : p <= 2 * f.at
          BY <1>2, <1>3, <4>1, EventFacts
        <4>. QED
          BY <1>1, <1>8, <4>1, <4>2 DEF SweepRight
      <3>2. \A m \in b.devices : \E k \in Begun : Inside(k, b) /\ m \in intervals[k].devices
        BY <1>1, <1>8, <1>11, <2>4 DEF SweepRight
      <3>3. \A f \in pending' : b.end <= f.at /\ (f.kind = Begin => b.end < f.at)
        BY <1>1, <1>2, <1>11
      <3>4. \A j \in DOMAIN merged : merged[j].end < b.start
        BY <1>1, <1>8, <1>11 DEF SweepRight
      <3>. QED
        BY <1>2, <1>8, <1>11, <3>1, <3>2, <3>3, <3>4
    <2>7. \A j \in DOMAIN merged' :
            /\ merged'[j].start <= merged'[j].end /\ merged'[j].gaps = 0 /\ merged'[j].bridged = 0
            /\ Within(merged[j])' \subseteq Cov'
            /\ \A m \in merged'[j].devices : \E k \in Begun' :
                 Inside(k, merged[j])' /\ m \in intervals'[k].devices
            /\ \A f \in pending' :
                 merged'[j].end <= f.at /\ (f.kind = Begin => merged'[j].end < f.at)
            /\ \A k \in DOMAIN merged' : j < k => merged'[j].end < merged'[k].start
      <3>. TAKE j \in DOMAIN merged'
      <3>0. \A k, v : (merged'[j] = v) => (Inside(k, merged[j])' <=> Inside(k, v))
                      /\ Within(merged[j])' = Within(v)
        BY <1>1 DEF Inside, Among, Within
      <3>1. CASE j = n + 1
        <4>1. merged'[j] = b /\ ~\E k \in DOMAIN merged' : j < k
          BY <2>2, <3>1
        <4>. QED
          BY <1>1, <1>5, <1>6, <1>11, <2>6, <3>0, <4>1
      <3>2. CASE j \in 1 .. n
        <4>1. j \in DOMAIN merged /\ merged'[j] = merged[j]
          BY <2>2, <3>2
        <4>2. ASSUME NEW k \in DOMAIN merged', j < k PROVE merged'[j].end < merged'[k].start
          <5>1. k \in 1 .. n \/ k = n + 1
            BY <2>2
          <5>. QED
            BY <1>15, <2>2, <2>6, <4>1, <4>2, <5>1
        <4>. QED
          BY <1>1, <1>5, <1>6, <1>15, <3>0, <4>1, <4>2
      <3>. QED
        BY <2>2, <3>1, <3>2
    <2>8. SweepRight'
      BY <1>1, <1>8, <1>12, <1>13, <2>1, <2>5, <2>7 DEF SweepRight
    <2>. QED
      BY <1>8, <2>2, <2>8
  <1>. QED
    BY <1>16, <1>17

-----------------------------------------------------------------------------
(***************************************************************************)
(* The bridge: what is joined is linked, and what is apart stays apart.    *)
(***************************************************************************)
LEMMA CovFacts ==
  /\ Cov \subseteq Instants /\ Cov \subseteq Nat
  /\ \A m \in Devices : CoveredBy(Loaded(target)[m]) \subseteq Cov
  /\ \A p \in Cov : \E m \in Devices : p \in CoveredBy(Loaded(target)[m])
  <1>1. \A p \in Cov : \E m \in Devices : p \in CoveredBy(Loaded(target)[m])
    BY DEF Cov, Covered
  <1>2. \A m \in Devices : CoveredBy(Loaded(target)[m]) \subseteq Cov
    BY DEF Cov, Covered
  <1>3. \A m : CoveredBy(Loaded(target)[m]) \subseteq Instants
    BY DEF CoveredBy, CoveredByFirst
  <1>. QED
    BY <1>1, <1>2, <1>3, Numbers

LEMMA SameViewOf ==
  ASSUME UNCHANGED <<log, target>>
  PROVE  /\ \A v : cur' = v => (Linked(cur)' <=> Linked(v)) /\ Within(cur)' = Within(v)
         /\ \A j, v : merged'[j] = v => /\ Solid(merged[j])' <=> Solid(v)
                                        /\ Within(merged[j])' = Within(v)
         /\ \A j, v : out'[j] = v => /\ Linked(out[j])' <=> Linked(v)
                                     /\ Within(out[j])' = Within(v)
  <1>1. Loaded(target)' = Loaded(target) /\ Cov' = Cov
    BY SameView
  <1>2. ASSUME NEW v, cur' = v PROVE (Linked(cur)' <=> Linked(v)) /\ Within(cur)' = Within(v)
    <2>1. Within(cur)' = Within(v) /\ Seen(cur)' = Seen(v)
      BY <1>1, <1>2 DEF Within, Seen
    <2>2. Accounted(cur)' <=> Accounted(v)
      BY <1>1, <1>2, <2>1 DEF Accounted
    <2>. QED
      BY <1>1, <1>2, <2>1, <2>2 DEF Linked
  <1>3. ASSUME NEW j, NEW v, merged'[j] = v
        PROVE  (Solid(merged[j])' <=> Solid(v)) /\ Within(merged[j])' = Within(v)
    <2>1. Within(merged[j])' = Within(v) /\ Seen(merged[j])' = Seen(v)
      BY <1>1, <1>3 DEF Within, Seen
    <2>. QED
      BY <1>1, <1>3, <2>1 DEF Solid
  <1>4. ASSUME NEW j, NEW v, out'[j] = v
        PROVE  (Linked(out[j])' <=> Linked(v)) /\ Within(out[j])' = Within(v)
    <2>1. Within(out[j])' = Within(v) /\ Seen(out[j])' = Seen(v)
      BY <1>1, <1>4 DEF Within, Seen
    <2>2. Accounted(out[j])' <=> Accounted(v)
      BY <1>1, <1>4, <2>1 DEF Accounted
    <2>. QED
      BY <1>1, <1>4, <2>1, <2>2 DEF Linked
  <1>. QED
    BY <1>2, <1>3, <1>4

LEMMA IntervalIs ==
  ASSUME NEW b \in Interval
  PROVE  /\ b.start \in Time /\ b.start \in Nat /\ b.end \in Time /\ b.end \in Nat
         /\ b.devices \in SUBSET Devices /\ b.gaps \in Nat /\ b.bridged \in Nat
         /\ \A p : p \in Within(b) <=> p \in Int /\ 2 * b.start <= p /\ p <= 2 * b.end
  <1>1. /\ b.start \in Time /\ b.end \in Time
        /\ b.devices \in SUBSET Devices /\ b.gaps \in Nat /\ b.bridged \in Nat
    BY DEF Interval
  <1>2. b.start \in Nat /\ b.end \in Nat
    BY <1>1, Numbers
  <1>. QED
    BY <1>1, <1>2 DEF Within

LEMMA SolidLinked ==
  ASSUME NEW b \in Interval, Solid(b)
  PROVE  Linked(b)
  <1>1. /\ b.start \in Nat /\ b.end \in Nat /\ b.start <= b.end
        /\ b.gaps = 0 /\ b.bridged = 0 /\ b.devices = Seen(b)
        /\ \A p \in Int : 2 * b.start <= p /\ p <= 2 * b.end => p \in Cov
    BY IntervalIs DEF Solid
  <1>2. Reach \in Nat /\ Reach >= 1 /\ Cov \subseteq Nat
    BY Numbers, CovFacts
  <1>3. ASSUME NEW p \in Cov, 2 * b.start <= p, p < 2 * b.end
        PROVE  Cov \cap (p + 1 .. p + Reach) # {}
    <2>1. p + 1 \in Cov /\ p + 1 \in p + 1 .. p + Reach
      BY <1>1, <1>2, <1>3
    <2>. QED
      BY <2>1
  <1>4. ASSUME NEW p \in Cov, 2 * b.start < p, p <= 2 * b.end
        PROVE  Cov \cap (p - Reach .. p - 1) # {}
    <2>1. p - 1 \in Cov /\ p - 1 \in p - Reach .. p - 1
      BY <1>1, <1>2, <1>4
    <2>. QED
      BY <2>1
  <1>5. Accounted(b)
    <2>1. Within(b) \ Cov = {}
      BY DEF Solid
    <2>2. { p \in Within(b) \ Cov : p - 1 \in Cov } = {}
      BY <2>1
    <2>3. Cardinality(Within(b) \ Cov) = 0
          /\ Cardinality({ p \in Within(b) \ Cov : p - 1 \in Cov }) = 0
      BY <2>1, <2>2, FS_EmptySet
    <2>. QED
      BY <1>1, <2>3 DEF Accounted
  <1>6. 2 * b.start \in Cov /\ 2 * b.end \in Cov
    BY <1>1
  <1>. QED
    BY <1>1, <1>3, <1>4, <1>5, <1>6 DEF Linked

\* What a bridge makes of two stretches is one, and its account is the sum of
\* theirs and the gap.
LEMMA Join ==
  ASSUME NEW a \in Interval, NEW b \in Interval, Linked(a), Solid(b), a.end < b.start,
         b.start - a.end <= GapBridge,
         \A p \in Cov : ~(2 * a.end < p /\ p < 2 * b.start),
         NEW c, c = [start |-> a.start, end |-> b.end, devices |-> a.devices \cup b.devices,
                     gaps |-> a.gaps + 1, bridged |-> a.bridged + (b.start - a.end)]
  PROVE  c \in Interval /\ Linked(c)
  <1>. DEFINE hole == 2 * a.end + 1 .. 2 * b.start - 1
              starts(s) == { p \in Within(s) \ Cov : p - 1 \in Cov }
  <1>1. /\ a.start \in Time /\ a.start \in Nat /\ a.end \in Nat
        /\ b.start \in Nat /\ b.end \in Time /\ b.end \in Nat
        /\ a.devices \in SUBSET Devices /\ b.devices \in SUBSET Devices
        /\ a.gaps \in Nat /\ a.bridged \in Nat
    BY IntervalIs
  <1>2. c \in Interval
    <2>1. b.start - a.end \in Nat
      BY <1>1
    <2>2. a.gaps + 1 \in Nat /\ a.bridged + (b.start - a.end) \in Nat
      BY <1>1, <2>1
    <2>. QED
      BY <1>1, <2>2 DEF Interval
  <1>3. /\ c.start = a.start /\ c.end = b.end /\ c.devices = a.devices \cup b.devices
        /\ c.gaps = a.gaps + 1 /\ c.bridged = a.bridged + (b.start - a.end)
    OBVIOUS
  <1>4. /\ a.start <= a.end /\ 2 * a.start \in Cov /\ 2 * a.end \in Cov
        /\ b.start <= b.end /\ 2 * b.start \in Cov /\ 2 * b.end \in Cov
        /\ Cov \subseteq Nat /\ Reach \in Nat /\ Reach >= 1 /\ Reach >= 2 * GapBridge
        /\ GapBridge \in Nat
    BY SolidLinked, CovFacts, Numbers DEF Linked
  <1>5. /\ \A p : p \in Within(a) <=> p \in Int /\ 2 * a.start <= p /\ p <= 2 * a.end
        /\ \A p : p \in Within(b) <=> p \in Int /\ 2 * b.start <= p /\ p <= 2 * b.end
        /\ \A p : p \in Within(c) <=> p \in Int /\ 2 * a.start <= p /\ p <= 2 * b.end
        /\ \A p : p \in hole <=> p \in Int /\ 2 * a.end < p /\ p < 2 * b.start
    BY <1>1, <1>2, <1>3, IntervalIs
  <1>. HIDE DEF hole
  <1>6. ASSUME NEW p
        PROVE  p \in Within(c) <=> p \in Within(a) \/ p \in hole \/ p \in Within(b)
    <2>1. CASE p \in Int
      <3>1. /\ p \in Within(a) <=> 2 * a.start <= p /\ p <= 2 * a.end
            /\ p \in Within(b) <=> 2 * b.start <= p /\ p <= 2 * b.end
            /\ p \in Within(c) <=> 2 * a.start <= p /\ p <= 2 * b.end
            /\ p \in hole <=> 2 * a.end < p /\ p < 2 * b.start
        BY <1>5, <2>1
      <3>2. a.start <= a.end /\ b.start <= b.end
        BY <1>4
      <3>. QED
        BY <1>1, <2>1, <3>1, <3>2
    <2>2. CASE p \notin Int
      BY <1>5, <2>2
    <2>. QED
      BY <2>1, <2>2
  <1>7. hole \cap Cov = {} /\ Within(b) \subseteq Cov /\ hole \cap Within(a) = {}
    BY <1>1, <1>5 DEF Solid
  <1>8. ASSUME NEW p \in Cov, 2 * c.start <= p, p < 2 * c.end
        PROVE  Cov \cap (p + 1 .. p + Reach) # {}
    <2>1. CASE p < 2 * a.end
      BY <1>3, <1>8, <2>1 DEF Linked
    <2>2. CASE p = 2 * a.end
      <3>1. 2 * b.start \in p + 1 .. p + Reach
        BY <1>1, <1>4, <2>2
      <3>. QED
        BY <1>4, <3>1
    <2>3. CASE p >= 2 * b.start
      BY <1>3, <1>8, <2>3, SolidLinked DEF Linked
    <2>4. ~(2 * a.end < p /\ p < 2 * b.start) /\ p \in Nat
      BY <1>4
    <2>. QED
      BY <1>1, <2>1, <2>2, <2>3, <2>4
  <1>9. ASSUME NEW p \in Cov, 2 * c.start < p, p <= 2 * c.end
        PROVE  Cov \cap (p - Reach .. p - 1) # {}
    <2>1. CASE p <= 2 * a.end
      BY <1>3, <1>9, <2>1 DEF Linked
    <2>2. CASE p = 2 * b.start
      <3>1. 2 * a.end \in p - Reach .. p - 1
        BY <1>1, <1>4, <2>2
      <3>. QED
        BY <1>4, <3>1
    <2>3. CASE p > 2 * b.start
      BY <1>3, <1>9, <2>3, SolidLinked DEF Linked
    <2>. QED
      BY <1>1, <1>4, <2>1, <2>2, <2>3
  <1>10. IsFiniteSet(Within(a)) /\ IsFiniteSet(hole)
    <2>1. 2 * a.start \in Int /\ 2 * a.end \in Int
          /\ 2 * a.end + 1 \in Int /\ 2 * b.start - 1 \in Int
      BY <1>1
    <2>2. IsFiniteSet(2 * a.start .. 2 * a.end) /\ IsFiniteSet(2 * a.end + 1 .. 2 * b.start - 1)
      BY <2>1, FS_Interval
    <2>. QED
      BY <2>2 DEF Within, hole
  <1>11. /\ IsFiniteSet(Within(a) \ Cov) /\ IsFiniteSet(starts(a))
         /\ Cardinality(Within(a) \ Cov) = 2 * a.bridged - a.gaps
         /\ Cardinality(starts(a)) = a.gaps
    <2>1. Within(a) \ Cov \in SUBSET Within(a) /\ starts(a) \in SUBSET Within(a)
      OBVIOUS
    <2>. QED
      BY <1>10, <2>1, FS_Subset DEF Linked, Accounted
  <1>12. Cardinality(Within(c) \ Cov) = 2 * c.bridged - c.gaps
    <2>1. Within(c) \ Cov = (Within(a) \ Cov) \cup hole /\ (Within(a) \ Cov) \cap hole = {}
      BY <1>6, <1>7
    <2>2. Cardinality((Within(a) \ Cov) \cup hole) =
            Cardinality(Within(a) \ Cov) + Cardinality(hole) - Cardinality((Within(a) \ Cov) \cap hole)
      BY <1>10, <1>11, FS_Union
    <2>3. Cardinality(hole) = 2 * (b.start - a.end) - 1
      <3>1. 2 * a.end + 1 \in Int /\ 2 * b.start - 1 \in Int
            /\ ~(2 * a.end + 1 > 2 * b.start - 1)
        BY <1>1
      <3>2. Cardinality(hole) = (2 * b.start - 1) - (2 * a.end + 1) + 1
        BY <3>1, FS_Interval DEF hole
      <3>. QED
        BY <1>1, <3>2
    <2>4. Cardinality((Within(a) \ Cov) \cap hole) = 0
      BY <2>1, FS_EmptySet
    <2>5. Cardinality(Within(c) \ Cov) = (2 * a.bridged - a.gaps) + (2 * (b.start - a.end) - 1) - 0
      BY <1>11, <2>1, <2>2, <2>3, <2>4
    <2>. QED
      BY <1>1, <1>3, <2>5
  <1>13. Cardinality(starts(c)) = c.gaps
    <2>1. 2 * a.end + 1 \notin starts(a)
      BY <1>1, <1>5
    <2>2. ASSUME NEW p PROVE p \in starts(c) <=> p \in starts(a) \cup {2 * a.end + 1}
      <3>1. p \in starts(c) => p \in starts(a) \/ p = 2 * a.end + 1
        <4>. SUFFICES ASSUME p \in starts(c) PROVE p \in starts(a) \/ p = 2 * a.end + 1
          OBVIOUS
        <4>1. p \in Within(a) \/ p \in hole
          BY <1>6, <1>7
        <4>2. CASE p \in hole
          <5>1. p \in Int /\ 2 * a.end < p /\ p < 2 * b.start /\ p - 1 \in Cov
            BY <1>5, <4>2
          <5>2. ~(2 * a.end < p - 1 /\ p - 1 < 2 * b.start)
            BY <5>1
          <5>. QED
            BY <1>1, <5>1, <5>2
        <4>. QED
          BY <4>1, <4>2
      <3>2. p \in starts(a) => p \in starts(c)
        BY <1>6
      <3>3. 2 * a.end + 1 \in starts(c)
        <4>1. 2 * a.end + 1 \in hole /\ (2 * a.end + 1) - 1 = 2 * a.end
          BY <1>1, <1>5
        <4>. QED
          BY <1>4, <1>6, <1>7, <4>1
      <3>. QED
        BY <3>1, <3>2, <3>3
    <2>3. starts(c) = starts(a) \cup {2 * a.end + 1}
      BY <2>2
    <2>4. IsFiniteSet(starts(a)) /\ Cardinality(starts(a)) = a.gaps
      BY <1>11
    <2>. HIDE DEF starts
    <2>5. Cardinality(starts(a) \cup {2 * a.end + 1}) = Cardinality(starts(a)) + 1
      BY <2>1, <2>4, FS_AddElement
    <2>. QED
      BY <1>3, <2>3, <2>4, <2>5
  <1>14. c.devices = Seen(c)
    <2>1. a.devices = Seen(a) /\ b.devices = Seen(b)
      BY DEF Linked, Accounted, Solid
    <2>2. ASSUME NEW m \in Devices PROVE m \in Seen(c) <=> m \in Seen(a) \/ m \in Seen(b)
      <3>1. CoveredBy(Loaded(target)[m]) \subseteq Cov
        BY CovFacts
      <3>. QED
        BY <1>6, <1>7, <3>1 DEF Seen
    <2>. QED
      BY <1>3, <2>1, <2>2 DEF Seen
  <1>15. c.start <= c.end /\ 2 * c.start \in Cov /\ 2 * c.end \in Cov
    BY <1>1, <1>3, <1>4
  <1>16. Accounted(c)
    BY <1>12, <1>13, <1>14 DEF Accounted
  <1>. QED
    BY <1>2, <1>8, <1>9, <1>15, <1>16 DEF Linked

\* What the sweep hands over: every covered instant, in stretches without a hole.
LEMMA SweepResult ==
  ASSUME IInv, pc = "sweep", pending = {}
  PROVE  /\ cur = Nothing
         /\ \A j \in DOMAIN merged :
              /\ merged[j] \in Interval /\ Solid(merged[j])
              /\ \A k \in DOMAIN merged : j < k => merged[j].end < merged[k].start
         /\ \A p \in Cov : \E j \in DOMAIN merged : p \in Within(merged[j])
  <1>1. SweepRight /\ merged \in Seq(Interval)
    BY DEF IInv, TypeOK
  <1>2. cur = Nothing /\ Begun = DOMAIN intervals
    BY <1>1 DEF SweepRight, Open, Begun
  <1>3. \A j \in DOMAIN merged : merged[j] \in Interval /\ j \in Nat
    <2>1. DOMAIN merged = 1 .. Len(merged) /\ Len(merged) \in Nat
      BY <1>1, LenProperties
    <2>. QED
      BY <1>1, <2>1, ElementOfSeq
  <1>4. \A i \in DOMAIN intervals : \E j \in DOMAIN merged : Inside(i, merged[j])
    BY <1>1, <1>2 DEF SweepRight
  <1>5. ASSUME NEW i \in DOMAIN intervals, NEW j \in DOMAIN merged, Inside(i, merged[j]),
               NEW p \in Within(intervals[i])
        PROVE  p \in Within(merged[j])
    <2>1. /\ intervals[i].start \in Nat /\ intervals[i].end \in Nat
          /\ merged[j].start \in Nat /\ merged[j].end \in Nat
          /\ merged[j].start <= intervals[i].start /\ intervals[i].end <= merged[j].end
      BY <1>3, <1>5, IntervalFacts, IntervalIs DEF Inside, Among
    <2>2. p \in Int /\ 2 * intervals[i].start <= p /\ p <= 2 * intervals[i].end
      BY <2>1 DEF Within
    <2>. QED
      BY <2>1, <2>2 DEF Within
  <1>6. \A m \in Devices : Found(m) = CoveredBy(Loaded(target)[m])
    BY DEF IInv, IntervalsRight
  <1>7. ASSUME NEW p \in Cov PROVE \E j \in DOMAIN merged : p \in Within(merged[j])
    <2>1. PICK m \in Devices : p \in Found(m)
      BY <1>6, CovFacts
    <2>2. PICK i \in DOMAIN intervals : p \in Within(intervals[i])
      BY <2>1 DEF Found
    <2>. QED
      BY <1>4, <1>5, <2>2
  <1>8. ASSUME NEW j \in DOMAIN merged, NEW k \in DOMAIN merged,
               NEW p, p \in Within(merged[j]), p \in Within(merged[k])
        PROVE  j = k
    <2>1. /\ j < k => merged[j].end < merged[k].start
          /\ k < j => merged[k].end < merged[j].start
      BY <1>1 DEF SweepRight
    <2>2. /\ p \in Int /\ p <= 2 * merged[j].end /\ p >= 2 * merged[j].start
          /\ p <= 2 * merged[k].end /\ p >= 2 * merged[k].start
          /\ merged[j].start \in Nat /\ merged[j].end \in Nat
          /\ merged[k].start \in Nat /\ merged[k].end \in Nat /\ j \in Nat /\ k \in Nat
      BY <1>3, <1>8, IntervalIs
    <2>. QED
      BY <2>1, <2>2
  <1>9. ASSUME NEW j \in DOMAIN merged PROVE merged[j].devices = Seen(merged[j])
    <2>1. ASSUME NEW m \in merged[j].devices PROVE m \in Seen(merged[j])
      <3>1. PICK i \in DOMAIN intervals : Inside(i, merged[j]) /\ m \in intervals[i].devices
        BY <1>1, <1>2 DEF SweepRight
      <3>2. m \in Devices /\ intervals[i].start \in Time /\ intervals[i].start \in Nat
            /\ intervals[i].end \in Nat /\ intervals[i].start <= intervals[i].end
        BY <3>1, IntervalFacts
      <3>3. 2 * intervals[i].start \in Within(intervals[i]) /\ 2 * intervals[i].start \in Instants
        BY <3>2, Numbers DEF Within
      <3>4. 2 * intervals[i].start \in Found(m)
        BY <3>1, <3>3 DEF Found
      <3>. QED
        BY <1>5, <1>6, <3>1, <3>2, <3>3, <3>4 DEF Seen
    <2>2. ASSUME NEW m \in Seen(merged[j]) PROVE m \in merged[j].devices
      <3>1. m \in Devices /\ \E p \in CoveredBy(Loaded(target)[m]) : p \in Within(merged[j])
        BY DEF Seen
      <3>2. PICK p \in Found(m) : p \in Within(merged[j])
        BY <1>6, <3>1
      <3>3. PICK i \in DOMAIN intervals : m \in intervals[i].devices /\ p \in Within(intervals[i])
        BY DEF Found
      <3>4. PICK k \in DOMAIN merged : Inside(i, merged[k])
        BY <1>4
      <3>5. p \in Within(merged[k])
        BY <1>5, <3>3, <3>4
      <3>6. k = j
        BY <1>8, <3>2, <3>5
      <3>. QED
        BY <3>3, <3>4, <3>6 DEF Inside, Among
    <2>. QED
      BY <2>1, <2>2
  <1>10. \A j \in DOMAIN merged :
           /\ Solid(merged[j])
           /\ \A k \in DOMAIN merged : j < k => merged[j].end < merged[k].start
    BY <1>1, <1>9 DEF SweepRight, Solid
  <1>. QED
    BY <1>2, <1>3, <1>7, <1>10

LEMMA StartBridgeRight ==
  ASSUME IInv, StartBridge
  PROVE  /\ BridgeRight' /\ merged' \in Seq(Interval)
         /\ cur' = Nothing \/ cur' \in Interval
  <1>1. /\ pc = "sweep" /\ pending = {} /\ UNCHANGED <<log, target, out>> /\ out = <<>>
        /\ IF merged = <<>> THEN UNCHANGED <<cur, merged>>
                            ELSE cur' = Head(merged) /\ merged' = Tail(merged)
        /\ merged \in Seq(Interval)
    BY DEF StartBridge, IInv, AtRest, TypeOK
  <1>2. /\ cur = Nothing
        /\ \A j \in DOMAIN merged :
             /\ merged[j] \in Interval /\ Solid(merged[j])
             /\ \A k \in DOMAIN merged : j < k => merged[j].end < merged[k].start
        /\ \A p \in Cov : \E j \in DOMAIN merged : p \in Within(merged[j])
    BY <1>1, SweepResult
  <1>3. Cov' = Cov
    BY <1>1, SameView
  <1>4. CASE merged = <<>>
    <2>1. cur' = Nothing /\ merged' = <<>> /\ out' = <<>>
      BY <1>1, <1>2, <1>4
    <2>2. Cov = {}
      BY <1>2, <1>4
    <2>. QED
      BY <1>1, <1>3, <2>1, <2>2 DEF BridgeRight
  <1>5. CASE merged # <<>>
    <2>. DEFINE n == Len(merged)
    <2>1. /\ n \in Nat /\ n >= 1 /\ DOMAIN merged = 1 .. n
          /\ cur' = merged[1] /\ merged' \in Seq(Interval)
          /\ DOMAIN merged' = 1 .. n - 1
          /\ \A j \in 1 .. n - 1 : merged'[j] = merged[j + 1]
      <3>1. n \in Nat \ {0} /\ DOMAIN merged = 1 .. n
        BY <1>1, <1>5, EmptySeq, LenProperties
      <3>2. /\ Tail(merged) \in Seq(Interval) /\ Len(Tail(merged)) = n - 1
            /\ \A j \in 1 .. Len(Tail(merged)) : Tail(merged)[j] = merged[j + 1]
        BY <1>1, <1>5, HeadTailProperties
      <3>3. Head(merged) = merged[1]
        BY <1>1, <1>5
      <3>4. DOMAIN Tail(merged) = 1 .. n - 1
        BY <3>2, LenProperties
      <3>. QED
        BY <1>1, <1>5, <3>1, <3>2, <3>3, <3>4
    <2>. HIDE DEF n
    <2>2. /\ merged[1] \in Interval /\ Linked(merged[1]) /\ merged[1] # Nothing
          /\ \A j \in DOMAIN merged' : j + 1 \in DOMAIN merged /\ 1 < j + 1 /\ 1 \in DOMAIN merged
      <3>1. merged[1] \in Interval /\ Solid(merged[1])
        BY <1>2, <2>1
      <3>2. merged[1] # Nothing
        BY <3>1, IntervalIs DEF Nothing, NoTime
      <3>. QED
        BY <2>1, <3>1, <3>2, SolidLinked
    <2>3. ASSUME NEW j \in DOMAIN merged'
          PROVE  /\ Solid(merged[j])' /\ cur'.end < merged'[j].start
                 /\ \A k \in DOMAIN merged' : j < k => merged'[j].end < merged'[k].start
      <3>1. merged'[j] = merged[j + 1] /\ j + 1 \in DOMAIN merged /\ 1 < j + 1 /\ 1 \in DOMAIN merged
        BY <2>1, <2>2
      <3>2. Solid(merged[j])'
        BY <1>1, <1>2, <3>1, SameViewOf
      <3>3. cur'.end < merged'[j].start
        BY <1>2, <2>1, <3>1
      <3>4. ASSUME NEW k \in DOMAIN merged', j < k PROVE merged'[j].end < merged'[k].start
        <4>1. merged'[k] = merged[k + 1] /\ k + 1 \in DOMAIN merged /\ j + 1 < k + 1
          BY <2>1, <3>4
        <4>. QED
          BY <1>2, <3>1, <4>1
      <3>. QED
        BY <3>2, <3>3, <3>4
    <2>4. ASSUME NEW p \in Cov
          PROVE  p \in Within(cur)' \/ \E j \in DOMAIN merged' : p \in Within(merged[j])'
      <3>1. PICK k \in 1 .. n : p \in Within(merged[k])
        BY <1>2, <2>1
      <3>2. CASE k = 1
        BY <1>1, <2>1, <3>1, <3>2, SameViewOf
      <3>3. CASE k > 1
        <4>1. k - 1 \in DOMAIN merged' /\ merged'[k - 1] = merged[k]
          BY <2>1, <3>3
        <4>2. Within(merged[k - 1])' = Within(merged[k])
          BY <1>1, <4>1, SameViewOf
        <4>. QED
          BY <3>1, <4>1, <4>2
      <3>. QED
        BY <3>2, <3>3
    <2>5. Linked(cur)' /\ cur' # Nothing /\ cur' \in Interval
      BY <1>1, <2>1, <2>2, SameViewOf
    <2>6. DOMAIN out' = {}
      BY <1>1
    <2>7. BridgeRight'
      BY <1>3, <2>3, <2>4, <2>5, <2>6 DEF BridgeRight
    <2>. QED
      BY <2>1, <2>5, <2>7
  <1>. QED
    BY <1>4, <1>5

LEMMA BridgeNextRight ==
  ASSUME IInv, BridgeNext
  PROVE  /\ BridgeRight' /\ merged' \in Seq(Interval) /\ out' \in Seq(Interval)
         /\ cur' \in Interval
  <1>. DEFINE n    == Len(merged)
              next == merged[1]
  <1>1. /\ pc = "bridge" /\ merged # <<>> /\ merged \in Seq(Interval) /\ out \in Seq(Interval)
        /\ merged' = Tail(merged) /\ UNCHANGED <<log, target>> /\ BridgeRight
        /\ IF Bridges(Head(merged).start - cur.end)
             THEN /\ cur' = [start   |-> cur.start,
                             end     |-> Head(merged).end,
                             devices |-> cur.devices \cup Head(merged).devices,
                             gaps    |-> cur.gaps + 1,
                             bridged |-> cur.bridged + (Head(merged).start - cur.end)]
                  /\ out' = out
             ELSE cur' = Head(merged) /\ out' = Append(out, cur)
    BY DEF BridgeNext, IInv, TypeOK
  <1>2. /\ n \in Nat /\ n >= 1 /\ DOMAIN merged = 1 .. n
        /\ Head(merged) = next /\ merged' \in Seq(Interval)
        /\ DOMAIN merged' = 1 .. n - 1
        /\ \A j \in 1 .. n - 1 : merged'[j] = merged[j + 1]
    <2>1. n \in Nat \ {0} /\ DOMAIN merged = 1 .. n
      BY <1>1, EmptySeq, LenProperties
    <2>2. /\ Tail(merged) \in Seq(Interval) /\ Len(Tail(merged)) = n - 1
          /\ \A j \in 1 .. Len(Tail(merged)) : Tail(merged)[j] = merged[j + 1]
      BY <1>1, HeadTailProperties
    <2>3. Head(merged) = merged[1]
      BY <1>1
    <2>4. DOMAIN Tail(merged) = 1 .. n - 1
      BY <2>2, LenProperties
    <2>. QED
      BY <1>1, <2>1, <2>2, <2>3, <2>4
  <1>3. /\ \A j \in DOMAIN merged : merged[j] \in Interval
        /\ DOMAIN out = 1 .. Len(out) /\ Len(out) \in Nat
        /\ \A j \in DOMAIN out : out[j] \in Interval
    BY <1>1, LenProperties, ElementOfSeq
  <1>4. /\ cur \in Interval /\ Linked(cur) /\ cur # Nothing
        /\ \A j \in DOMAIN merged :
             /\ Solid(merged[j]) /\ cur.end < merged[j].start
             /\ \A k \in DOMAIN merged : j < k => merged[j].end < merged[k].start
        /\ \A j \in DOMAIN out :
             /\ Linked(out[j]) /\ Apart(out[j], cur)
             /\ \A k \in DOMAIN out : j < k => Apart(out[j], out[k])
        /\ \A p \in Cov :
             \/ p \in Within(cur)
             \/ \E j \in DOMAIN merged : p \in Within(merged[j])
             \/ \E j \in DOMAIN out : p \in Within(out[j])
    BY <1>1 DEF BridgeRight
  <1>5. /\ 1 \in DOMAIN merged /\ next \in Interval /\ Solid(next) /\ cur.end < next.start
        /\ next.start \in Nat /\ next.end \in Nat /\ next.start <= next.end
        /\ cur.start \in Nat /\ cur.end \in Nat /\ cur.start <= cur.end
        /\ GapBridge \in Nat
    <2>1. 1 \in DOMAIN merged /\ next \in Interval /\ Solid(next) /\ cur.end < next.start
      BY <1>2, <1>3, <1>4
    <2>. QED
      BY <1>4, <2>1, IntervalIs, Numbers DEF Solid, Linked
  <1>6. Cov' = Cov
    BY <1>1, SameView
  <1>. HIDE DEF n, next
  <1>7. ASSUME NEW j \in DOMAIN merged'
        PROVE  /\ Solid(merged[j])' /\ next.end < merged'[j].start /\ merged'[j].start \in Nat
               /\ \A k \in DOMAIN merged' : j < k => merged'[j].end < merged'[k].start
    <2>1. merged'[j] = merged[j + 1] /\ j + 1 \in DOMAIN merged /\ 1 < j + 1 /\ j \in Nat
      BY <1>2
    <2>2. Solid(merged[j])'
      BY <1>1, <1>4, <2>1, SameViewOf
    <2>3. next.end < merged'[j].start /\ merged'[j].start \in Nat
      BY <1>3, <1>4, <1>5, <2>1, IntervalIs DEF next
    <2>4. ASSUME NEW k \in DOMAIN merged', j < k PROVE merged'[j].end < merged'[k].start
      <3>1. merged'[k] = merged[k + 1] /\ k + 1 \in DOMAIN merged /\ j + 1 < k + 1
        BY <1>2, <2>1, <2>4
      <3>. QED
        BY <1>4, <2>1, <3>1
    <2>. QED
      BY <2>2, <2>3, <2>4
  <1>8. ASSUME NEW k \in DOMAIN merged, NEW p \in Within(merged[k]), p \notin Within(next)
        PROVE  \E j \in DOMAIN merged' : p \in Within(merged[j])'
    <2>1. k - 1 \in DOMAIN merged' /\ merged'[k - 1] = merged[k]
      BY <1>2, <1>8 DEF next
    <2>2. Within(merged[k - 1])' = Within(merged[k])
      BY <1>1, <2>1, SameViewOf
    <2>. QED
      BY <1>8, <2>1, <2>2
  <1>9. CASE Bridges(next.start - cur.end)
    <2>1. /\ cur' = [start   |-> cur.start,
                     end     |-> next.end,
                     devices |-> cur.devices \cup next.devices,
                     gaps    |-> cur.gaps + 1,
                     bridged |-> cur.bridged + (next.start - cur.end)]
          /\ out' = out
      BY <1>1, <1>2, <1>9
    <2>2. ASSUME NEW p \in Cov, 2 * cur.end < p, p < 2 * next.start PROVE FALSE
      <3>1. p \in Nat
        BY CovFacts
      <3>2. p \notin Within(cur)
        BY <1>4, <2>2, <3>1, IntervalIs
      <3>3. ASSUME NEW j \in DOMAIN merged PROVE p \notin Within(merged[j])
        <4>1. next.start <= merged[j].start
          <5>1. CASE j = 1
            BY <1>5, <5>1 DEF next
          <5>2. CASE j # 1
            <6>1. 1 < j
              BY <1>2, <5>2
            <6>2. next.end < merged[j].start
              BY <1>4, <1>5, <6>1 DEF next
            <6>. QED
              BY <1>3, <1>5, <6>2, IntervalIs
          <5>. QED
            BY <5>1, <5>2
        <4>. QED
          BY <1>3, <1>5, <2>2, <3>1, <4>1, IntervalIs
      <3>4. ASSUME NEW j \in DOMAIN out PROVE p \notin Within(out[j])
        <4>1. out[j].end + GapBridge < cur.start /\ out[j].end \in Nat
          BY <1>3, <1>4, IntervalIs DEF Apart
        <4>. QED
          BY <1>3, <1>5, <2>2, <3>1, <4>1, IntervalIs
      <3>. QED
        BY <1>4, <3>2, <3>3, <3>4
    <2>3. next.start - cur.end <= GapBridge
      BY <1>9 DEF Bridges
    <2>4. cur' \in Interval /\ Linked(cur)'
      <3>. DEFINE c == [start   |-> cur.start,
                        end     |-> next.end,
                        devices |-> cur.devices \cup next.devices,
                        gaps    |-> cur.gaps + 1,
                        bridged |-> cur.bridged + (next.start - cur.end)]
      <3>1. c \in Interval /\ Linked(c)
        BY <1>4, <1>5, <2>2, <2>3, Join
      <3>2. cur' = c
        BY <2>1
      <3>. HIDE DEF c
      <3>. QED
        BY <1>1, <3>1, <3>2, SameViewOf
    <2>5. cur' # Nothing /\ cur'.start = cur.start /\ cur'.end = next.end
      BY <1>5, <2>1 DEF Nothing, NoTime
    <2>6. \A j \in DOMAIN out' :
            /\ Linked(out[j])' /\ Apart(out[j], cur)'
            /\ \A k \in DOMAIN out' : j < k => Apart(out[j], out[k])'
      <3>1. \A j \in DOMAIN out : Linked(out[j])'
        BY <1>1, <1>4, <2>1, SameViewOf
      <3>2. \A j \in DOMAIN out : Apart(out[j], cur)' /\ \A k \in DOMAIN out : j < k => Apart(out[j], out[k])'
        BY <1>4, <2>1, <2>5 DEF Apart
      <3>. QED
        BY <2>1, <3>1, <3>2
    <2>7. ASSUME NEW p \in Cov
          PROVE  \/ p \in Within(cur)'
                 \/ \E j \in DOMAIN merged' : p \in Within(merged[j])'
                 \/ \E j \in DOMAIN out' : p \in Within(out[j])'
      <3>1. p \in Nat
        BY CovFacts
      <3>2. p \in Within(cur) \/ p \in Within(next) => p \in Within(cur)'
        <4>1. p \in Within(cur)' <=> 2 * cur.start <= p /\ p <= 2 * next.end
          BY <1>5, <2>5, <3>1 DEF Within
        <4>2. p \in Within(cur) => 2 * cur.start <= p /\ p <= 2 * cur.end
          BY <1>4, IntervalIs
        <4>3. p \in Within(next) => 2 * next.start <= p /\ p <= 2 * next.end
          BY <1>5, IntervalIs
        <4>. QED
          BY <1>5, <3>1, <4>1, <4>2, <4>3
      <3>3. \A j \in DOMAIN out : Within(out[j])' = Within(out[j])
        BY <1>1, <2>1, SameViewOf
      <3>. QED
        BY <1>4, <1>8, <2>1, <3>2, <3>3
    <2>8. BridgeRight'
      BY <1>6, <1>7, <2>4, <2>5, <2>6, <2>7 DEF BridgeRight
    <2>. QED
      BY <1>1, <1>2, <2>1, <2>4, <2>8
  <1>10. CASE ~Bridges(next.start - cur.end)
    <2>. DEFINE o == Len(out)
    <2>1. /\ cur' = next /\ out' = Append(out, cur)
          /\ cur.end + GapBridge < next.start
      <3>1. ~(next.start - cur.end <= GapBridge)
        BY <1>10 DEF Bridges
      <3>. QED
        BY <1>1, <1>2, <1>5, <1>10, <3>1
    <2>2. /\ out' \in Seq(Interval) /\ o \in Nat /\ DOMAIN out = 1 .. o
          /\ DOMAIN out' = 1 .. o + 1 /\ out'[o + 1] = cur
          /\ \A j \in 1 .. o : out'[j] = out[j]
      <3>1. out' \in Seq(Interval) /\ Len(out') = Len(out) + 1
            /\ out'[Len(out) + 1] = cur
            /\ \A j \in 1 .. Len(out) : out'[j] = out[j]
        BY <1>1, <1>4, <2>1, AppendProperties
      <3>. QED
        BY <1>3, <3>1, LenProperties
    <2>. HIDE DEF o
    <2>3. cur' # Nothing /\ cur' \in Interval /\ Linked(cur)' /\ Within(cur)' = Within(next)
      <3>1. Linked(next) /\ next # Nothing
        BY <1>5, SolidLinked DEF Nothing, NoTime
      <3>. QED
        BY <1>1, <1>5, <2>1, <3>1, SameViewOf
    <2>4. ASSUME NEW j \in DOMAIN out'
          PROVE  /\ Linked(out[j])' /\ Apart(out[j], cur)'
                 /\ \A k \in DOMAIN out' : j < k => Apart(out[j], out[k])'
      <3>1. CASE j = o + 1
        <4>1. out'[j] = cur /\ ~\E k \in DOMAIN out' : j < k
          BY <2>2, <3>1
        <4>2. Linked(out[j])'
          BY <1>1, <1>4, <4>1, SameViewOf
        <4>3. Apart(out[j], cur)'
          BY <2>1, <4>1 DEF Apart
        <4>. QED
          BY <4>1, <4>2, <4>3
      <3>2. CASE j \in DOMAIN out
        <4>1. out'[j] = out[j] /\ Linked(out[j]) /\ out[j].end + GapBridge < cur.start
              /\ out[j].end \in Nat
          BY <1>3, <1>4, <2>2, <3>2, IntervalIs DEF Apart
        <4>2. Linked(out[j])'
          BY <1>1, <4>1, SameViewOf
        <4>3. Apart(out[j], cur)'
          BY <1>5, <2>1, <4>1 DEF Apart
        <4>4. ASSUME NEW k \in DOMAIN out', j < k PROVE Apart(out[j], out[k])'
          <5>1. CASE k = o + 1
            BY <2>2, <4>1, <5>1 DEF Apart
          <5>2. CASE k \in DOMAIN out
            BY <1>4, <2>2, <3>2, <4>1, <4>4, <5>2 DEF Apart
          <5>. QED
            BY <2>2, <5>1, <5>2
        <4>. QED
          BY <4>2, <4>3, <4>4
      <3>. QED
        BY <2>2, <3>1, <3>2
    <2>5. ASSUME NEW p \in Cov
          PROVE  \/ p \in Within(cur)'
                 \/ \E j \in DOMAIN merged' : p \in Within(merged[j])'
                 \/ \E j \in DOMAIN out' : p \in Within(out[j])'
      <3>1. CASE p \in Within(cur)
        <4>1. PICK j \in DOMAIN out' : out'[j] = cur
          BY <2>2
        <4>2. Within(out[j])' = Within(cur)
          BY <1>1, <4>1, SameViewOf
        <4>. QED
          BY <3>1, <4>1, <4>2
      <3>2. CASE \E j \in DOMAIN merged : p \in Within(merged[j])
        BY <1>8, <2>3, <3>2
      <3>3. CASE \E j \in DOMAIN out : p \in Within(out[j])
        <4>1. PICK j \in DOMAIN out : p \in Within(out[j])
          BY <3>3
        <4>2. j \in DOMAIN out' /\ out'[j] = out[j]
          BY <2>2
        <4>3. Within(out[j])' = Within(out[j])
          BY <1>1, <4>2, SameViewOf
        <4>. QED
          BY <4>1, <4>2, <4>3
      <3>. QED
        BY <1>4, <3>1, <3>2, <3>3
    <2>6. \A j \in DOMAIN merged' : cur'.end < merged'[j].start
      BY <1>7, <2>1
    <2>7. BridgeRight'
      BY <1>6, <1>7, <2>3, <2>4, <2>5, <2>6 DEF BridgeRight
    <2>. QED
      BY <1>2, <2>2, <2>3, <2>7
  <1>. QED
    BY <1>9, <1>10

LEMMA FinishRight ==
  ASSUME IInv, Finish
  PROVE  ResultRight' /\ out' \in Seq(Interval)
  <1>1. /\ pc = "bridge" /\ merged = <<>> /\ out \in Seq(Interval)
        /\ out' = (IF cur = Nothing THEN out ELSE Append(out, cur))
        /\ sessions' = { out'[i] : i \in { j \in DOMAIN out' : Counts(out'[j]) } }
        /\ UNCHANGED <<log, target>> /\ BridgeRight
    BY DEF Finish, IInv, TypeOK
  <1>2. Cov' = Cov
    BY <1>1, SameView
  <1>3. /\ cur # Nothing => cur \in Interval /\ Linked(cur)
        /\ \A j \in DOMAIN out :
             /\ Linked(out[j]) /\ Apart(out[j], cur)
             /\ \A k \in DOMAIN out : j < k => Apart(out[j], out[k])
        /\ \A p \in Cov :
             \/ cur # Nothing /\ p \in Within(cur)
             \/ \E j \in DOMAIN out : p \in Within(out[j])
    BY <1>1 DEF BridgeRight
  <1>4. \A v : Counts(v)' <=> Counts(v)
    BY <1>1 DEF Counts
  <1>5. sessions' = { out'[i] : i \in { j \in DOMAIN out' : Counts(out[j])' } }
    BY <1>1 DEF Counts
  <1>6. CASE cur = Nothing
    <2>1. out' = out
      BY <1>1, <1>6
    <2>2. \A j \in DOMAIN out :
            /\ Linked(out[j])' /\ Within(out[j])' = Within(out[j])
            /\ \A k \in DOMAIN out : j < k => Apart(out[j], out[k])'
      BY <1>1, <1>3, <2>1, SameViewOf DEF Apart
    <2>. QED
      BY <1>1, <1>2, <1>3, <1>5, <1>6, <2>1, <2>2 DEF ResultRight
  <1>7. CASE cur # Nothing
    <2>. DEFINE o == Len(out)
    <2>1. /\ out' \in Seq(Interval) /\ o \in Nat /\ DOMAIN out = 1 .. o
          /\ DOMAIN out' = 1 .. o + 1 /\ out'[o + 1] = cur
          /\ \A j \in 1 .. o : out'[j] = out[j]
      <3>1. out' \in Seq(Interval) /\ Len(out') = Len(out) + 1
            /\ out'[Len(out) + 1] = cur
            /\ \A j \in 1 .. Len(out) : out'[j] = out[j]
        BY <1>1, <1>3, <1>7, AppendProperties
      <3>. QED
        BY <1>1, <3>1, LenProperties
    <2>. HIDE DEF o
    <2>2. ASSUME NEW j \in DOMAIN out'
          PROVE  Linked(out[j])' /\ \A k \in DOMAIN out' : j < k => Apart(out[j], out[k])'
      <3>1. CASE j = o + 1
        <4>1. out'[j] = cur /\ ~\E k \in DOMAIN out' : j < k
          BY <2>1, <3>1
        <4>. QED
          BY <1>1, <1>3, <1>7, <4>1, SameViewOf
      <3>2. CASE j \in DOMAIN out
        <4>1. out'[j] = out[j] /\ Linked(out[j]) /\ Apart(out[j], cur)
          BY <1>3, <2>1, <3>2
        <4>2. Linked(out[j])'
          BY <1>1, <4>1, SameViewOf
        <4>3. ASSUME NEW k \in DOMAIN out', j < k PROVE Apart(out[j], out[k])'
          <5>1. CASE k = o + 1
            BY <2>1, <4>1, <5>1 DEF Apart
          <5>2. CASE k \in DOMAIN out
            BY <1>3, <2>1, <3>2, <4>1, <4>3, <5>2 DEF Apart
          <5>. QED
            BY <2>1, <5>1, <5>2
        <4>. QED
          BY <4>2, <4>3
      <3>. QED
        BY <2>1, <3>1, <3>2
    <2>3. ASSUME NEW p \in Cov PROVE \E j \in DOMAIN out' : p \in Within(out[j])'
      <3>1. CASE p \in Within(cur)
        <4>1. PICK j \in DOMAIN out' : out'[j] = cur
          BY <2>1
        <4>2. Within(out[j])' = Within(cur)
          BY <1>1, <4>1, SameViewOf
        <4>. QED
          BY <3>1, <4>1, <4>2
      <3>2. CASE \E j \in DOMAIN out : p \in Within(out[j])
        <4>1. PICK j \in DOMAIN out : p \in Within(out[j])
          BY <3>2
        <4>2. j \in DOMAIN out' /\ out'[j] = out[j]
          BY <2>1
        <4>3. Within(out[j])' = Within(out[j])
          BY <1>1, <4>2, SameViewOf
        <4>. QED
          BY <4>1, <4>2, <4>3
      <3>. QED
        BY <1>3, <3>1, <3>2
    <2>. QED
      BY <1>2, <1>5, <2>1, <2>2, <2>3 DEF ResultRight
  <1>. QED
    BY <1>6, <1>7


-----------------------------------------------------------------------------
(***************************************************************************)
(* The inductive invariant.                                                *)
(***************************************************************************)
LEMMA IInvInit == Init => IInv
  <1>. SUFFICES ASSUME Init PROVE IInv
    OBVIOUS
  <1>1. TypeOK
    <2>1. /\ log \in [Devices -> Seq(Row)] /\ rows \in [Devices -> Seq(Row)]
          /\ intervals \in Seq(Interval) /\ merged \in Seq(Interval) /\ out \in Seq(Interval)
      BY DEF Init
    <2>2. cur \in [start : Time \cup {NoTime}, end : Time \cup {NoTime},
                   devices : SUBSET Devices, gaps : Nat, bridged : Nat]
      BY DEF Init, Nothing
    <2>. QED
      BY <2>1, <2>2 DEF Init, TypeOK
  <1>2. \A m \in Devices : InOrder(log[m])
    BY DEF Init, InOrder
  <1>3. AtRest
    BY DEF Init, AtRest
  <1>4. IntervalsRight
    BY DEF Init, IntervalsRight
  <1>. QED
    BY <1>1, <1>2, <1>3, <1>4 DEF Init, IInv

LEMMA ObserveKeeps ==
  ASSUME IInv, NEW m \in Devices, NEW t \in Time, NEW c \in BOOLEAN, Observe(m, t, c)
  PROVE  IInv'
  <1>. DEFINE row == [at |-> t, connected |-> c]
  <1>1. /\ pc = "idle" /\ pc' = "idle"
        /\ \A i \in 1 .. Len(log[m]) : log[m][i].at <= t
        /\ log' = [log EXCEPT ![m] = Append(@, row)]
        /\ UNCHANGED <<pc, target, intervals, cur, merged, out, sessions,
                       rows, unscanned, openAt, lastTrue, pending, openCount>>
    BY DEF Observe, scanVars, sweepVars
  <1>2. TypeOK /\ AtRest /\ intervals = <<>>
    BY <1>1 DEF IInv, AtRest
  <1>3. row \in Row /\ row.at = t
    BY DEF Row
  <1>4. log \in [Devices -> Seq(Row)] /\ log[m] \in Seq(Row)
    BY <1>2 DEF TypeOK
  <1>. HIDE DEF row
  <1>5. log'[m] = Append(log[m], row) /\ \A n \in Devices \ {m} : log'[n] = log[n]
    BY <1>1, <1>4
  <1>6. /\ log'[m] \in Seq(Row) /\ DOMAIN (log'[m]) = 1 .. Len(log[m]) + 1 /\ Len(log[m]) \in Nat
        /\ \A i \in 1 .. Len(log[m]) : log'[m][i] = log[m][i]
        /\ log'[m][Len(log[m]) + 1] = row
    BY <1>3, <1>4, <1>5, AppendProperties
  <1>7. log' \in [Devices -> Seq(Row)]
    BY <1>1, <1>4, <1>5, <1>6
  <1>8. TypeOK'
    BY <1>1, <1>2, <1>7 DEF TypeOK
  <1>9. InOrder(log[m]) /\ DOMAIN log[m] = 1 .. Len(log[m])
    BY <1>4, RowsAre DEF IInv
  <1>10. \A i \in 1 .. Len(log[m]) : log[m][i].at \in Nat
    BY <1>4, RowsAre
  <1>11. t \in Nat
    BY Numbers
  <1>12. ASSUME NEW i \in 1 .. Len(log[m]) + 1, NEW j \in 1 .. Len(log[m]) + 1, i <= j
         PROVE  log'[m][i].at <= log'[m][j].at
    <2>1. CASE j = Len(log[m]) + 1 /\ i = j
      BY <2>1, <1>3, <1>6, <1>11
    <2>2. CASE j = Len(log[m]) + 1 /\ i # j
      <3>1. i \in 1 .. Len(log[m])
        BY <2>2, <1>6
      <3>. QED
        BY <2>2, <3>1, <1>1, <1>3, <1>6
    <2>3. CASE j # Len(log[m]) + 1
      <3>1. i \in 1 .. Len(log[m]) /\ j \in 1 .. Len(log[m])
        BY <2>3, <1>6, <1>12
      <3>2. log[m][i].at <= log[m][j].at
        BY <3>1, <1>9, <1>12 DEF InOrder
      <3>. QED
        BY <3>1, <3>2, <1>6
    <2>. QED
      BY <2>1, <2>2, <2>3
  <1>13. ASSUME NEW n \in Devices PROVE InOrder(log[n])'
    <2>1. CASE n = m
      <3>1. InOrder(log'[m])
        BY <1>6, <1>12 DEF InOrder
      <3>. QED
        BY <2>1, <3>1 DEF InOrder
    <2>2. CASE n # m
      BY <2>2, <1>5 DEF InOrder, IInv
    <2>. QED
      BY <2>1, <2>2
  <1>14. AtRest'
    BY <1>1, <1>2 DEF AtRest
  <1>15. IntervalsRight'
    BY <1>1, <1>2 DEF IntervalsRight
  <1>. QED
    BY <1>1, <1>8, <1>13, <1>14, <1>15 DEF IInv

\* Whatever leaves the log alone leaves it in order.
LEMMA LogKept ==
  ASSUME IInv, UNCHANGED log
  PROVE  log' \in [Devices -> Seq(Row)] /\ \A m \in Devices : InOrder(log[m])'
  <1>1. log \in [Devices -> Seq(Row)] /\ \A m \in Devices : InOrder(log[m])
    BY DEF IInv, TypeOK
  <1>. QED
    BY <1>1 DEF InOrder

LEMMA LoadKeeps ==
  ASSUME IInv, NEW d \in Targets, Load(d)
  PROVE  IInv'
  <1>1. /\ pc = "idle" /\ pc' = "scan" /\ target' = d /\ unscanned' = Devices
        /\ UNCHANGED <<log, openAt, lastTrue, intervals, cur, merged, out, sessions,
                       pending, openCount>>
    BY DEF Load, sweepVars
  <1>2. TypeOK /\ AtRest
    BY DEF IInv
  <1>3. IntervalsRight' /\ rows' \in [Devices -> Seq(Row)]
    BY LoadRight
  <1>4. TypeOK'
    BY <1>1, <1>2, <1>3, LogKept DEF TypeOK
  <1>5. AtRest'
    BY <1>1, <1>2 DEF AtRest
  <1>. QED
    BY <1>1, <1>3, <1>4, <1>5, LogKept DEF IInv

LEMMA ScanKeeps ==
  ASSUME IInv, NEW m \in Devices, ScanConnected(m) \/ ScanDisconnected(m) \/ ScanEnd(m)
  PROVE  IInv'
  <1>1. /\ pc = "scan" /\ m \in unscanned
        /\ UNCHANGED <<log, pc, target, cur, merged, out, sessions, pending, openCount>>
    BY DEF ScanConnected, ScanDisconnected, ScanEnd, Scanning, sweepVars
  <1>2. TypeOK /\ AtRest
    BY DEF IInv
  <1>3. IntervalsRight' /\ intervals' \in Seq(Interval)
    <2>1. CASE ScanConnected(m)
      BY <2>1, <1>2, ScanConnectedRight DEF ScanConnected, TypeOK
    <2>2. CASE ScanDisconnected(m)
      BY <2>2, ScanDisconnectedRight
    <2>3. CASE ScanEnd(m)
      BY <2>3, ScanEndRight
    <2>. QED
      BY <2>1, <2>2, <2>3
  <1>4. /\ rows' \in [Devices -> Seq(Row)] /\ unscanned' \subseteq Devices
        /\ openAt' \in Time \cup {NoTime} /\ lastTrue' \in Time \cup {NoTime}
        /\ unscanned' = {} => openAt' = NoTime
    <2>1. rows \in [Devices -> Seq(Row)] /\ rows[m] \in Seq(Row) /\ unscanned \subseteq Devices
      BY <1>2 DEF TypeOK
    <2>2. rows[m] # <<>> => Tail(rows[m]) \in Seq(Row) /\ Head(rows[m]) \in Row
      BY <2>1
    <2>3. rows[m] # <<>> => Head(rows[m]).at \in Time
      BY <2>2 DEF Row
    <2>4. CASE ScanConnected(m)
      BY <2>1, <2>2, <2>3, <2>4, <1>1, <1>2 DEF ScanConnected, TypeOK
    <2>5. CASE ScanDisconnected(m)
      BY <2>1, <2>2, <2>5, <1>1 DEF ScanDisconnected
    <2>6. CASE ScanEnd(m)
      BY <2>1, <2>6 DEF ScanEnd
    <2>. QED
      BY <2>4, <2>5, <2>6
  <1>5. TypeOK'
    BY <1>1, <1>2, <1>3, <1>4, LogKept DEF TypeOK
  <1>6. AtRest'
    BY <1>1, <1>2, <1>4 DEF AtRest
  <1>. QED
    BY <1>1, <1>3, <1>5, <1>6, LogKept DEF IInv


LEMMA StartSweepKeeps ==
  ASSUME IInv, StartSweep
  PROVE  IInv'
  <1>1. /\ pc = "scan" /\ pc' = "sweep" /\ unscanned = {} /\ pending' = Events
        /\ UNCHANGED <<log, target, intervals, openCount, cur, merged, out, sessions,
                       rows, unscanned, openAt, lastTrue>>
    BY DEF StartSweep, scanVars
  <1>2. TypeOK /\ AtRest
    BY DEF IInv
  <1>3. TypeOK'
    BY <1>1, <1>2, EventFacts, LogKept DEF TypeOK
  <1>4. AtRest'
    BY <1>1, <1>2 DEF AtRest
  <1>5. IntervalsRight' /\ SweepRight'
    BY <1>1, IntervalsKept, StartSweepRight
  <1>. QED
    BY <1>1, <1>3, <1>4, <1>5, LogKept DEF IInv

LEMMA SweepKeeps ==
  ASSUME IInv, NEW e \in pending, SweepBegin(e) \/ SweepEnd(e)
  PROVE  IInv'
  <1>1. /\ pc = "sweep" /\ pending' = pending \ {e}
        /\ UNCHANGED <<log, pc, target, intervals, out, sessions,
                       rows, unscanned, openAt, lastTrue>>
    BY DEF SweepBegin, SweepEnd, scanVars
  <1>2. TypeOK /\ AtRest
    BY DEF IInv
  <1>3. SweepRight' /\ openCount' \in Nat
    BY SweepBeginRight, SweepEndRight
  <1>4. merged' \in Seq(Interval)
    <2>1. CASE SweepBegin(e)
      BY <2>1, <1>2 DEF SweepBegin, TypeOK
    <2>. QED
      BY <2>1, SweepEndRight
  <1>5. cur' \in [start : Time \cup {NoTime}, end : Time \cup {NoTime},
                  devices : SUBSET Devices, gaps : Nat, bridged : Nat]
    <2>1. cur \in [start : Time \cup {NoTime}, end : Time \cup {NoTime},
                   devices : SUBSET Devices, gaps : Nat, bridged : Nat]
      BY <1>2 DEF TypeOK
    <2>2. CASE SweepBegin(e)
      <3>1. /\ cur'.devices \in SUBSET Devices /\ cur'.start \in Time /\ cur'.end = cur.end
            /\ cur' = [start |-> cur'.start, end |-> cur'.end, devices |-> cur'.devices,
                       gaps |-> 0, bridged |-> 0]
        BY <2>2, SweepBeginRight
      <3>2. cur.end \in Time \cup {NoTime}
        BY <2>1
      <3>. QED
        BY <3>1, <3>2
    <2>3. CASE SweepEnd(e)
      <3>1. cur' = Nothing \/ cur' = cur
        BY <2>3 DEF SweepEnd
      <3>. QED
        BY <2>1, <3>1 DEF Nothing
    <2>. QED
      BY <2>2, <2>3
  <1>6. TypeOK'
    BY <1>1, <1>2, <1>3, <1>4, <1>5, LogKept DEF TypeOK
  <1>7. AtRest'
    BY <1>1, <1>2 DEF AtRest
  <1>8. IntervalsRight'
    BY <1>1, IntervalsKept
  <1>. QED
    BY <1>1, <1>3, <1>6, <1>7, <1>8, LogKept DEF IInv

LEMMA StartBridgeKeeps ==
  ASSUME IInv, StartBridge
  PROVE  IInv'
  <1>1. /\ pc = "sweep" /\ pending = {} /\ pc' = "bridge"
        /\ UNCHANGED <<log, target, intervals, out, sessions,
                       rows, unscanned, openAt, lastTrue, pending, openCount>>
    BY DEF StartBridge, scanVars, sweepVars
  <1>2. TypeOK /\ AtRest /\ SweepRight
    BY <1>1 DEF IInv
  <1>3. BridgeRight' /\ merged' \in Seq(Interval) /\ (cur' = Nothing \/ cur' \in Interval)
    BY StartBridgeRight
  <1>4. TypeOK'
    BY <1>1, <1>2, <1>3, LogKept DEF TypeOK, Nothing, Interval
  <1>5. openCount = 0
    <2>1. openCount = Cardinality(Open)
      BY <1>2 DEF SweepRight
    <2>2. Open = {}
      BY <1>1 DEF Open
    <2>3. Cardinality({}) = 0
      BY FS_EmptySet
    <2>. QED
      BY <2>1, <2>2, <2>3
  <1>6. AtRest'
    BY <1>1, <1>2, <1>5 DEF AtRest
  <1>7. IntervalsRight'
    BY <1>1, IntervalsKept
  <1>. QED
    BY <1>1, <1>3, <1>4, <1>6, <1>7, LogKept DEF IInv

LEMMA BridgeNextKeeps ==
  ASSUME IInv, BridgeNext
  PROVE  IInv'
  <1>1. /\ pc = "bridge"
        /\ UNCHANGED <<log, pc, target, intervals, sessions,
                       rows, unscanned, openAt, lastTrue, pending, openCount>>
    BY DEF BridgeNext, scanVars, sweepVars
  <1>2. TypeOK /\ AtRest
    BY DEF IInv
  <1>3. /\ BridgeRight' /\ merged' \in Seq(Interval) /\ out' \in Seq(Interval)
        /\ cur' \in Interval
    BY BridgeNextRight
  <1>4. TypeOK'
    BY <1>1, <1>2, <1>3, LogKept DEF TypeOK, Interval
  <1>5. AtRest'
    BY <1>1, <1>2 DEF AtRest
  <1>6. IntervalsRight'
    BY <1>1, IntervalsKept
  <1>. QED
    BY <1>1, <1>3, <1>4, <1>5, <1>6, LogKept DEF IInv

LEMMA FinishKeeps ==
  ASSUME IInv, Finish
  PROVE  IInv'
  <1>1. /\ pc = "bridge" /\ merged = <<>> /\ pc' = "done" /\ cur' = Nothing
        /\ sessions' = { out'[i] : i \in { j \in DOMAIN out' : Counts(out'[j]) } }
        /\ UNCHANGED <<log, target, intervals, merged,
                       rows, unscanned, openAt, lastTrue, pending, openCount>>
    BY DEF Finish, scanVars, sweepVars
  <1>2. TypeOK /\ AtRest
    BY DEF IInv
  <1>3. ResultRight' /\ out' \in Seq(Interval)
    BY FinishRight
  <1>4. sessions' \subseteq Interval
    BY <1>1, <1>3
  <1>5. TypeOK'
    BY <1>1, <1>2, <1>3, <1>4, LogKept DEF TypeOK, Nothing
  <1>6. AtRest'
    BY <1>1, <1>2 DEF AtRest
  <1>7. IntervalsRight'
    BY <1>1, IntervalsKept
  <1>. QED
    BY <1>1, <1>3, <1>5, <1>6, <1>7, LogKept DEF IInv

LEMMA ReturnKeeps ==
  ASSUME IInv, Return
  PROVE  IInv'
  <1>1. /\ pc = "done" /\ pc' = "idle" /\ target' = NoTime
        /\ intervals' = <<>> /\ out' = <<>> /\ sessions' = {}
        /\ UNCHANGED <<log, cur, merged, rows, unscanned, openAt, lastTrue, pending, openCount>>
    BY DEF Return, scanVars, sweepVars
  <1>2. TypeOK /\ AtRest
    BY DEF IInv
  <1>3. TypeOK'
    BY <1>1, <1>2, LogKept DEF TypeOK
  <1>4. AtRest'
    BY <1>1, <1>2 DEF AtRest
  <1>5. IntervalsRight'
    BY <1>1 DEF IntervalsRight
  <1>. QED
    BY <1>1, <1>3, <1>4, <1>5, LogKept DEF IInv

LEMMA StutterKeeps ==
  ASSUME IInv, UNCHANGED vars
  PROVE  IInv'
  <1>1. UNCHANGED <<log, pc, target, rows, unscanned, openAt, lastTrue, intervals,
                    pending, openCount, cur, merged, out, sessions>>
    BY DEF vars
  <1>2. TypeOK' /\ AtRest'
    BY <1>1 DEF IInv, TypeOK, AtRest
  <1>3. IntervalsRight'
    <2>1. /\ Loaded(target)' = Loaded(target) /\ OpenPart' = OpenPart
          /\ \A m : Found(m)' = Found(m) /\ Scanned(m)' = Scanned(m)
          /\ \A m : Scanning(m)' <=> Scanning(m)
      BY <1>1, SameView DEF Found, OpenPart, Scanned, Scanning, Within
    <2>2. \A m : ScanRight(m)' <=> ScanRight(m)
      BY <1>1, <2>1 DEF ScanRight
    <2>3. \A i : PlainInterval(intervals[i])' <=> PlainInterval(intervals[i])
      BY <1>1 DEF PlainInterval
    <2>. QED
      BY <1>1, <2>1, <2>2, <2>3 DEF IInv, IntervalsRight
  <1>4. pc = "sweep" => SweepRight'
    <2>1. Cov' = Cov /\ Events' = Events /\ Begun' = Begun /\ Open' = Open
      BY <1>1, SameView DEF Events, Begun, Open, BeginOf, EndOf
    <2>2. /\ \A i : Among(i, cur)' <=> Among(i, cur)
          /\ \A i, j : Inside(i, merged[j])' <=> Inside(i, merged[j])
          /\ \A j : Within(merged[j])' = Within(merged[j])
      BY <1>1 DEF Among, Inside, Within
    <2>. QED
      BY <1>1, <2>1, <2>2 DEF IInv, SweepRight
  <1>5. pc = "bridge" => BridgeRight'
    BY <1>1, SameView DEF IInv, BridgeRight
  <1>6. pc = "done" => ResultRight'
    BY <1>1, SameView DEF IInv, ResultRight, Counts
  <1>. QED
    BY <1>1, <1>2, <1>3, <1>4, <1>5, <1>6, LogKept DEF IInv

\* The loops do what the set of covered instants says: every step of the scan,
\* the sweep and the bridge keeps the part of the invariant that is about it,
\* and each loop hands the next what that one starts from (build_sessions_for_date).
THEOREM Invariance == Spec => []IInv
  <1>1. ASSUME IInv, [Next]_vars PROVE IInv'
    <2>1. CASE \E m \in Devices : \E t \in Time : \E c \in BOOLEAN : Observe(m, t, c)
      BY <2>1, <1>1, ObserveKeeps
    <2>2. CASE \E d \in Targets : Load(d)
      BY <2>2, <1>1, LoadKeeps
    <2>3. CASE \E m \in Devices : ScanConnected(m) \/ ScanDisconnected(m) \/ ScanEnd(m)
      BY <2>3, <1>1, ScanKeeps
    <2>4. CASE StartSweep
      BY <2>4, <1>1, StartSweepKeeps
    <2>5. CASE \E e \in pending : SweepBegin(e) \/ SweepEnd(e)
      BY <2>5, <1>1, SweepKeeps
    <2>6. CASE StartBridge
      BY <2>6, <1>1, StartBridgeKeeps
    <2>7. CASE BridgeNext
      BY <2>7, <1>1, BridgeNextKeeps
    <2>8. CASE Finish
      BY <2>8, <1>1, FinishKeeps
    <2>9. CASE Return
      BY <2>9, <1>1, ReturnKeeps
    <2>10. CASE UNCHANGED vars
      BY <2>10, <1>1, StutterKeeps
    <2>. QED
      BY <2>1, <2>2, <2>3, <2>4, <2>5, <2>6, <2>7, <2>8, <2>9, <2>10, <1>1 DEF Next
  <1>. QED
    BY <1>1, IInvInit, PTL DEF Spec

\* The types of the builder's variables.
THEOREM Types == Spec => []TypeOK
  <1>1. IInv => TypeOK
    BY DEF IInv
  <1>. QED
    BY <1>1, Invariance, PTL


-----------------------------------------------------------------------------
(***************************************************************************)
(* What follows once the builder is done.  The pieces are the intervals    *)
(* the bridge produced, before the filter.                                 *)
(***************************************************************************)
LEMMA Pieces ==
  ASSUME IInv, pc = "done"
  PROVE  /\ target \in Targets /\ target \in Nat
         /\ \A j \in DOMAIN out : out[j] \in Interval /\ Linked(out[j])
         /\ \A j \in DOMAIN out : \A k \in DOMAIN out :
              j # k => Apart(out[j], out[k]) \/ Apart(out[k], out[j])
         /\ \A p \in Cov : \E j \in DOMAIN out : p \in Within(out[j])
         /\ sessions = { out[i] : i \in { j \in DOMAIN out : Counts(out[j]) } }
  <1>1. ResultRight /\ out \in Seq(Interval) /\ target \in Targets
    BY DEF IInv, TypeOK, AtRest
  <1>2. \A j \in DOMAIN out : out[j] \in Interval
    BY <1>1
  <1>3. \A j \in DOMAIN out : \A k \in DOMAIN out :
          j # k => Apart(out[j], out[k]) \/ Apart(out[k], out[j])
    <2>1. \A j \in DOMAIN out : j \in Nat
      BY <1>1
    <2>2. \A j \in DOMAIN out : \A k \in DOMAIN out : j # k => j < k \/ k < j
      BY <2>1
    <2>. QED
      BY <1>1, <2>2 DEF ResultRight
  <1>. QED
    BY <1>1, <1>2, <1>3, Numbers DEF ResultRight

\* No instant within reach of a piece is covered but those in it.
LEMMA NothingNear ==
  ASSUME IInv, pc = "done", NEW j \in DOMAIN out
  PROVE  /\ Cov \cap (2 * out[j].start - Reach .. 2 * out[j].start - 1) = {}
         /\ Cov \cap (2 * out[j].end + 1 .. 2 * out[j].end + Reach) = {}
  <1>1. /\ out[j].start \in Nat /\ out[j].end \in Nat /\ out[j].start <= out[j].end
        /\ GapBridge \in Nat /\ Reach \in Nat /\ Reach < 2 * GapBridge + 2
    BY Pieces, IntervalIs, Numbers DEF Linked
  <1>2. ASSUME NEW p \in Cov, p < 2 * out[j].start \/ 2 * out[j].end < p
        PROVE  p < 2 * out[j].start - Reach \/ 2 * out[j].end + Reach < p
    <2>1. PICK k \in DOMAIN out : p \in Within(out[k])
      BY Pieces
    <2>2. /\ out[k].start \in Nat /\ out[k].end \in Nat
          /\ p \in Int /\ 2 * out[k].start <= p /\ p <= 2 * out[k].end
      BY <2>1, Pieces, IntervalIs
    <2>3. k # j
      BY <1>1, <1>2, <2>2
    <2>4. out[j].end + GapBridge < out[k].start \/ out[k].end + GapBridge < out[j].start
      BY <2>3, Pieces DEF Apart
    <2>. QED
      BY <1>1, <2>2, <2>4
  <1>3. \A p \in Cov : p \in Nat
    BY CovFacts
  <1>. QED
    BY <1>1, <1>2, <1>3

LEMMA RunsArePieces ==
  ASSUME IInv, pc = "done"
  PROVE  Runs(Cov) = { Span(out[j]) : j \in DOMAIN out }
  <1>1. \A p \in Cov : p \in Nat
    BY CovFacts
  <1>2. Reach \in Nat
    BY Numbers
  <1>3. ASSUME NEW r \in Runs(Cov)
        PROVE  \E j \in DOMAIN out : r = Span(out[j])
    <2>1. /\ r = <<r[1], r[2]>> /\ r[1] \in Cov /\ r[2] \in Cov /\ r[1] <= r[2]
          /\ Cov \cap (r[1] - Reach .. r[1] - 1) = {}
          /\ Cov \cap (r[2] + 1 .. r[2] + Reach) = {}
          /\ \A p \in Cov : r[1] <= p /\ p < r[2] => Cov \cap (p + 1 .. p + Reach) # {}
      BY DEF Runs
    <2>2. PICK j \in DOMAIN out : r[1] \in Within(out[j])
      BY <2>1, Pieces
    <2>3. /\ out[j].start \in Nat /\ out[j].end \in Nat
          /\ 2 * out[j].start <= r[1] /\ r[1] <= 2 * out[j].end
      BY <2>2, Pieces, IntervalIs
    <2>4. r[1] \in Nat /\ r[2] \in Nat
      BY <2>1, <1>1
    <2>5. r[1] = 2 * out[j].start
      <3>1. ~(2 * out[j].start < r[1])
        BY <2>1, <2>3, Pieces DEF Linked
      <3>. QED
        BY <2>3, <2>4, <3>1
    <2>6. ~(r[2] < 2 * out[j].end)
      <3>1. r[2] < 2 * out[j].end => Cov \cap (r[2] + 1 .. r[2] + Reach) # {}
        BY <2>1, <2>5, Pieces DEF Linked
      <3>. QED
        BY <2>1, <3>1
    <2>7. ~(2 * out[j].end < r[2])
      <3>1. 2 * out[j].end \in Cov
        BY Pieces DEF Linked
      <3>2. 2 * out[j].end < r[2] =>
              Cov \cap (2 * out[j].end + 1 .. 2 * out[j].end + Reach) # {}
        BY <2>1, <2>3, <3>1
      <3>. QED
        BY <3>2, NothingNear
    <2>8. r[2] = 2 * out[j].end
      BY <2>3, <2>4, <2>6, <2>7
    <2>. QED
      BY <2>1, <2>5, <2>8 DEF Span
  <1>4. ASSUME NEW j \in DOMAIN out
        PROVE  Span(out[j]) \in Runs(Cov)
    <2>1. /\ 2 * out[j].start \in Cov /\ 2 * out[j].end \in Cov
          /\ out[j].start <= out[j].end
          /\ out[j].start \in Nat /\ out[j].end \in Nat
          /\ \A p \in Cov : 2 * out[j].start <= p /\ p < 2 * out[j].end =>
               Cov \cap (p + 1 .. p + Reach) # {}
      BY Pieces, IntervalIs DEF Linked
    <2>2. 2 * out[j].start <= 2 * out[j].end
      BY <2>1
    <2>. QED
      BY <2>1, <2>2, NothingNear DEF Runs, Span
  <1>. QED
    BY <1>3, <1>4

\* The sessions are the runs of covered instants that are long enough and begin
\* on the date: the scan, the sweep, the bridge and the filter together compute
\* what the definition says, for every log (build_sessions_for_date).
THEOREM Exactness == Spec => []SessionsExact
  <1>1. IInv => SessionsExact
    <2>. SUFFICES ASSUME IInv, pc = "done"
                 PROVE  { Span(s) : s \in sessions } = Expected(Cov, target)
      BY DEF SessionsExact
    <2>1. ASSUME NEW j \in DOMAIN out
          PROVE  Counts(out[j]) <=>
                   /\ Span(out[j])[2] - Span(out[j])[1] >= 2 * MinSession
                   /\ DateOf(Span(out[j])[1] \div 2) = target
      <3>1. out[j].start \in Nat /\ out[j].end \in Nat /\ MinSession \in Nat
        BY Pieces, IntervalIs, Numbers
      <3>2. Span(out[j])[1] = 2 * out[j].start /\ Span(out[j])[2] = 2 * out[j].end
        BY DEF Span
      <3>3. Span(out[j])[1] \div 2 = out[j].start
        BY <3>1, <3>2, Halves
      <3>4. 2 * out[j].end - 2 * out[j].start >= 2 * MinSession
              <=> out[j].end - out[j].start >= MinSession
        BY <3>1
      <3>. QED
        BY <3>2, <3>3, <3>4 DEF Counts
    <2>2. sessions = { out[i] : i \in { j \in DOMAIN out : Counts(out[j]) } }
      BY Pieces
    <2>. QED
      BY <2>1, <2>2, RunsArePieces DEF Expected
  <1>. QED
    BY <1>1, Invariance, PTL

\* Every session accounts for its gaps, for the time in them and for its
\* devices: the sums the bridge keeps are those of the set of covered instants.
THEOREM Accounting == Spec => []SessionsAccounted
  <1>1. IInv => SessionsAccounted
    <2>. SUFFICES ASSUME IInv, pc = "done", NEW s \in sessions
                 PROVE  Accounted(s)
      BY DEF SessionsAccounted
    <2>1. \E j \in DOMAIN out : s = out[j]
      BY Pieces
    <2>. QED
      BY <2>1, Pieces DEF Linked
  <1>. QED
    BY <1>1, Invariance, PTL


-----------------------------------------------------------------------------
(***************************************************************************)
(* From the loaded rows back to the log.                                   *)
(***************************************************************************)
\* Row i of device m shows it at p: alone, or together with the row after it.
Alone(m, i, p) ==
  i \in DOMAIN log[m] /\ log[m][i].connected /\ p = 2 * log[m][i].at

Until(m, i, p) ==
  /\ i \in DOMAIN log[m] /\ i + 1 \in DOMAIN log[m]
  /\ log[m][i].connected
  /\ 2 * log[m][i].at <= p /\ p <= 2 * log[m][i + 1].at

LEMMA LogRows ==
  ASSUME IInv, NEW m \in Devices
  PROVE  /\ log \in [Devices -> Seq(Row)] /\ log[m] \in Seq(Row) /\ InOrder(log[m])
         /\ Len(log[m]) \in Nat /\ DOMAIN log[m] = 1 .. Len(log[m])
         /\ \A i \in DOMAIN log[m] : /\ i \in Nat /\ log[m][i].at \in Time
                                     /\ log[m][i].at \in Nat
                                     /\ log[m][i].connected \in BOOLEAN
         /\ \A i, j \in DOMAIN log[m] : i <= j => log[m][i].at <= log[m][j].at
  <1>1. log \in [Devices -> Seq(Row)] /\ log[m] \in Seq(Row) /\ InOrder(log[m])
    BY DEF IInv, TypeOK
  <1>. QED
    BY <1>1, RowsAre DEF InOrder

LEMMA WholeCovered ==
  ASSUME IInv, NEW p
  PROVE  p \in Covered(log) <=>
           p \in Instants /\ \E m \in Devices : \E i : Alone(m, i, p) \/ Until(m, i, p)
  <1>1. ASSUME NEW m \in Devices
        PROVE  p \in CoveredBy(log[m]) <=>
                 p \in Instants /\ \E i : Alone(m, i, p) \/ Until(m, i, p)
    <2>1. Len(log[m]) \in Nat /\ DOMAIN log[m] = 1 .. Len(log[m])
      BY LogRows
    <2>2. \A i \in DOMAIN log[m] : log[m][i].at \in Nat
      BY LogRows
    <2>3. \A i \in DOMAIN log[m] : i < Len(log[m]) <=> i + 1 \in DOMAIN log[m]
      BY <2>1
    <2>4. p \in CoveredBy(log[m]) <=>
            p \in Instants /\ \E i \in DOMAIN log[m] :
              /\ log[m][i].connected
              /\ 2 * log[m][i].at <= p
              /\ \/ p = 2 * log[m][i].at
                 \/ i < Len(log[m]) /\ p <= 2 * log[m][i + 1].at
      BY <2>1 DEF CoveredBy, CoveredByFirst
    <2>5. \A i \in DOMAIN log[m] : 2 * log[m][i].at <= 2 * log[m][i].at
      BY <2>2
    <2>. QED
      BY <2>3, <2>4, <2>5 DEF Alone, Until
  <1>2. p \in Covered(log) <=> \E m \in Devices : p \in CoveredBy(log[m])
    BY DEF Covered
  <1>. QED
    BY <1>1, <1>2

LEMMA PartCovered ==
  ASSUME IInv, target \in Targets, NEW p
  PROVE  p \in Cov <=>
           p \in Instants /\ \E m \in Devices : \E i :
             /\ Lower(target) <= log[m][i].at
             /\ \/ Alone(m, i, p) /\ log[m][i].at <= Upper(target)
                \/ Until(m, i, p) /\ log[m][i + 1].at <= Upper(target)
  <1>1. target \in Nat /\ Lower(target) \in Int /\ Upper(target) \in Int
    BY Numbers, Dates
  <1>2. ASSUME NEW m \in Devices
        PROVE  p \in CoveredBy(Loaded(target)[m]) <=>
                 p \in Instants /\ \E i :
                   /\ Lower(target) <= log[m][i].at
                   /\ \/ Alone(m, i, p) /\ log[m][i].at <= Upper(target)
                      \/ Until(m, i, p) /\ log[m][i + 1].at <= Upper(target)
    <2>a. PICK a : a = UpTo(log[m], Lower(target) - 1)
      OBVIOUS
    <2>b. PICK seq : seq = Loaded(target)[m]
      OBVIOUS
    <2>c. log \in [Devices -> Seq(Row)] /\ InOrder(log[m])
      BY LogRows
    <2>0. PartOf(seq, log[m], a, target)
      BY <1>1, <2>a, <2>b, <2>c, LoadedRows
    <2>1. /\ a \in Nat /\ seq \in Seq(Row) /\ InOrder(seq)
          /\ \A i \in 1 .. Len(seq) :
               /\ a + i \in 1 .. Len(log[m]) /\ seq[i] = log[m][a + i]
               /\ Lower(target) <= seq[i].at /\ seq[i].at <= Upper(target)
          /\ \A j \in 1 .. Len(log[m]) :
               Lower(target) <= log[m][j].at /\ log[m][j].at <= Upper(target) =>
                 j - a \in 1 .. Len(seq) /\ seq[j - a] = log[m][j]
      BY <2>0 DEF PartOf
    <2>2. p \in CoveredBy(seq) <=>
            p \in Instants /\ \E i \in 1 .. Len(seq) :
              /\ seq[i].connected
              /\ 2 * seq[i].at <= p
              /\ \/ p = 2 * seq[i].at
                 \/ i < Len(seq) /\ p <= 2 * seq[i + 1].at
      BY DEF CoveredBy, CoveredByFirst
    <2>3. Len(seq) \in Nat /\ DOMAIN log[m] = 1 .. Len(log[m]) /\ Len(log[m]) \in Nat
      BY <2>1, LogRows
    <2>4. \A i \in DOMAIN log[m] : log[m][i].at \in Nat
      BY LogRows
    <2>5. ASSUME NEW i \in 1 .. Len(seq), seq[i].connected, 2 * seq[i].at <= p,
                 p = 2 * seq[i].at \/ (i < Len(seq) /\ p <= 2 * seq[i + 1].at)
          PROVE  /\ Lower(target) <= log[m][a + i].at
                 /\ \/ Alone(m, a + i, p) /\ log[m][a + i].at <= Upper(target)
                    \/ Until(m, a + i, p) /\ log[m][a + i + 1].at <= Upper(target)
      <3>1. a + i \in DOMAIN log[m] /\ seq[i] = log[m][a + i] /\ a + i + 1 = a + (i + 1)
        BY <2>1, <2>3
      <3>2. CASE p = 2 * seq[i].at
        BY <2>1, <2>5, <3>1, <3>2 DEF Alone
      <3>3. CASE i < Len(seq) /\ p <= 2 * seq[i + 1].at
        <4>1. i + 1 \in 1 .. Len(seq)
          BY <2>3, <3>3
        <4>2. /\ a + i + 1 \in DOMAIN log[m] /\ seq[i + 1] = log[m][a + i + 1]
              /\ seq[i + 1].at <= Upper(target)
          BY <2>1, <2>3, <3>1, <4>1
        <4>3. /\ log[m][a + i].connected
              /\ 2 * log[m][a + i].at <= p /\ p <= 2 * log[m][a + i + 1].at
          BY <2>5, <3>1, <3>3, <4>2
        <4>4. Until(m, a + i, p)
          BY <3>1, <4>2, <4>3 DEF Until
        <4>. QED
          BY <2>1, <3>1, <4>2, <4>4
      <3>. QED
        BY <2>5, <3>2, <3>3
    <2>6. ASSUME NEW i, Alone(m, i, p), Lower(target) <= log[m][i].at,
                 log[m][i].at <= Upper(target)
          PROVE  \E j \in 1 .. Len(seq) :
                   seq[j].connected /\ 2 * seq[j].at <= p /\ p = 2 * seq[j].at
      <3>1. i \in DOMAIN log[m] /\ log[m][i].connected /\ p = 2 * log[m][i].at
        BY <2>6 DEF Alone
      <3>2. i - a \in 1 .. Len(seq) /\ seq[i - a] = log[m][i]
        BY <2>1, <2>3, <2>6, <3>1
      <3>3. 2 * log[m][i].at <= p
        BY <2>4, <3>1
      <3>. QED
        BY <3>1, <3>2, <3>3
    <2>7. ASSUME NEW i, Until(m, i, p), Lower(target) <= log[m][i].at,
                 log[m][i + 1].at <= Upper(target)
          PROVE  \E j \in 1 .. Len(seq) :
                   /\ seq[j].connected /\ 2 * seq[j].at <= p
                   /\ j < Len(seq) /\ p <= 2 * seq[j + 1].at
      <3>1. /\ i \in DOMAIN log[m] /\ i + 1 \in DOMAIN log[m] /\ log[m][i].connected
            /\ 2 * log[m][i].at <= p /\ p <= 2 * log[m][i + 1].at
        BY <2>7 DEF Until
      <3>2. i \in Nat /\ log[m][i].at <= log[m][i + 1].at
        BY <3>1, LogRows
      <3>3. Lower(target) <= log[m][i + 1].at /\ log[m][i].at <= Upper(target)
        BY <1>1, <2>4, <2>7, <3>1, <3>2
      <3>4. /\ i - a \in 1 .. Len(seq) /\ seq[i - a] = log[m][i]
            /\ (i + 1) - a \in 1 .. Len(seq) /\ seq[(i + 1) - a] = log[m][i + 1]
        BY <2>1, <2>3, <2>7, <3>1, <3>3
      <3>5. (i + 1) - a = (i - a) + 1 /\ i - a < Len(seq)
        BY <2>1, <2>3, <3>2, <3>4
      <3>. QED
        BY <3>1, <3>4, <3>5
    <2>. QED
      <3>1. (\E i \in 1 .. Len(seq) :
               /\ seq[i].connected
               /\ 2 * seq[i].at <= p
               /\ \/ p = 2 * seq[i].at
                  \/ i < Len(seq) /\ p <= 2 * seq[i + 1].at)
            => \E i : /\ Lower(target) <= log[m][i].at
                      /\ \/ Alone(m, i, p) /\ log[m][i].at <= Upper(target)
                         \/ Until(m, i, p) /\ log[m][i + 1].at <= Upper(target)
        <4>. SUFFICES ASSUME NEW j \in 1 .. Len(seq), seq[j].connected, 2 * seq[j].at <= p,
                             p = 2 * seq[j].at \/ (j < Len(seq) /\ p <= 2 * seq[j + 1].at)
                      PROVE  \E i : /\ Lower(target) <= log[m][i].at
                                    /\ \/ Alone(m, i, p) /\ log[m][i].at <= Upper(target)
                                       \/ Until(m, i, p) /\ log[m][i + 1].at <= Upper(target)
          OBVIOUS
        <4>. WITNESS a + j
        <4>. QED
          BY <2>5
      <3>2. (\E i : /\ Lower(target) <= log[m][i].at
                    /\ \/ Alone(m, i, p) /\ log[m][i].at <= Upper(target)
                       \/ Until(m, i, p) /\ log[m][i + 1].at <= Upper(target))
            => \E i \in 1 .. Len(seq) :
                 /\ seq[i].connected
                 /\ 2 * seq[i].at <= p
                 /\ \/ p = 2 * seq[i].at
                    \/ i < Len(seq) /\ p <= 2 * seq[i + 1].at
        BY <2>6, <2>7
      <3>. QED
        BY <2>b, <2>2, <3>1, <3>2
  <1>3. p \in Cov <=> \E m \in Devices : p \in CoveredBy(Loaded(target)[m])
    BY CovFacts
  <1>. QED
    BY <1>2, <1>3


LEMMA SessionFacts ==
  ASSUME IInv, pc = "done", NEW s \in sessions
  PROVE  /\ s \in Interval /\ s.start \in Nat /\ s.end \in Nat /\ s.start <= s.end
         /\ 2 * s.start \in Cov /\ 2 * s.end \in Cov
         /\ Cov \cap (2 * s.start - Reach .. 2 * s.start - 1) = {}
         /\ Cov \cap (2 * s.end + 1 .. 2 * s.end + Reach) = {}
         /\ \A p \in Cov : 2 * s.start <= p /\ p < 2 * s.end => Cov \cap (p + 1 .. p + Reach) # {}
         /\ target \in Nat /\ Lower(target) \in Int /\ Upper(target) \in Int
         /\ Lower(target) + Buffer <= s.start /\ s.end <= Upper(target)
         /\ s.end - s.start >= MinSession /\ DateOf(s.start) = target
  <1>1. PICK j \in DOMAIN out : s = out[j] /\ Counts(out[j])
    BY Pieces
  <1>2. s \in Interval /\ Linked(s) /\ target \in Nat /\ target \in Targets /\ Counts(s)
    BY <1>1, Pieces
  <1>3. s.start \in Nat /\ s.end \in Nat
    BY <1>2, IntervalIs
  <1>4. Lower(target) \in Int /\ Upper(target) \in Int /\ Lower(target) + Buffer <= s.start
    BY <1>2, <1>3, Dates DEF Counts
  <1>5. s.end <= Upper(target)
    <2>m. PICK m \in Devices : \E i :
            \/ Alone(m, i, 2 * s.end) /\ log[m][i].at <= Upper(target)
            \/ Until(m, i, 2 * s.end) /\ log[m][i + 1].at <= Upper(target)
      BY <1>2, PartCovered DEF Linked
    <2>1. PICK i :
            \/ Alone(m, i, 2 * s.end) /\ log[m][i].at <= Upper(target)
            \/ Until(m, i, 2 * s.end) /\ log[m][i + 1].at <= Upper(target)
      BY <2>m
    <2>2. CASE Alone(m, i, 2 * s.end) /\ log[m][i].at <= Upper(target)
      <3>1. log[m][i].at \in Nat /\ 2 * s.end = 2 * log[m][i].at
        BY <2>2, LogRows DEF Alone
      <3>. QED
        BY <1>3, <2>2, <3>1
    <2>3. CASE Until(m, i, 2 * s.end) /\ log[m][i + 1].at <= Upper(target)
      <3>1. log[m][i + 1].at \in Nat /\ 2 * s.end <= 2 * log[m][i + 1].at
        BY <2>3, LogRows DEF Until
      <3>. QED
        BY <1>3, <1>4, <2>3, <3>1
    <2>. QED
      BY <2>1, <2>2, <2>3
  <1>6. s.start <= s.end /\ 2 * s.start \in Cov /\ 2 * s.end \in Cov
    BY <1>2 DEF Linked
  <1>7. \A p \in Cov : 2 * s.start <= p /\ p < 2 * s.end => Cov \cap (p + 1 .. p + Reach) # {}
    BY <1>2 DEF Linked
  <1>8. /\ Cov \cap (2 * s.start - Reach .. 2 * s.start - 1) = {}
        /\ Cov \cap (2 * s.end + 1 .. 2 * s.end + Reach) = {}
    BY <1>1, NothingNear
  <1>9. s.end - s.start >= MinSession /\ DateOf(s.start) = target
    BY <1>2 DEF Counts
  <1>. QED
    BY <1>2, <1>3, <1>4, <1>5, <1>6, <1>7, <1>8, <1>9

LEMMA StampedRows ==
  ASSUME IInv, NEW s
  PROVE  /\ \A m \in Devices : \A i \in DOMAIN log[m] :
              s.start <= log[m][i].at /\ log[m][i].at <= s.end =>
                \E r \in Stamped(s) : r.at = log[m][i].at /\ r.of = m
         /\ \A r \in Stamped(s) :
              /\ s.start <= r.at /\ r.at <= s.end
              /\ \E m \in Devices : \E i \in DOMAIN log[m] :
                   /\ r.of = m /\ r.at = log[m][i].at /\ r.connected = log[m][i].connected
                   /\ r.last <=> (i = Len(log[m]) \/ log[m][i + 1].at > log[m][i].at)
  <1>1. ASSUME NEW m \in Devices, NEW i \in DOMAIN log[m],
               s.start <= log[m][i].at, log[m][i].at <= s.end
        PROVE  \E r \in Stamped(s) : r.at = log[m][i].at /\ r.of = m
    <2>. DEFINE r == [at |-> log[m][i].at, connected |-> log[m][i].connected, of |-> m,
                      last |-> i = Len(log[m]) \/ log[m][i + 1].at > log[m][i].at]
    <2>1. r.at = log[m][i].at /\ r.of = m
      OBVIOUS
    <2>2. r \in Stamped(s)
      BY <1>1, <2>1 DEF Stamped
    <2>. QED
      BY <2>1, <2>2
  <1>2. ASSUME NEW r \in Stamped(s)
        PROVE  /\ s.start <= r.at /\ r.at <= s.end
               /\ \E m \in Devices : \E i \in DOMAIN log[m] :
                    /\ r.of = m /\ r.at = log[m][i].at /\ r.connected = log[m][i].connected
                    /\ r.last <=> (i = Len(log[m]) \/ log[m][i + 1].at > log[m][i].at)
    <2>m. PICK m \in Devices : \E i \in DOMAIN log[m] :
            r = [at |-> log[m][i].at, connected |-> log[m][i].connected, of |-> m,
                 last |-> i = Len(log[m]) \/ log[m][i + 1].at > log[m][i].at]
      BY DEF Stamped
    <2>1. PICK i \in DOMAIN log[m] :
            r = [at |-> log[m][i].at, connected |-> log[m][i].connected, of |-> m,
                 last |-> i = Len(log[m]) \/ log[m][i + 1].at > log[m][i].at]
      BY <2>m
    <2>2. s.start <= r.at /\ r.at <= s.end
      BY DEF Stamped
    <2>3. /\ r.of = m /\ r.at = log[m][i].at /\ r.connected = log[m][i].connected
          /\ r.last <=> (i = Len(log[m]) \/ log[m][i + 1].at > log[m][i].at)
      BY <2>1
    <2>. QED
      BY <2>2, <2>3
  <1>. QED
    BY <1>1, <1>2

\* A pair of rows that shows an instant of a session lies within the session.
LEMMA PairWithin ==
  ASSUME IInv, pc = "done", NEW s \in sessions, NEW m \in Devices, NEW i,
         NEW p \in Cov, 2 * s.start <= p, p <= 2 * s.end, Until(m, i, p),
         Lower(target) <= log[m][i].at, log[m][i + 1].at <= Upper(target)
  PROVE  s.start <= log[m][i].at /\ log[m][i + 1].at <= s.end
  <1>1. /\ i \in DOMAIN log[m] /\ i + 1 \in DOMAIN log[m] /\ log[m][i].connected
        /\ 2 * log[m][i].at <= p /\ p <= 2 * log[m][i + 1].at
    BY DEF Until
  <1>2. /\ log[m][i].at \in Nat /\ log[m][i + 1].at \in Nat /\ log[m][i + 1].at \in Time
        /\ s.start \in Nat /\ s.end \in Nat /\ p \in Nat /\ Reach \in Nat /\ Reach >= 1
    BY <1>1, LogRows, SessionFacts, CovFacts, Numbers
  <1>3. \A q \in Nat : 2 * log[m][i].at <= q /\ q <= 2 * log[m][i + 1].at => q \in Cov
    <2>. SUFFICES ASSUME NEW q \in Nat, 2 * log[m][i].at <= q, q <= 2 * log[m][i + 1].at
                 PROVE  q \in Cov
      OBVIOUS
    <2>1. q \in Instants
      BY <1>2, Numbers DEF Instants, Time
    <2>2. Until(m, i, q)
      BY <1>1 DEF Until
    <2>3. target \in Targets
      BY Pieces
    <2>. QED
      BY <2>1, <2>2, <2>3, PartCovered
  <1>4. s.start <= log[m][i].at
    <2>. SUFFICES ASSUME log[m][i].at < s.start PROVE FALSE
      BY <1>2
    <2>1. 2 * s.start - 1 \in Nat
      BY <1>2
    <2>2. 2 * log[m][i].at <= 2 * s.start - 1 /\ 2 * s.start - 1 <= 2 * log[m][i + 1].at
      BY <1>1, <1>2
    <2>3. 2 * s.start - 1 \in Cov
      BY <1>3, <2>1, <2>2
    <2>4. 2 * s.start - 1 \in 2 * s.start - Reach .. 2 * s.start - 1
      BY <1>2
    <2>. QED
      BY <2>3, <2>4, SessionFacts
  <1>5. log[m][i + 1].at <= s.end
    <2>. SUFFICES ASSUME s.end < log[m][i + 1].at PROVE FALSE
      BY <1>2
    <2>1. 2 * s.end + 1 \in Nat
      BY <1>2
    <2>2. 2 * log[m][i].at <= 2 * s.end + 1 /\ 2 * s.end + 1 <= 2 * log[m][i + 1].at
      BY <1>1, <1>2
    <2>3. 2 * s.end + 1 \in Cov
      BY <1>3, <2>1, <2>2
    <2>4. 2 * s.end + 1 \in 2 * s.end + 1 .. 2 * s.end + Reach
      BY <1>2
    <2>. QED
      BY <2>3, <2>4, SessionFacts
  <1>. QED
    BY <1>4, <1>5

\* A session begins and ends at rows of the stream the review queue reads.
LEMMA EndsStamped ==
  ASSUME IInv, pc = "done", NEW s \in sessions
  PROVE  /\ \E r \in Stamped(s) : r.at = s.start
         /\ \E r \in Stamped(s) : r.at = s.end
  <1>1. /\ s.start \in Nat /\ s.end \in Nat /\ s.start <= s.end
        /\ 2 * s.start \in Cov /\ 2 * s.end \in Cov /\ target \in Targets
    BY SessionFacts, Pieces
  <1>2. ASSUME NEW t \in Nat, t = s.start \/ t = s.end
        PROVE  \E r \in Stamped(s) : r.at = t
    <2>1. 2 * t \in Cov /\ 2 * s.start <= 2 * t /\ 2 * t <= 2 * s.end
      BY <1>1, <1>2
    <2>m. PICK m \in Devices : \E i :
            /\ Lower(target) <= log[m][i].at
            /\ \/ Alone(m, i, 2 * t) /\ log[m][i].at <= Upper(target)
               \/ Until(m, i, 2 * t) /\ log[m][i + 1].at <= Upper(target)
      BY <1>1, <2>1, PartCovered
    <2>2. PICK i :
            /\ Lower(target) <= log[m][i].at
            /\ \/ Alone(m, i, 2 * t) /\ log[m][i].at <= Upper(target)
               \/ Until(m, i, 2 * t) /\ log[m][i + 1].at <= Upper(target)
      BY <2>m
    <2>3. CASE Alone(m, i, 2 * t)
      <3>1. i \in DOMAIN log[m] /\ log[m][i].at \in Nat /\ 2 * t = 2 * log[m][i].at
        BY <2>3, LogRows DEF Alone
      <3>2. log[m][i].at = t
        BY <3>1
      <3>. QED
        BY <1>1, <1>2, <3>1, <3>2, StampedRows
    <2>4. CASE Until(m, i, 2 * t) /\ log[m][i + 1].at <= Upper(target)
      <3>1. /\ i \in DOMAIN log[m] /\ i + 1 \in DOMAIN log[m]
            /\ log[m][i].at \in Nat /\ log[m][i + 1].at \in Nat
            /\ 2 * log[m][i].at <= 2 * t /\ 2 * t <= 2 * log[m][i + 1].at
        BY <2>4, LogRows DEF Until
      <3>2. s.start <= log[m][i].at /\ log[m][i + 1].at <= s.end
        BY <2>1, <2>2, <2>4, PairWithin
      <3>3. log[m][i].at = t \/ log[m][i + 1].at = t
        BY <1>1, <1>2, <3>1, <3>2
      <3>4. s.start <= t /\ t <= s.end
        BY <1>1, <1>2
      <3>. QED
        BY <3>1, <3>3, <3>4, StampedRows
    <2>. QED
      BY <2>2, <2>3, <2>4
  <1>. QED
    BY <1>1, <1>2


\* A hole the review queue reports is shown by one pair of rows, from end to end.
LEMMA ReportedIsCovered ==
  ASSUME IInv, pc = "done", NEW s \in sessions, NEW g \in Reportable(s)
  PROVE  2 * g[1] .. 2 * g[2] \subseteq Cov \cap Within(s)
  <1>. DEFINE at == { r.at : r \in Stamped(s) }
  <1>1. /\ g \in at \X at /\ g[1] < g[2] /\ Gap(g[2] - g[1])
        /\ at \cap (g[1] + 1 .. g[2] - 1) = {}
        /\ \E r \in LastAt(s, g[1]) : r.connected
    BY DEF Reportable, Holes
  <1>2. g[1] \in at /\ g[2] \in at
    BY <1>1
  <1>3. ASSUME NEW t \in at
        PROVE  t \in Nat /\ s.start <= t /\ t <= s.end
    <2>1. PICK r \in Stamped(s) : r.at = t
      OBVIOUS
    <2>. QED
      BY <2>1, StampedRows, LogRows
  <1>4. ASSUME NEW m \in Devices, NEW i \in DOMAIN log[m],
               s.start <= log[m][i].at, log[m][i].at <= s.end
        PROVE  log[m][i].at \in at
    BY <1>4, StampedRows
  <1>5. PICK r \in LastAt(s, g[1]) : r.connected
    BY <1>1
  <1>6. r \in Stamped(s) /\ r.at = g[1]
    BY <1>5 DEF LastAt
  <1>. HIDE DEF at
  <1>7. /\ g[1] \in Nat /\ g[2] \in Nat /\ g[1] < g[2] /\ g[2] - g[1] > 2 * GapBridge
        /\ s.start <= g[1] /\ g[1] <= s.end /\ g[2] <= s.end
    BY <1>1, <1>2, <1>3 DEF Gap
  <1>8. /\ s.start \in Nat /\ s.end \in Nat /\ target \in Targets
        /\ Lower(target) \in Int /\ Upper(target) \in Int /\ Buffer \in Nat
        /\ GapBridge \in Nat /\ Reach \in Nat /\ Reach < 2 * GapBridge + 2
        /\ Lower(target) + Buffer <= s.start /\ s.end <= Upper(target)
    BY SessionFacts, Pieces, Numbers
  <1>9. 2 * g[1] \in Cov
    <2>1. PICK m \in Devices : \E i \in DOMAIN log[m] :
            r.at = log[m][i].at /\ r.connected = log[m][i].connected
      BY <1>6, StampedRows
    <2>2. PICK i \in DOMAIN log[m] : r.at = log[m][i].at /\ r.connected = log[m][i].connected
      BY <2>1
    <2>3. Alone(m, i, 2 * g[1])
      BY <2>2, <1>5, <1>6 DEF Alone
    <2>4. log[m][i].at = g[1] /\ Lower(target) <= g[1] /\ g[1] <= Upper(target)
      BY <2>2, <1>6, <1>7, <1>8
    <2>5. 2 * g[1] \in Instants
      BY <2>2, <2>4, LogRows, Numbers
    <2>. QED
      BY <2>3, <2>4, <2>5, <1>8, PartCovered
  <1>10. Cov \cap (2 * g[1] + 1 .. 2 * g[1] + Reach) # {}
    BY <1>7, <1>8, <1>9, SessionFacts
  <1>11. PICK q \in Cov : q \in 2 * g[1] + 1 .. 2 * g[1] + Reach
    BY <1>10
  <1>12. q \in Nat /\ 2 * g[1] < q /\ q < 2 * g[2]
    BY <1>7, <1>8, <1>11, CovFacts
  <1>13. PICK m \in Devices : \E i :
           /\ Lower(target) <= log[m][i].at
           /\ \/ Alone(m, i, q) /\ log[m][i].at <= Upper(target)
              \/ Until(m, i, q) /\ log[m][i + 1].at <= Upper(target)
    BY <1>8, PartCovered
  <1>14. PICK i :
           /\ Lower(target) <= log[m][i].at
           /\ \/ Alone(m, i, q) /\ log[m][i].at <= Upper(target)
              \/ Until(m, i, q) /\ log[m][i + 1].at <= Upper(target)
    BY <1>13
  <1>15. ~Alone(m, i, q)
    <2>. SUFFICES ASSUME Alone(m, i, q) PROVE FALSE
      OBVIOUS
    <2>1. i \in DOMAIN log[m] /\ log[m][i].at \in Nat /\ q = 2 * log[m][i].at
      BY LogRows DEF Alone
    <2>2. /\ g[1] < log[m][i].at /\ log[m][i].at < g[2]
          /\ s.start <= log[m][i].at /\ log[m][i].at <= s.end
      BY <2>1, <1>7, <1>8, <1>12
    <2>3. log[m][i].at \in g[1] + 1 .. g[2] - 1
      BY <2>1, <2>2, <1>7
    <2>. QED
      BY <2>1, <2>2, <2>3, <1>1, <1>4
  <1>16. Until(m, i, q) /\ Lower(target) <= log[m][i].at /\ log[m][i + 1].at <= Upper(target)
    BY <1>14, <1>15
  <1>17. /\ i \in DOMAIN log[m] /\ i + 1 \in DOMAIN log[m] /\ log[m][i].connected
         /\ log[m][i].at \in Nat /\ log[m][i + 1].at \in Nat
         /\ 2 * log[m][i].at <= q /\ q <= 2 * log[m][i + 1].at
    BY <1>16, LogRows DEF Until
  <1>18. 2 * s.start <= q /\ q <= 2 * s.end
    BY <1>7, <1>8, <1>12
  <1>19. s.start <= log[m][i].at /\ log[m][i + 1].at <= s.end
    BY <1>16, <1>18, PairWithin
  <1>20. log[m][i].at \in at /\ log[m][i + 1].at \in at
    <2>1. i \in DOMAIN log[m] /\ i + 1 \in DOMAIN log[m]
      BY <1>17
    <2>0. InOrder(log[m]) /\ i \in Nat /\ i <= i + 1
      BY <1>17, LogRows
    <2>2. log[m][i].at <= log[m][i + 1].at
      BY <2>0, <2>1 DEF InOrder
    <2>3. log[m][i].at <= s.end /\ s.start <= log[m][i + 1].at
      BY <1>8, <1>17, <1>19, <2>2
    <2>4. log[m][i].at \in at
      BY <1>4, <1>19, <2>1, <2>3
    <2>5. log[m][i + 1].at \in at
      BY <1>4, <1>19, <2>1, <2>3
    <2>. QED
      BY <2>4, <2>5
  <1>21. log[m][i].at <= g[1] /\ g[2] <= log[m][i + 1].at
    <2>1. log[m][i].at < g[2] /\ g[1] < log[m][i + 1].at
      BY <1>7, <1>12, <1>17
    <2>2. log[m][i].at \notin g[1] + 1 .. g[2] - 1 /\ log[m][i + 1].at \notin g[1] + 1 .. g[2] - 1
      BY <1>1, <1>20
    <2>. QED
      BY <2>1, <2>2, <1>7, <1>17
  <1>22. ASSUME NEW p \in 2 * g[1] .. 2 * g[2]
         PROVE  p \in Cov /\ p \in Within(s)
    <2>1. p \in Nat /\ 2 * log[m][i].at <= p /\ p <= 2 * log[m][i + 1].at
      BY <1>7, <1>17, <1>21
    <2>2. log[m][i + 1].at \in Time
      BY <1>17, LogRows
    <2>3. p \in Instants
      BY <2>1, <2>2, <1>17, Numbers DEF Instants, Time
    <2>4. Until(m, i, p)
      BY <2>1, <1>17 DEF Until
    <2>5. p \in Cov
      BY <2>3, <2>4, <1>8, <1>16, PartCovered
    <2>6. 2 * s.start <= p /\ p <= 2 * s.end
      BY <2>1, <1>7, <1>8
    <2>. QED
      BY <2>1, <2>5, <2>6, SessionFacts, IntervalIs
  <1>. QED
    BY <1>22

\* With one device and no gap reported, no counted instant is far from a row.
LEMMA CountedIsNear ==
  ASSUME IInv, pc = "done", NEW s \in sessions, Gaps(s) = {},
         Cardinality({ r.of : r \in Stamped(s) }) = 1,
         NEW p \in Cov \cap Within(s)
  PROVE  \E r \in Stamped(s) : 2 * r.at <= p /\ p <= 2 * r.at + 4 * GapBridge
  <1>. DEFINE at == { r.at : r \in Stamped(s) }
  <1>1. /\ s.start \in Nat /\ s.end \in Nat /\ target \in Targets /\ GapBridge \in Nat
        /\ p \in Nat /\ p \in Cov /\ 2 * s.start <= p /\ p <= 2 * s.end
    BY SessionFacts, Pieces, Numbers, CovFacts, IntervalIs
  <1>2. ASSUME NEW t \in at
        PROVE  t \in Nat /\ t <= Horizon
    <2>1. PICK r \in Stamped(s) : r.at = t
      OBVIOUS
    <2>2. t \in Nat /\ t \in Time
      BY <2>1, StampedRows, LogRows
    <2>. QED
      BY <2>2, Numbers
  <1>3. ASSUME NEW m \in Devices, NEW i \in DOMAIN log[m],
               s.start <= log[m][i].at, log[m][i].at <= s.end
        PROVE  log[m][i].at \in at
    BY <1>3, StampedRows
  <1>4. s.start \in at /\ s.end \in at
    BY EndsStamped
  <1>5. \A t \in at : \E r \in Stamped(s) : r.at = t
    OBVIOUS
  <1>6. \A r \in Stamped(s) : r.at \in at
    OBVIOUS
  <1>7. Holes(s) = { h \in at \X at : /\ h[1] < h[2] /\ Gap(h[2] - h[1])
                                      /\ at \cap (h[1] + 1 .. h[2] - 1) = {} }
    BY DEF Holes
  <1>. HIDE DEF at
  <1>8. PICK t \in at : 2 * t <= p /\ \A u \in at : 2 * u <= p => u <= t
    <2>. DEFINE S == { u \in at : 2 * u <= p }
    <2>1. S \in SUBSET Nat /\ S # {} /\ \A u \in S : u <= Horizon
      BY <1>1, <1>2, <1>4
    <2>2. Horizon \in Nat
      BY Numbers
    <2>. HIDE DEF S
    <2>3. \E x \in S : \A y \in S : y <= x
      BY <2>1, <2>2, Greatest
    <2>. QED
      BY <2>3 DEF S
  <1>9. PICK z \in at : p <= 2 * z /\ \A u \in at : p <= 2 * u => z <= u
    <2>. DEFINE S == { u \in at : p <= 2 * u }
    <2>1. S \in SUBSET Nat /\ S # {}
      BY <1>1, <1>2, <1>4
    <2>. HIDE DEF S
    <2>2. \E x \in S : \A y \in S : x <= y
      BY <2>1, Least
    <2>. QED
      BY <2>2 DEF S
  <1>10. t \in Nat /\ z \in Nat
    BY <1>2
  <1>11. SUFFICES ASSUME p > 2 * t + 4 * GapBridge PROVE FALSE
    <2>1. PICK r \in Stamped(s) : r.at = t
      BY <1>5
    <2>2. ~(p > 2 * t + 4 * GapBridge) => p <= 2 * t + 4 * GapBridge
      BY <1>1, <1>10
    <2>. QED
      BY <1>8, <2>1, <2>2
  <1>12. <<t, z>> \in Holes(s)
    <2>1. t < z /\ z - t > 2 * GapBridge
      BY <1>1, <1>9, <1>10, <1>11
    <2>2. ASSUME NEW u \in at, u \in t + 1 .. z - 1
          PROVE  FALSE
      <3>1. u \in Nat /\ t < u /\ u < z
        BY <2>2, <1>2, <1>10
      <3>. QED
        BY <3>1, <1>1, <1>8, <1>9, <1>10
    <2>3. at \cap (t + 1 .. z - 1) = {}
      BY <2>2
    <2>. QED
      BY <2>1, <2>3, <1>7 DEF Gap
  <1>13. PICK r \in LastAt(s, t) : ~r.connected
    BY <1>12 DEF Gaps
  <1>14. r \in Stamped(s) /\ r.at = t /\ r.last
    BY <1>13 DEF LastAt
  <1>15. PICK n \in Devices : \E k \in DOMAIN log[n] :
           /\ r.of = n /\ r.at = log[n][k].at /\ r.connected = log[n][k].connected
           /\ r.last <=> (k = Len(log[n]) \/ log[n][k + 1].at > log[n][k].at)
    BY <1>14, StampedRows
  <1>16. PICK k \in DOMAIN log[n] :
           /\ r.of = n /\ r.at = log[n][k].at /\ r.connected = log[n][k].connected
           /\ r.last <=> (k = Len(log[n]) \/ log[n][k + 1].at > log[n][k].at)
    BY <1>15
  <1>17. /\ log[n][k].at = t /\ ~log[n][k].connected
         /\ k = Len(log[n]) \/ log[n][k + 1].at > t
    BY <1>13, <1>14, <1>16
  <1>18. PICK m \in Devices : \E i :
           /\ Lower(target) <= log[m][i].at
           /\ \/ Alone(m, i, p) /\ log[m][i].at <= Upper(target)
              \/ Until(m, i, p) /\ log[m][i + 1].at <= Upper(target)
    BY <1>1, PartCovered
  <1>19. PICK i :
           /\ Lower(target) <= log[m][i].at
           /\ \/ Alone(m, i, p) /\ log[m][i].at <= Upper(target)
              \/ Until(m, i, p) /\ log[m][i + 1].at <= Upper(target)
    BY <1>18
  <1>20. ~Alone(m, i, p)
    <2>. SUFFICES ASSUME Alone(m, i, p) PROVE FALSE
      OBVIOUS
    <2>1. i \in DOMAIN log[m] /\ log[m][i].at \in Nat /\ p = 2 * log[m][i].at
      BY LogRows DEF Alone
    <2>2. s.start <= log[m][i].at /\ log[m][i].at <= s.end /\ 2 * log[m][i].at <= p
      BY <2>1, <1>1
    <2>3. log[m][i].at <= t
      BY <2>1, <2>2, <1>3, <1>8
    <2>. QED
      BY <2>1, <2>3, <1>1, <1>10, <1>11
  <1>21. Until(m, i, p) /\ Lower(target) <= log[m][i].at /\ log[m][i + 1].at <= Upper(target)
    BY <1>19, <1>20
  <1>22. /\ i \in DOMAIN log[m] /\ i + 1 \in DOMAIN log[m] /\ log[m][i].connected
         /\ log[m][i].at \in Nat /\ log[m][i + 1].at \in Nat
         /\ 2 * log[m][i].at <= p /\ p <= 2 * log[m][i + 1].at
    BY <1>21, LogRows DEF Until
  <1>23. s.start <= log[m][i].at /\ log[m][i].at <= s.end
    <2>1. s.start <= log[m][i].at /\ log[m][i + 1].at <= s.end
      BY <1>1, <1>21, PairWithin
    <2>. QED
      BY <2>1, <1>1, <1>22
  <1>24. log[m][i].at <= t /\ t < log[m][i + 1].at
    <2>1. log[m][i].at <= t
      BY <1>3, <1>8, <1>22, <1>23
    <2>. QED
      BY <2>1, <1>1, <1>10, <1>11, <1>22
  <1>25. m = n
    <2>. DEFINE S == { x.of : x \in Stamped(s) }
    <2>1. n \in S
      BY <1>14, <1>16
    <2>2. m \in S
      BY <1>22, <1>23, StampedRows
    <2>3. S \subseteq Devices
      BY StampedRows
    <2>4. IsFiniteSet(S)
      <3>1. IsFiniteSet(Devices)
        BY BuilderAssumption
      <3>. QED
        BY <2>3, <3>1, FS_Subset
    <2>5. Cardinality(S) = 1
      OBVIOUS
    <2>. HIDE DEF S
    <2>6. \E x : S = {x}
      BY <2>4, <2>5, FS_Singleton
    <2>. QED
      BY <2>1, <2>2, <2>6
  <1>26. k \in Nat /\ i \in Nat /\ Len(log[n]) \in Nat /\ k <= Len(log[n])
    BY <1>22, <1>25, LogRows
  <1>27. CASE k < i
    <2>1. k + 1 \in DOMAIN log[n] /\ k + 1 <= i /\ k # Len(log[n]) /\ log[n][k + 1].at \in Nat
      BY <1>22, <1>25, <1>26, <1>27, LogRows
    <2>2. log[n][k + 1].at <= log[n][i].at
      BY <2>1, <1>22, <1>25, LogRows
    <2>. QED
      BY <2>1, <2>2, <1>10, <1>17, <1>22, <1>24, <1>25
  <1>28. CASE k = i
    BY <1>17, <1>22, <1>25, <1>28
  <1>29. CASE i < k
    <2>1. i + 1 <= k
      BY <1>26, <1>29
    <2>2. log[n][i + 1].at <= log[n][k].at
      BY <2>1, <1>16, <1>22, <1>25, LogRows
    <2>. QED
      BY <2>2, <1>10, <1>17, <1>22, <1>24, <1>25
  <1>. QED
    BY <1>26, <1>27, <1>28, <1>29

\* What the review queue reports as a gap in a session is time the session
\* counts without a row to show it, and a session of one device with nothing
\* reported counts no time far from a row (find_observation_gaps).
THEOREM GapReport == Spec => []GapsAreTheUnseen
  <1>1. IInv => GapsAreTheUnseen
    BY ReportedIsCovered, CountedIsNear DEF GapsAreTheUnseen
  <1>. QED
    BY <1>1, Invariance, PTL


-----------------------------------------------------------------------------
(***************************************************************************)
(* The buffer.                                                             *)
(***************************************************************************)
LEMMA PartOfWhole ==
  ASSUME IInv, target \in Targets
  PROVE  Cov \subseteq Covered(log) /\ Covered(log) \subseteq Instants
  <1>1. ASSUME NEW p \in Cov PROVE p \in Covered(log)
    BY PartCovered, WholeCovered
  <1>2. ASSUME NEW p \in Covered(log) PROVE p \in Instants
    BY WholeCovered
  <1>. QED
    BY <1>1, <1>2

\* A pair of rows shows all that lies between them.
LEMMA PairShows ==
  ASSUME IInv, NEW m \in Devices, NEW i, NEW p, Until(m, i, p),
         NEW q \in Nat, 2 * log[m][i].at <= q, q <= 2 * log[m][i + 1].at
  PROVE  Until(m, i, q) /\ q \in Covered(log)
  <1>1. i + 1 \in DOMAIN log[m] /\ Until(m, i, q)
    BY DEF Until
  <1>2. log[m][i + 1].at \in Nat /\ log[m][i + 1].at <= Horizon /\ Horizon \in Nat
    <2>1. log[m][i + 1].at \in Time
      BY <1>1, LogRows
    <2>. QED
      BY <2>1, Numbers
  <1>3. q \in Instants
    BY <1>2 DEF Instants
  <1>. QED
    BY <1>1, <1>3, WholeCovered

\* A run of the whole log that begins on the date and ends within the buffer is
\* shown, in all its instants, by loaded rows.
LEMMA RunIsLoaded ==
  ASSUME IInv, pc = "done", NEW r \in Runs(Covered(log)),
         DateOf(r[1] \div 2) = target, r[2] <= 2 * Upper(target),
         NEW p \in Covered(log), r[1] <= p, p <= r[2]
  PROVE  p \in Cov
  <1>1. /\ r[1] \in Covered(log) /\ r[2] \in Covered(log)
        /\ Covered(log) \cap (r[1] - Reach .. r[1] - 1) = {}
        /\ Covered(log) \cap (r[2] + 1 .. r[2] + Reach) = {}
    BY DEF Runs
  <1>2. target \in Targets /\ target \in Nat
    BY Pieces
  <1>3. r[1] \in Nat /\ r[2] \in Nat /\ p \in Nat /\ p \in Instants
    BY <1>1, <1>2, PartOfWhole, Numbers
  <1>4. Reach \in Nat /\ Reach >= 1 /\ Buffer \in Nat
    BY Numbers
  <1>5. Lower(target) \in Int /\ Upper(target) \in Int /\ 2 * Lower(target) <= r[1]
    <2>1. r[1] \div 2 \in Nat /\ 2 * (r[1] \div 2) <= r[1]
      BY <1>3
    <2>2. Lower(target) \in Int /\ Upper(target) \in Int /\ Lower(target) + Buffer <= r[1] \div 2
      BY <1>2, <2>1, Dates
    <2>. QED
      BY <2>1, <2>2, <1>3, <1>4
  <1>6. PICK m \in Devices : \E i : Alone(m, i, p) \/ Until(m, i, p)
    BY WholeCovered
  <1>7. PICK i : Alone(m, i, p) \/ Until(m, i, p)
    BY <1>6
  <1>8. CASE Alone(m, i, p)
    <2>1. i \in DOMAIN log[m] /\ log[m][i].at \in Nat /\ p = 2 * log[m][i].at
      BY <1>8, LogRows DEF Alone
    <2>2. Lower(target) <= log[m][i].at /\ log[m][i].at <= Upper(target)
      BY <2>1, <1>3, <1>5
    <2>. QED
      BY <2>2, <1>2, <1>3, <1>8, PartCovered
  <1>9. CASE Until(m, i, p)
    <2>1. /\ i \in DOMAIN log[m] /\ i + 1 \in DOMAIN log[m]
          /\ log[m][i].at \in Nat /\ log[m][i + 1].at \in Nat
          /\ 2 * log[m][i].at <= p /\ p <= 2 * log[m][i + 1].at
      BY <1>9, LogRows DEF Until
    <2>2. r[1] <= 2 * log[m][i].at
      <3>. SUFFICES ASSUME 2 * log[m][i].at < r[1] PROVE FALSE
        BY <1>3, <2>1
      <3>1. /\ r[1] - 1 \in Nat /\ 2 * log[m][i].at <= r[1] - 1
            /\ r[1] - 1 <= 2 * log[m][i + 1].at /\ r[1] - 1 \in r[1] - Reach .. r[1] - 1
        BY <1>3, <1>4, <2>1
      <3>2. r[1] - 1 \in Covered(log)
        BY <3>1, <1>9, PairShows
      <3>. QED
        BY <3>1, <3>2, <1>1
    <2>3. 2 * log[m][i + 1].at <= r[2]
      <3>. SUFFICES ASSUME r[2] < 2 * log[m][i + 1].at PROVE FALSE
        BY <1>3, <2>1
      <3>1. /\ r[2] + 1 \in Nat /\ 2 * log[m][i].at <= r[2] + 1
            /\ r[2] + 1 <= 2 * log[m][i + 1].at /\ r[2] + 1 \in r[2] + 1 .. r[2] + Reach
        BY <1>3, <1>4, <2>1
      <3>2. r[2] + 1 \in Covered(log)
        BY <3>1, <1>9, PairShows
      <3>. QED
        BY <3>1, <3>2, <1>1
    <2>4. Lower(target) <= log[m][i].at /\ log[m][i + 1].at <= Upper(target)
      BY <2>1, <2>2, <2>3, <1>3, <1>5
    <2>. QED
      BY <2>4, <1>2, <1>3, <1>9, PartCovered
  <1>. QED
    BY <1>7, <1>8, <1>9

LEMMA FoundWhole ==
  ASSUME IInv, pc = "done", NEW r \in Expected(Covered(log), target),
         r[2] <= 2 * Upper(target)
  PROVE  \E s \in sessions : Span(s) = r
  <1>1. /\ r \in Runs(Covered(log)) /\ DateOf(r[1] \div 2) = target
        /\ r[2] - r[1] >= 2 * MinSession
    BY DEF Expected
  <1>2. /\ r \in Covered(log) \X Covered(log) /\ r[1] <= r[2]
        /\ Covered(log) \cap (r[1] - Reach .. r[1] - 1) = {}
        /\ Covered(log) \cap (r[2] + 1 .. r[2] + Reach) = {}
        /\ \A p \in Covered(log) : r[1] <= p /\ p < r[2] =>
             Covered(log) \cap (p + 1 .. p + Reach) # {}
    BY <1>1 DEF Runs
  <1>3. Cov \subseteq Covered(log) /\ Covered(log) \subseteq Nat /\ Reach \in Nat
    BY Pieces, PartOfWhole, Numbers
  <1>4. r = <<r[1], r[2]>> /\ r[1] \in Covered(log) /\ r[2] \in Covered(log)
    BY <1>2
  <1>5. r[1] \in Nat /\ r[2] \in Nat
    BY <1>3, <1>4
  <1>6. r[1] \in Cov /\ r[2] \in Cov
    <2>1. r[1] <= r[1] /\ r[2] <= r[2]
      BY <1>5
    <2>. QED
      BY <2>1, <1>1, <1>2, <1>4, RunIsLoaded
  <1>7. ASSUME NEW p \in Cov, r[1] <= p, p < r[2]
        PROVE  Cov \cap (p + 1 .. p + Reach) # {}
    <2>1. PICK q \in Covered(log) : q \in p + 1 .. p + Reach
      BY <1>2, <1>3, <1>7
    <2>2. p \in Nat /\ q \in Nat
      BY <1>3, <2>1
    <2>3. q <= r[2]
      <3>. SUFFICES ASSUME r[2] < q PROVE FALSE
        BY <1>5, <2>2
      <3>1. q \in r[2] + 1 .. r[2] + Reach
        BY <1>3, <1>5, <1>7, <2>1, <2>2
      <3>. QED
        BY <3>1, <1>2, <2>1
    <2>4. r[1] <= q
      BY <1>3, <1>5, <1>7, <2>1, <2>2
    <2>5. q \in Cov
      BY <2>1, <2>3, <2>4, <1>1, RunIsLoaded
    <2>. QED
      BY <2>1, <2>5
  <1>8. r \in Runs(Cov)
    <2>1. r \in Cov \X Cov
      BY <1>4, <1>6
    <2>. QED
      BY <2>1, <1>2, <1>3, <1>7 DEF Runs
  <1>9. PICK j \in DOMAIN out : r = Span(out[j])
    BY <1>8, RunsArePieces
  <1>10. Counts(out[j])
    <2>1. out[j].start \in Nat /\ out[j].end \in Nat /\ MinSession \in Nat
      BY Pieces, IntervalIs, Numbers
    <2>2. r[1] = 2 * out[j].start /\ r[2] = 2 * out[j].end
      BY <1>9 DEF Span
    <2>3. r[1] \div 2 = out[j].start
      BY <2>1, <2>2, Halves
    <2>4. out[j].end - out[j].start >= MinSession
      BY <2>1, <2>2, <1>1
    <2>. QED
      BY <2>3, <2>4, <1>1 DEF Counts
  <1>. QED
    BY <1>9, <1>10, Pieces

\* With the rows of a device close together, the whole log shows nothing within
\* reach before the start of a session.
LEMMA NothingEarlier ==
  ASSUME IInv, pc = "done", Dense, NEW s \in sessions, NEW p \in Covered(log),
         p \in 2 * s.start - Reach .. 2 * s.start - 1
  PROVE  FALSE
  <1>1. /\ s.start \in Nat /\ Lower(target) \in Int /\ Upper(target) \in Int
        /\ Lower(target) + Buffer <= s.start
        /\ target \in Targets /\ target \in Nat /\ DateOf(s.start) = target
        /\ Cov \cap (2 * s.start - Reach .. 2 * s.start - 1) = {}
    BY SessionFacts, Pieces
  <1>2. s.start < Upper(target) - Buffer
    BY <1>1, Dates
  <1>3. /\ Reach \in Nat /\ Reach < 2 * GapBridge + 2
        /\ GapBridge \in Nat /\ Buffer \in Nat /\ GapBridge <= Buffer
    BY Numbers DEF Dense
  <1>4. p \in Instants /\ p \in Nat
    BY <1>1, PartOfWhole, Numbers
  <1>5. p < 2 * s.start /\ 2 * s.start < p + 2 * GapBridge + 2
    BY <1>1, <1>3, <1>4
  <1>6. SUFFICES p \in Cov
    BY <1>1
  <1>7. PICK m \in Devices : \E i : Alone(m, i, p) \/ Until(m, i, p)
    BY WholeCovered
  <1>8. PICK i : Alone(m, i, p) \/ Until(m, i, p)
    BY <1>7
  <1>9. CASE Alone(m, i, p)
    <2>1. i \in DOMAIN log[m] /\ log[m][i].at \in Nat /\ p = 2 * log[m][i].at
      BY <1>9, LogRows DEF Alone
    <2>2. Lower(target) <= log[m][i].at /\ log[m][i].at <= Upper(target)
      BY <2>1, <1>1, <1>2, <1>3, <1>5
    <2>. QED
      BY <2>2, <1>1, <1>4, <1>9, PartCovered
  <1>10. CASE Until(m, i, p)
    <2>1. /\ i \in DOMAIN log[m] /\ i + 1 \in DOMAIN log[m] /\ log[m][i].connected
          /\ log[m][i].at \in Nat /\ log[m][i + 1].at \in Nat
          /\ 2 * log[m][i].at <= p /\ p <= 2 * log[m][i + 1].at
      BY <1>10, LogRows DEF Until
    <2>2. i \in 1 .. Len(log[m]) - 1
      BY <2>1, LogRows
    <2>3. log[m][i + 1].at - log[m][i].at <= Buffer - GapBridge
      BY <2>1, <2>2 DEF Dense
    <2>4. Lower(target) <= log[m][i].at /\ log[m][i + 1].at <= Upper(target)
      BY <2>1, <2>3, <1>1, <1>2, <1>3, <1>4, <1>5
    <2>. QED
      BY <2>4, <1>1, <1>4, <1>10, PartCovered
  <1>. QED
    BY <1>8, <1>9, <1>10

LEMMA BeginsRight ==
  ASSUME IInv, pc = "done", Dense, NEW s \in sessions
  PROVE  \E r \in Expected(Covered(log), target) : r[1] = 2 * s.start
  <1>. DEFINE W == Covered(log)
              E == { x \in W : 2 * s.start <= x /\ W \cap (x + 1 .. x + Reach) = {} }
  <1>1. /\ s.start \in Nat /\ s.end \in Nat /\ s.start <= s.end
        /\ 2 * s.start \in Cov /\ 2 * s.end \in Cov
        /\ \A p \in Cov : 2 * s.start <= p /\ p < 2 * s.end => Cov \cap (p + 1 .. p + Reach) # {}
        /\ s.end - s.start >= MinSession /\ DateOf(s.start) = target
    BY SessionFacts
  <1>2. Cov \subseteq W /\ W \subseteq Instants /\ W \in SUBSET Nat /\ Reach \in Nat
    BY Pieces, PartOfWhole, Numbers
  <1>3. MinSession \in Nat /\ Horizon \in Nat /\ \A p \in W : p <= 2 * Horizon
    BY <1>2, Numbers DEF Instants
  <1>4. W \cap (2 * s.start - Reach .. 2 * s.start - 1) = {}
    BY NothingEarlier
  <1>5. E # {}
    <2>1. W # {}
      BY <1>1, <1>2
    <2>2. 2 * Horizon \in Nat
      BY <1>3
    <2>. HIDE DEF W, E
    <2>3. PICK x \in W : \A y \in W : y <= x
      BY <2>1, <2>2, <1>2, <1>3, Greatest
    <2>4. x \in Nat /\ 2 * s.start <= x
      BY <2>3, <1>1, <1>2
    <2>5. ASSUME NEW y \in W, y \in x + 1 .. x + Reach PROVE FALSE
      <3>1. y <= x /\ y \in Nat
        BY <2>3, <1>2
      <3>. QED
        BY <3>1, <2>4, <2>5
    <2>. QED
      BY <2>4, <2>5 DEF E
  <1>6. E \in SUBSET Nat
    BY <1>2
  <1>7. \A x \in E : x \in W /\ 2 * s.start <= x /\ W \cap (x + 1 .. x + Reach) = {}
    OBVIOUS
  <1>8. \A x \in W : 2 * s.start <= x /\ W \cap (x + 1 .. x + Reach) = {} => x \in E
    OBVIOUS
  <1>. HIDE DEF W, E
  <1>9. PICK e \in E : \A x \in E : e <= x
    BY <1>5, <1>6, Least
  <1>10. /\ e \in Nat /\ e \in W /\ 2 * s.start <= e
         /\ W \cap (e + 1 .. e + Reach) = {}
    BY <1>6, <1>7
  <1>11. ~(e < 2 * s.end)
    <2>. SUFFICES ASSUME e < 2 * s.end PROVE FALSE
      OBVIOUS
    <2>. DEFINE C == { x \in Cov : x <= e }
    <2>1. C \in SUBSET Nat /\ C # {} /\ \A x \in C : x <= e
      BY <1>1, <1>2, <1>10
    <2>. HIDE DEF C
    <2>2. PICK c \in C : \A x \in C : x <= c
      BY <2>1, <1>10, Greatest
    <2>3. c \in Cov /\ c <= e /\ c \in Nat
      BY <2>1 DEF C
    <2>4. 2 * s.start <= c
      BY <2>2, <1>1, <1>10 DEF C
    <2>5. c < 2 * s.end
      BY <2>3, <1>1, <1>10
    <2>6. PICK x \in Cov : x \in c + 1 .. c + Reach
      BY <2>3, <2>4, <2>5, <1>1
    <2>7. x \in Nat /\ c < x /\ x <= c + Reach
      BY <2>3, <2>6, <1>2
    <2>8. e < x
      <3>. SUFFICES ASSUME x <= e PROVE FALSE
        BY <2>7, <1>10
      <3>1. x \in C
        BY <2>6 DEF C
      <3>2. x <= c
        BY <3>1, <2>2
      <3>. QED
        BY <3>2, <2>3, <2>7
    <2>9. x \in e + 1 .. e + Reach
      BY <2>3, <2>7, <2>8, <1>2, <1>10
    <2>. QED
      BY <2>6, <2>9, <1>2, <1>10
  <1>12. ASSUME NEW p \in W, 2 * s.start <= p, p < e
         PROVE  W \cap (p + 1 .. p + Reach) # {}
    <2>. SUFFICES ASSUME W \cap (p + 1 .. p + Reach) = {} PROVE FALSE
      OBVIOUS
    <2>1. p \in E
      BY <1>8, <1>12
    <2>2. e <= p /\ p \in Nat
      BY <2>1, <1>2, <1>9
    <2>. QED
      BY <2>2, <1>10, <1>12
  <1>13. <<2 * s.start, e>> \in Runs(W)
    <2>1. <<2 * s.start, e>> \in W \X W
      BY <1>1, <1>2, <1>10
    <2>. QED
      BY <2>1, <1>4, <1>10, <1>12 DEF Runs, W
  <1>14. e - 2 * s.start >= 2 * MinSession
    BY <1>1, <1>3, <1>10, <1>11
  <1>15. (2 * s.start) \div 2 = s.start
    BY <1>1, Halves
  <1>16. <<2 * s.start, e>> \in Expected(W, target)
    BY <1>1, <1>13, <1>14, <1>15 DEF Expected
  <1>. QED
    BY <1>16 DEF W

\* What the rows loaded for a date show is what the whole log would show: a
\* session that ends within the buffer is found whole, and with the rows of a
\* device close together none begins where the log has it under way
\* (utc_buffer_for).
THEOREM BufferIsWide == Spec => []BufferSuffices
  <1>1. IInv => BufferSuffices
    BY FoundWhole, BeginsRight DEF BufferSuffices
  <1>. QED
    BY <1>1, Invariance, PTL

=============================================================================
