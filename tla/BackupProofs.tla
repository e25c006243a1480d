----------------------------- MODULE BackupProofs -----------------------------
(***************************************************************************)
(* Theorems about Backup, for any number of runs at once, any retention    *)
(* and any calendar.                                                       *)
(***************************************************************************)
EXTENDS Backup, FiniteSetTheorems, NaturalsInduction, WellFoundedInduction, TLAPS

USE BackupAssumption

-----------------------------------------------------------------------------
(***************************************************************************)
(* First days of months.                                                   *)
(***************************************************************************)

Firsts(S) == { d \in S : \A e \in S : Month(e) = Month(d) => d <= e }

LEMMA FirstsAre == FirstOfMonth = Firsts(Present) /\ MadeFirst = Firsts(made)
  BY DEF FirstOfMonth, MadeFirst, Firsts

LEMMA DaysAreFinite ==
  /\ Days \subseteq Nat /\ IsFiniteSet(Days)
  /\ \A d \in Days : Month(d) \in Nat
  /\ \A d, e \in Days : d <= e => Month(d) <= Month(e)
  <1>1. IsFiniteSet(0 .. MaxDay)
    BY FS_Interval
  <1>. QED
    BY <1>1 DEF Days, Month

LEMMA MonthOrder ==
  ASSUME NEW a \in Days, NEW b \in Days, Month(a) < Month(b)
  PROVE  a < b
  <1>1. a \in Nat /\ b \in Nat /\ Month(a) \in Nat /\ Month(b) \in Nat
    BY DaysAreFinite
  <1>2. b <= a => Month(b) <= Month(a)
    BY DaysAreFinite
  <1>. HIDE DEF Month
  <1>. QED
    BY <1>1, <1>2

\* A nonempty set of days has a first one.
LEMMA FirstDay ==
  ASSUME NEW S \in SUBSET Nat, S # {}
  PROVE  \E d \in S : \A e \in S : d <= e
  <1>1. IsWellFoundedOn(OpToRel(<, Nat), Nat)
    BY NatLessThanWellFounded
  <1>2. PICK d \in S : \A e \in S : ~(<<e, d>> \in OpToRel(<, Nat))
    BY <1>1, WFMin
  <1>3. \A e \in S : ~(e < d)
    BY <1>2 DEF OpToRel
  <1>. QED
    BY <1>3

\* Every month of a set of days has a first day in it.
LEMMA MonthHasFirst ==
  ASSUME NEW S \in SUBSET Days, NEW d \in S
  PROVE  \E m \in Firsts(S) : Month(m) = Month(d)
  <1>. DEFINE same == { e \in S : Month(e) = Month(d) }
  <1>1. same \in SUBSET Nat /\ d \in same
    BY DaysAreFinite
  <1>2. PICK m \in same : \A e \in same : m <= e
    BY <1>1, FirstDay
  <1>. QED
    BY <1>2 DEF Firsts

\* With more days there are no fewer months after the first day of one.
LEMMA LaterMonths ==
  ASSUME NEW S \in SUBSET Days, NEW T \in SUBSET Days, S \subseteq T,
         NEW d \in S, d \in Firsts(S)
  PROVE  /\ Cardinality({ e \in Firsts(S) : e > d }) \in Nat
         /\ Cardinality({ e \in Firsts(T) : e > d }) \in Nat
         /\ Cardinality({ e \in Firsts(S) : e > d }) <= Cardinality({ e \in Firsts(T) : e > d })
  <1>. DEFINE A == { e \in Firsts(S) : e > d }
              B == { e \in Firsts(T) : e > d }
              f == [e \in A |-> CHOOSE m \in Firsts(T) : Month(m) = Month(e)]
  <1>1. A \subseteq S /\ B \subseteq T /\ A \subseteq Days /\ B \subseteq Days /\ d \in Days
    BY DEF Firsts
  <1>2. IsFiniteSet(A) /\ IsFiniteSet(B)
    BY <1>1, DaysAreFinite, FS_Subset
  <1>3. ASSUME NEW e \in A PROVE f[e] \in B /\ Month(f[e]) = Month(e)
    <2>1. \E m \in Firsts(T) : Month(m) = Month(e)
      BY <1>1, MonthHasFirst
    <2>2. f[e] \in Firsts(T) /\ Month(f[e]) = Month(e)
      BY <2>1
    <2>3. Month(e) # Month(d)
      <3>1. ASSUME Month(e) = Month(d) PROVE FALSE
        <4>1. e <= d /\ e > d
          BY <3>1 DEF Firsts
        <4>. QED
          BY <1>1, <4>1, DaysAreFinite
      <3>. QED
        BY <3>1
    <2>4. f[e] \in Days /\ e \in Days
      BY <1>1, <2>2 DEF Firsts
    <2>5. d <= e
      BY <1>1, <2>4, DaysAreFinite
    <2>6. Month(d) < Month(e)
      BY <1>1, <2>3, <2>4, <2>5, DaysAreFinite
    <2>7. f[e] > d
      <3>1. Month(d) < Month(f[e])
        BY <2>2, <2>6
      <3>. HIDE DEF f
      <3>2. d < f[e]
        BY <1>1, <2>4, <3>1, MonthOrder
      <3>. QED
        BY <1>1, <2>4, <3>2, DaysAreFinite
    <2>. QED
      BY <2>2, <2>7
  <1>4. ASSUME NEW a \in A, NEW b \in A, f[a] = f[b] PROVE a = b
    <2>1. Month(a) = Month(b)
      BY <1>3, <1>4
    <2>2. a <= b /\ b <= a
      BY <1>1, <2>1 DEF Firsts
    <2>. QED
      BY <1>1, <2>2, DaysAreFinite
  <1>5. f \in Injection(A, B)
    BY <1>3, <1>4 DEF Injection, IsInjective
  <1>6. Cardinality(A) <= Cardinality(B)
    BY <1>2, <1>5, FS_Injection
  <1>. QED
    BY <1>2, <1>6, FS_CardinalityType

-----------------------------------------------------------------------------
(***************************************************************************)
(* The inductive invariant.                                                *)
(***************************************************************************)

\* What the runs that prune have listed is older than what the daily rule protects.
OldDoomed ==
  \A w \in Workers : pc[w] = "delete" =>
    \A d \in doomed[w] : d \in made /\ d <= date[w] - DailyRetain

\* IInv but for what it says about months.
Runs == TypeOK /\ Present \subseteq made /\ Copies /\ PrunesAfterSnapshot /\ OldDoomed
        /\ DailyKept /\ ReportedIsTaken

LEMMA Numbers ==
  ASSUME TypeOK
  PROVE  /\ today \in Nat /\ Days \subseteq Nat /\ DailyRetain \in Nat \ {0}
         /\ MonthlyRetain \in Nat /\ NoDay \notin Days /\ NoDay \in Int
         /\ \A w \in Workers :
              /\ pc[w] # "idle" => date[w] \in Days /\ date[w] \in {today - 1, today}
              /\ date[w] \in Int
  BY DaysAreFinite DEF TypeOK, NoDay, Days

LEMMA RunsInit == Init => Runs
  <1>. SUFFICES ASSUME Init PROVE Runs
    OBVIOUS
  <1>1. TypeOK
    BY DaysAreFinite DEF Init, TypeOK, Contents, Days, NoDay
  <1>2. Present = {}
    BY DEF Init, Present
  <1>. QED
    BY <1>1, <1>2 DEF Init, Runs, Copies, PrunesAfterSnapshot, OldDoomed, DailyKept,
                      ReportedIsTaken

\* A run that ends changes nothing but itself.
LEMMA RunEnds ==
  ASSUME Runs, NEW w \in Workers, Idle(w), UNCHANGED <<today, files, faults, made, taken>>,
         last' \in {last, today}, last' = today => pc[w] \in {"prune", "delete"} \/ last = today,
         pc[w] # "copying"
  PROVE  Runs'
  <1>0. TypeOK /\ Present \subseteq made /\ Copies /\ PrunesAfterSnapshot /\ OldDoomed
        /\ DailyKept /\ ReportedIsTaken
    BY DEF Runs
  <1>1. /\ pc' = [pc EXCEPT ![w] = "idle"] /\ date' = [date EXCEPT ![w] = NoDay]
        /\ doomed' = [doomed EXCEPT ![w] = {}]
    BY DEF Idle
  <1>2. TypeOK'
    BY <1>0, <1>1 DEF TypeOK
  <1>3. \A v \in Workers : pc'[v] # "idle" => v # w /\ pc'[v] = pc[v] /\ date'[v] = date[v]
                                              /\ doomed'[v] = doomed[v]
    BY <1>0, <1>1 DEF TypeOK
  <1>4. Copies' /\ PrunesAfterSnapshot' /\ OldDoomed' /\ DailyKept' /\ Present' \subseteq made'
    BY <1>0, <1>3 DEF Copies, PrunesAfterSnapshot, OldDoomed, DailyKept, Present
  <1>5. ReportedIsTaken'
    <2>1. CASE last' = last
      BY <1>0, <2>1 DEF ReportedIsTaken
    <2>2. CASE last' # last
      <3>1. date[w] \in taken /\ date[w] \in {today - 1, today}
        BY <1>0, <2>2, Numbers DEF PrunesAfterSnapshot
      <3>. QED
        BY <2>2, <3>1 DEF ReportedIsTaken
    <2>. QED
      BY <2>1, <2>2
  <1>. QED
    BY <1>0, <1>2, <1>4, <1>5 DEF Runs

LEMMA RunsNext == Runs /\ [Next]_vars => Runs'
  <1>. SUFFICES ASSUME Runs, [Next]_vars PROVE Runs'
    OBVIOUS
  <1>0. TypeOK /\ Present \subseteq made /\ Copies /\ PrunesAfterSnapshot /\ OldDoomed
        /\ DailyKept /\ ReportedIsTaken
    BY DEF Runs
  <1>1. ASSUME NextDay PROVE Runs'
    <2>1. TypeOK'
      BY <1>0, <1>1, Numbers DEF NextDay, TypeOK, Days
    <2>2. Copies' /\ DailyKept'
      BY <1>0, <1>1, Numbers DEF NextDay, Copies, DailyKept, TypeOK
    <2>. QED
      BY <1>0, <1>1, <2>1, <2>2
         DEF NextDay, Runs, PrunesAfterSnapshot, OldDoomed, ReportedIsTaken, Present
  <1>2. ASSUME NEW left \in {"empty", "partial"}, Crash(left) PROVE Runs'
    <2>1. TypeOK'
      BY <1>0, <1>2, Numbers DEF Crash, TypeOK, Contents
    <2>2. DailyKept' /\ Present' \subseteq made'
      BY <1>0, <1>2 DEF Crash, DailyKept, Present, TypeOK
    <2>. QED
      BY <1>0, <1>2, <2>1, <2>2
         DEF Crash, Runs, Copies, PrunesAfterSnapshot, OldDoomed, ReportedIsTaken
  <1>3. ASSUME NEW w \in Workers, Begin(w) PROVE Runs'
    <2>1. TypeOK'
      BY <1>0, <1>3, Numbers DEF Begin, DateOfRun, TypeOK
    <2>2. Copies' /\ PrunesAfterSnapshot' /\ OldDoomed'
      BY <1>0, <1>3 DEF Begin, Copies, PrunesAfterSnapshot, OldDoomed, TypeOK
    <2>. QED
      BY <1>0, <1>3, <2>1, <2>2 DEF Begin, Runs, DailyKept, ReportedIsTaken, Present
  <1>4. ASSUME NEW w \in Workers, Copy(w) PROVE Runs'
    <2>1. date[w] \in Days /\ date[w] \in {today - 1, today} /\ files[date[w]] \in {"none", "empty"}
      BY <1>0, <1>4, Numbers DEF Copy, Writable
    <2>2. TypeOK'
      BY <1>0, <1>4, <2>1 DEF Copy, TypeOK, Contents
    <2>3. Copies'
      <3>5. \A v \in Workers : pc'[v] = "copying" => date[v] \in made'
        BY <1>0, <1>4 DEF Copy, Copies, TypeOK
      <3>. SUFFICES ASSUME NEW v \in Workers, pc'[v] = "copying", date[v] > today - DailyRetain
                    PROVE  /\ files'[date[v]] = "growing"
                           /\ \A x \in Workers : pc'[x] = "copying" /\ date[x] = date[v] => x = v
        BY <1>4, <3>5 DEF Copy, Copies
      <3>1. \A x \in Workers : pc'[x] = "copying" => x = w \/ pc[x] = "copying"
        BY <1>0, <1>4 DEF Copy, TypeOK
      <3>2. \A x \in Workers :
               pc[x] = "copying" /\ date[x] > today - DailyRetain => date[x] # date[w]
        BY <1>0, <2>1 DEF Copies
      <3>3. CASE date[v] = date[w]
        <4>1. v = w /\ \A x \in Workers : pc'[x] = "copying" /\ date[x] = date[v] => x = w
          BY <3>1, <3>2, <3>3
        <4>. QED
          BY <1>0, <1>4, <2>1, <4>1 DEF Copy, TypeOK
      <3>4. CASE date[v] # date[w]
        <4>1. v # w /\ pc[v] = "copying"
          BY <3>1, <3>4
        <4>2. files'[date[v]] = files[date[v]]
          BY <1>0, <1>4, <3>4 DEF Copy, TypeOK
        <4>. QED
          BY <1>0, <3>1, <3>4, <4>1, <4>2 DEF Copies
      <3>. QED
        BY <3>3, <3>4
    <2>4. PrunesAfterSnapshot' /\ OldDoomed' /\ Present' \subseteq made'
      BY <1>0, <1>4, <2>1 DEF Copy, PrunesAfterSnapshot, OldDoomed, Present, TypeOK
    <2>5. DailyKept'
      BY <1>0, <1>4, <2>1 DEF Copy, DailyKept, TypeOK
    <2>. QED
      BY <1>0, <1>4, <2>2, <2>3, <2>4, <2>5 DEF Copy, Runs, ReportedIsTaken
  <1>5. ASSUME NEW w \in Workers, Refuse(w) PROVE Runs'
    <2>1. TypeOK' /\ Copies' /\ PrunesAfterSnapshot' /\ OldDoomed'
      BY <1>0, <1>5
         DEF Refuse, AfterRefusal, TypeOK, Copies, PrunesAfterSnapshot, OldDoomed
    <2>. QED
      BY <1>0, <1>5, <2>1 DEF Refuse, Runs, DailyKept, ReportedIsTaken, Present
  <1>6. ASSUME NEW w \in Workers, Raise(w) PROVE Runs'
    BY <1>6, RunEnds DEF Raise
  <1>7. ASSUME NEW w \in Workers, pc[w] = "copying", NEW content \in Contents \ {"none"},
               files' = [files EXCEPT ![date[w]] = content]
        PROVE  /\ files' \in [Days -> Contents] /\ Present' \subseteq made
               /\ \A v \in Workers \ {w} :
                    pc[v] = "copying" /\ date[v] > today - DailyRetain =>
                      files'[date[v]] = "growing"
               /\ \A d \in taken \ {date[w]} : d > today - DailyRetain => files'[d] = "whole"
               /\ date[w] \in made
    <2>1. date[w] \in Days /\ date[w] \in made
      BY <1>0, <1>7, Numbers DEF Copies
    <2>2. \A d \in Days : files'[d] = IF d = date[w] THEN content ELSE files[d]
      BY <1>0, <1>7, <2>1 DEF TypeOK
    <2>3. files' \in [Days -> Contents] /\ Present' \subseteq made
      BY <1>0, <1>7, <2>1, <2>2 DEF TypeOK, Present
    <2>4. ASSUME NEW v \in Workers \ {w}, pc[v] = "copying", date[v] > today - DailyRetain
          PROVE  files'[date[v]] = "growing"
      <3>1. date[v] \in Days /\ date[v] # date[w] /\ files[date[v]] = "growing"
        BY <1>0, <1>7, <2>4, Numbers DEF Copies
      <3>. QED
        BY <2>2, <3>1
    <2>5. \A d \in taken \ {date[w]} : d > today - DailyRetain => files'[d] = "whole"
      BY <1>0, <2>2 DEF DailyKept, TypeOK
    <2>. QED
      BY <2>1, <2>3, <2>4, <2>5
  <1>8. ASSUME NEW w \in Workers, Copied(w) PROVE Runs'
    <2>1. /\ pc[w] = "copying" /\ pc' = [pc EXCEPT ![w] = "prune"]
          /\ files' = [files EXCEPT ![date[w]] = "whole"] /\ taken' = taken \cup {date[w]}
          /\ UNCHANGED <<today, last, faults, date, doomed, made>>
          /\ "whole" \in Contents \ {"none"}
      BY <1>8 DEF Copied, Contents
    <2>2. /\ files' \in [Days -> Contents] /\ Present' \subseteq made
          /\ \A v \in Workers \ {w} :
               pc[v] = "copying" /\ date[v] > today - DailyRetain => files'[date[v]] = "growing"
          /\ \A d \in taken \ {date[w]} : d > today - DailyRetain => files'[d] = "whole"
          /\ date[w] \in made /\ date[w] \in Days
      BY <1>0, <1>7, <2>1, Numbers
    <2>3. \A v \in Workers : v # w => pc'[v] = pc[v]
      BY <1>0, <2>1 DEF TypeOK
    <2>4. pc' \in [Workers -> {"idle", "snapshot", "refused", "copying", "prune", "delete"}]
          /\ pc'[w] = "prune"
      BY <1>0, <2>1 DEF TypeOK
    <2>5. \A d \in Days : files'[d] = "growing" =>
            \E v \in Workers : pc'[v] = "copying" /\ date[v] = d
      BY <1>0, <2>1, <2>2, <2>3 DEF TypeOK
    <2>6. TypeOK'
      BY <1>0, <2>1, <2>2, <2>3, <2>4, <2>5, Numbers DEF TypeOK
    <2>7. Copies' /\ PrunesAfterSnapshot' /\ OldDoomed'
      BY <1>0, <2>1, <2>2, <2>3, <2>4 DEF Copies, PrunesAfterSnapshot, OldDoomed
    <2>8. DailyKept'
      BY <1>0, <2>1, <2>2 DEF DailyKept, TypeOK
    <2>. QED
      BY <1>0, <2>1, <2>2, <2>6, <2>7, <2>8 DEF Runs, ReportedIsTaken
  <1>9. ASSUME NEW w \in Workers, NEW left \in {"empty", "partial"}, CopyFails(w, left)
        PROVE  Runs'
    <2>1. /\ pc[w] = "copying" /\ pc' = [pc EXCEPT ![w] = "idle"]
          /\ date' = [date EXCEPT ![w] = NoDay] /\ doomed' = [doomed EXCEPT ![w] = {}]
          /\ files' = [files EXCEPT ![date[w]] = left]
          /\ UNCHANGED <<today, last, taken, made>>
          /\ left \in Contents \ {"none"}
      BY <1>9 DEF CopyFails, Idle, Contents
    <2>2. /\ files' \in [Days -> Contents] /\ Present' \subseteq made
          /\ \A v \in Workers \ {w} :
               pc[v] = "copying" /\ date[v] > today - DailyRetain => files'[date[v]] = "growing"
          /\ \A d \in taken \ {date[w]} : d > today - DailyRetain => files'[d] = "whole"
          /\ date[w] \in made /\ date[w] \in Days
      BY <1>0, <1>7, <2>1, Numbers
    <2>3. \A v \in Workers : v # w =>
            pc'[v] = pc[v] /\ date'[v] = date[v] /\ doomed'[v] = doomed[v]
      BY <1>0, <2>1 DEF TypeOK
    <2>4. /\ pc' \in [Workers -> {"idle", "snapshot", "refused", "copying", "prune", "delete"}]
          /\ date' \in [Workers -> Days \cup {NoDay}] /\ doomed' \in [Workers -> SUBSET Days]
          /\ pc'[w] = "idle"
      BY <1>0, <2>1 DEF TypeOK
    <2>5. files'[date[w]] = left /\ \A d \in Days : d # date[w] => files'[d] = files[d]
      BY <1>0, <2>1, <2>2 DEF TypeOK
    <2>6. \A d \in Days : files'[d] = "growing" =>
            \E v \in Workers : pc'[v] = "copying" /\ date'[v] = d
      BY <1>0, <2>2, <2>3, <2>5 DEF TypeOK
    <2>7. faults' \in 0 .. MaxFaults
      BY <1>0, <1>9 DEF CopyFails, TypeOK
    <2>8. TypeOK'
      BY <1>0, <2>1, <2>2, <2>3, <2>4, <2>6, <2>7 DEF TypeOK
    <2>9. Copies' /\ PrunesAfterSnapshot' /\ OldDoomed'
      BY <1>0, <2>1, <2>2, <2>3, <2>4 DEF Copies, PrunesAfterSnapshot, OldDoomed
    <2>10. date[w] > today - DailyRetain => date[w] \notin taken
      BY <1>0, <2>1 DEF Copies, DailyKept
    <2>11. DailyKept'
      BY <2>1, <2>2, <2>10 DEF DailyKept
    <2>. QED
      BY <1>0, <2>1, <2>2, <2>8, <2>9, <2>11 DEF Runs, ReportedIsTaken
  <1>10. ASSUME NEW w \in Workers, List(w) PROVE Runs'
    <2>1. /\ pc[w] = "prune" /\ pc' = [pc EXCEPT ![w] = "delete"]
          /\ doomed' = [doomed EXCEPT ![w] = Present \ Kept(date[w])]
          /\ UNCHANGED <<today, files, last, faults, date, made, taken>>
      BY <1>10 DEF List
    <2>2. Present \subseteq Days /\ date[w] \in Days
      BY <1>0, <2>1, Numbers DEF Present
    <2>3. \A v \in Workers : v # w => pc'[v] = pc[v] /\ doomed'[v] = doomed[v]
      BY <1>0, <2>1 DEF TypeOK
    <2>4. pc'[w] = "delete" /\ doomed'[w] = Present \ Kept(date[w])
      BY <1>0, <2>1 DEF TypeOK
    <2>5. ASSUME NEW d \in Present \ Kept(date[w])
          PROVE  d \in made /\ d <= date[w] - DailyRetain
      <3>1. d \in Present /\ ~(d >= date[w] - (DailyRetain - 1))
        BY <2>5 DEF Kept, Recent
      <3>2. d \in Nat /\ date[w] \in Nat
        BY <2>2, <3>1, DaysAreFinite
      <3>3. DailyRetain \in Nat
        BY <1>0, Numbers
      <3>4. d <= date[w] - DailyRetain
        BY <3>1, <3>2, <3>3
      <3>. QED
        BY <1>0, <3>1, <3>4
    <2>6. TypeOK'
      BY <1>0, <2>1, <2>2, <2>3, <2>4 DEF TypeOK
    <2>7. Copies' /\ PrunesAfterSnapshot' /\ OldDoomed'
      BY <1>0, <2>1, <2>3, <2>4, <2>5 DEF Copies, PrunesAfterSnapshot, OldDoomed
    <2>. QED
      BY <1>0, <2>1, <2>6, <2>7 DEF Runs, DailyKept, ReportedIsTaken, Present
  <1>11. ASSUME NEW w \in Workers, NEW d \in doomed[w], Unlink(w, d) PROVE Runs'
    <2>1. /\ pc[w] = "delete" /\ files' = [files EXCEPT ![d] = "none"]
          /\ doomed' = [doomed EXCEPT ![w] = @ \ {d}]
          /\ UNCHANGED <<today, last, faults, pc, date, made, taken>>
      BY <1>11 DEF Unlink, IsNext
    <2>2. d \in Days /\ d <= date[w] - DailyRetain /\ d \in Nat
      BY <1>0, <2>1, Numbers DEF OldDoomed, TypeOK
    <2>3. d <= today - DailyRetain
      <3>1. today \in Nat /\ DailyRetain \in Nat
        BY <1>0, Numbers
      <3>2. date[w] \in {today - 1, today}
        <4>1. pc[w] # "idle"
          BY <2>1
        <4>. QED
          BY <1>0, <4>1, Numbers
      <3>. QED
        BY <2>2, <3>1, <3>2
    <2>4. \A v \in Workers : doomed'[v] \subseteq doomed[v]
      BY <1>0, <2>1 DEF TypeOK
    <2>5. \A e \in Days : files'[e] = IF e = d THEN "none" ELSE files[e]
      BY <1>0, <2>1, <2>2 DEF TypeOK
    <2>6. TypeOK'
      <3>1. doomed' \in [Workers -> SUBSET Days]
        BY <1>0, <2>1 DEF TypeOK
      <3>2. files' \in [Days -> Contents]
        BY <1>0, <2>1 DEF TypeOK, Contents
      <3>. QED
        BY <1>0, <2>1, <2>5, <3>1, <3>2 DEF TypeOK
    <2>7. DailyKept' /\ Present' \subseteq made'
      BY <1>0, <2>1, <2>2, <2>3, <2>5, Numbers DEF DailyKept, Present, TypeOK
    <2>8. Copies'
      <3>. SUFFICES ASSUME NEW v \in Workers, pc[v] = "copying", date[v] > today - DailyRetain
                    PROVE  files'[date[v]] = files[date[v]]
        BY <1>0, <2>1 DEF Copies
      <3>1. date[v] \in Days
        BY <1>0, Numbers
      <3>2. date[v] # d
        <4>1. today \in Nat /\ DailyRetain \in Nat
          BY <1>0, Numbers
        <4>. QED
          BY <2>2, <2>3, <4>1
      <3>. QED
        BY <2>5, <3>1, <3>2
    <2>. QED
      BY <1>0, <2>1, <2>4, <2>6, <2>7, <2>8
         DEF Runs, PrunesAfterSnapshot, OldDoomed, ReportedIsTaken
  <1>12. ASSUME NEW w \in Workers, NEW d \in doomed[w], UnlinkGone(w, d)
         PROVE  Runs'
    BY <1>12, RunEnds DEF UnlinkGone, IsNext
  <1>13. ASSUME NEW w \in Workers, Stamp(w) \/ StampBusy(w) PROVE Runs'
    BY <1>13, RunEnds DEF Stamp, StampBusy
  <1>14. CASE UNCHANGED vars
    BY <1>0, <1>14 DEF vars, Runs, TypeOK, Copies, PrunesAfterSnapshot, OldDoomed, DailyKept,
                       ReportedIsTaken, Present
  <1>. QED
    BY <1>1, <1>2, <1>3, <1>4, <1>5, <1>6, <1>8, <1>9, <1>10, <1>11, <1>12, <1>13, <1>14
       DEF Next, Run

-----------------------------------------------------------------------------
(***************************************************************************)
(* Months.                                                                 *)
(***************************************************************************)

LEMMA MonthsNext ==
  ASSUME Runs, MonthlyKept, Condemned, [Next]_vars
  PROVE  MonthlyKept' /\ Condemned'
  <1>0. TypeOK /\ Present \subseteq made /\ made \in SUBSET Days /\ Present \in SUBSET Days
    BY DEF Runs, TypeOK, Present
  \* What is said of the days that were made is said of them still.
  <1>1. ASSUME made \subseteq made', made' \in SUBSET Days, NEW d \in made, d \in MadeFirst'
        PROVE  /\ d \in MadeFirst
               /\ Cardinality(LaterFirsts(d)) \in Nat /\ Cardinality(LaterFirsts(d))' \in Nat
               /\ Cardinality(LaterFirsts(d)) <= Cardinality(LaterFirsts(d))'
    <2>1. d \in Firsts(made)
      BY <1>1 DEF MadeFirst, Firsts
    <2>2. LaterFirsts(d) = { e \in Firsts(made) : e > d }
          /\ LaterFirsts(d)' = { e \in Firsts(made') : e > d }
      BY DEF LaterFirsts, MadeFirst, Firsts
    <2>3. /\ Cardinality({ e \in Firsts(made) : e > d }) \in Nat
          /\ Cardinality({ e \in Firsts(made') : e > d }) \in Nat
          /\ Cardinality({ e \in Firsts(made) : e > d })
               <= Cardinality({ e \in Firsts(made') : e > d })
      BY <1>0, <1>1, <2>1, LaterMonths
    <2>. QED
      BY <2>1, <2>2, <2>3 DEF MadeFirst, Firsts
  \* A step that deletes nothing keeps both.
  <1>2. ASSUME made \subseteq made', made' \in SUBSET Days,
               \A d \in Days : files'[d] = "none" => files[d] = "none",
               \A d \in made' \ made : files'[d] # "none",
               \A w \in Workers : pc'[w] = "delete" =>
                  pc[w] = "delete" /\ doomed'[w] \subseteq doomed[w] /\ date'[w] = date[w]
        PROVE  MonthlyKept' /\ Condemned'
    <2>1. MonthlyKept'
      <3>. SUFFICES ASSUME NEW d \in MadeFirst', Cardinality(LaterFirsts(d))' < MonthlyRetain
                    PROVE  files'[d] # "none"
        BY DEF MonthlyKept, LaterFirsts
      <3>1. CASE d \in made
        <4>1. d \in MadeFirst /\ Cardinality(LaterFirsts(d)) < MonthlyRetain
          BY <1>1, <1>2, <3>1
        <4>. QED
          BY <1>0, <1>2, <3>1, <4>1 DEF MonthlyKept, LaterFirsts
      <3>2. CASE d \notin made
        BY <1>2, <3>2 DEF MadeFirst
      <3>. QED
        BY <3>1, <3>2
    <2>2. Condemned'
      <3>. SUFFICES ASSUME NEW w \in Workers, pc'[w] = "delete", NEW d \in doomed'[w]
                    PROVE  /\ d \in made' /\ d <= date'[w] - DailyRetain
                           /\ d \in MadeFirst' => Cardinality(LaterFirsts(d))' >= MonthlyRetain
        BY DEF Condemned, LaterFirsts
      <3>1. /\ d \in made /\ d <= date[w] - DailyRetain
            /\ d \in MadeFirst => Cardinality(LaterFirsts(d)) >= MonthlyRetain
        BY <1>2 DEF Condemned
      <3>2. ASSUME d \in MadeFirst' PROVE Cardinality(LaterFirsts(d))' >= MonthlyRetain
        <4>1. /\ Cardinality(LaterFirsts(d)) \in Nat /\ Cardinality(LaterFirsts(d))' \in Nat
              /\ Cardinality(LaterFirsts(d)) <= Cardinality(LaterFirsts(d))'
              /\ Cardinality(LaterFirsts(d)) >= MonthlyRetain
          BY <1>1, <1>2, <3>1, <3>2
        <4>. HIDE DEF LaterFirsts
        <4>. QED
          BY <4>1
      <3>. QED
        BY <1>2, <3>1, <3>2
    <2>. QED
      BY <2>1, <2>2
  <1>3. ASSUME NextDay \/ UNCHANGED vars PROVE MonthlyKept' /\ Condemned'
    <2>1. UNCHANGED <<files, pc, date, doomed, made>>
      BY <1>3 DEF NextDay, vars
    <2>. QED
      BY <1>0, <1>2, <2>1
  <1>4. ASSUME NEW left \in {"empty", "partial"}, Crash(left) PROVE MonthlyKept' /\ Condemned'
    <2>1. /\ made' = made /\ \A w \in Workers : pc'[w] # "delete"
          /\ \A d \in Days : files'[d] = IF files[d] = "growing" THEN left ELSE files[d]
      BY <1>4 DEF Crash
    <2>. QED
      BY <1>0, <1>2, <2>1
  <1>5. ASSUME NEW w \in Workers, Idle(w), UNCHANGED <<files, made>>
        PROVE  MonthlyKept' /\ Condemned'
    <2>1. \A v \in Workers : pc'[v] = "delete" =>
            pc[v] = "delete" /\ doomed'[v] \subseteq doomed[v] /\ date'[v] = date[v]
      BY <1>0, <1>5 DEF Idle, TypeOK
    <2>. QED
      BY <1>0, <1>2, <1>5, <2>1
  <1>6. ASSUME NEW w \in Workers, Raise(w) \/ Stamp(w) \/ StampBusy(w)
        PROVE  MonthlyKept' /\ Condemned'
    BY <1>5, <1>6 DEF Raise, Stamp, StampBusy
  <1>7. ASSUME NEW w \in Workers, NEW d \in doomed[w], UnlinkGone(w, d)
        PROVE  MonthlyKept' /\ Condemned'
    BY <1>5, <1>7 DEF UnlinkGone
  <1>8. ASSUME NEW w \in Workers, Begin(w) \/ Refuse(w) PROVE MonthlyKept' /\ Condemned'
    <2>1. \A v \in Workers : pc'[v] = "delete" =>
            pc[v] = "delete" /\ doomed'[v] \subseteq doomed[v] /\ date'[v] = date[v]
      BY <1>0, <1>8 DEF Begin, Refuse, AfterRefusal, TypeOK
    <2>2. UNCHANGED <<files, made>>
      BY <1>8 DEF Begin, Refuse
    <2>. QED
      BY <1>0, <1>2, <2>1, <2>2
  <1>9. ASSUME NEW w \in Workers, Copy(w) PROVE MonthlyKept' /\ Condemned'
    <2>1. /\ files' = [files EXCEPT ![date[w]] = "growing"] /\ made' = made \cup {date[w]}
          /\ pc' = [pc EXCEPT ![w] = "copying"] /\ UNCHANGED <<date, doomed>>
          /\ date[w] \in Days
      BY <1>0, <1>9, Numbers DEF Copy
    <2>2. \A v \in Workers : pc'[v] = "delete" => pc[v] = "delete"
      BY <1>0, <2>1 DEF TypeOK
    <2>3. files'[date[w]] = "growing" /\ \A d \in Days : d # date[w] => files'[d] = files[d]
      BY <1>0, <2>1 DEF TypeOK
    <2>. QED
      BY <1>0, <1>2, <2>1, <2>2, <2>3
  <1>10. ASSUME NEW w \in Workers,
                Copied(w) \/ \E left \in {"empty", "partial"} : CopyFails(w, left)
         PROVE  MonthlyKept' /\ Condemned'
    <2>1. PICK content \in {"whole", "empty", "partial"} :
             files' = [files EXCEPT ![date[w]] = content]
      BY <1>10 DEF Copied, CopyFails
    <2>2. /\ made' = made
          /\ \A v \in Workers : pc'[v] = "delete" =>
               pc[v] = "delete" /\ doomed'[v] \subseteq doomed[v] /\ date'[v] = date[v]
      BY <1>0, <1>10 DEF Copied, CopyFails, Idle, TypeOK
    <2>3. date[w] \in Days
      BY <1>0, <1>10, Numbers DEF Copied, CopyFails
    <2>4. \A d \in Days : files'[d] = IF d = date[w] THEN content ELSE files[d]
      BY <1>0, <2>1, <2>3 DEF TypeOK
    <2>. QED
      BY <1>0, <1>2, <2>2, <2>4
  <1>11. ASSUME NEW w \in Workers, List(w) PROVE MonthlyKept' /\ Condemned'
    <2>1. /\ pc[w] = "prune" /\ pc' = [pc EXCEPT ![w] = "delete"]
          /\ doomed' = [doomed EXCEPT ![w] = Present \ Kept(date[w])]
          /\ UNCHANGED <<today, files, last, faults, date, made, taken>>
      BY <1>11 DEF List
    <2>2. \A v \in Workers : v # w => pc'[v] = pc[v] /\ doomed'[v] = doomed[v]
      BY <1>0, <2>1 DEF TypeOK
    <2>3. doomed'[w] = Present \ Kept(date[w]) /\ pc'[w] = "delete"
      BY <1>0, <2>1 DEF TypeOK
    <2>4. MonthlyKept'
      BY <2>1 DEF MonthlyKept, MadeFirst
    <2>5. \A d \in doomed'[w] : d \in made /\ d <= date[w] - DailyRetain
      <3>1. Runs'
        BY RunsNext
      <3>. QED
        BY <2>1, <2>3, <3>1 DEF Runs, OldDoomed
    <2>6. ASSUME NEW d \in doomed'[w], d \in MadeFirst
          PROVE  Cardinality(LaterFirsts(d)) >= MonthlyRetain
      <3>1. d \in Present /\ d \notin Monthly
        BY <2>3 DEF Kept
      <3>2. d \in Firsts(Present)
        BY <1>0, <2>6, <3>1 DEF MadeFirst, Firsts
      <3>3. /\ Cardinality({ e \in Firsts(Present) : e > d }) \in Nat
            /\ Cardinality({ e \in Firsts(made) : e > d }) \in Nat
            /\ Cardinality({ e \in Firsts(Present) : e > d })
                 <= Cardinality({ e \in Firsts(made) : e > d })
        BY <1>0, <3>1, <3>2, LaterMonths
      <3>4. ~(Cardinality({ e \in Firsts(Present) : e > d }) < MonthlyRetain)
        BY <3>1, <3>2, FirstsAre DEF Monthly
      <3>5. LaterFirsts(d) = { e \in Firsts(made) : e > d }
        BY FirstsAre DEF LaterFirsts
      <3>. DEFINE here == Cardinality({ e \in Firsts(Present) : e > d })
                  ever == Cardinality({ e \in Firsts(made) : e > d })
      <3>6. here \in Nat /\ ever \in Nat /\ here <= ever /\ ~(here < MonthlyRetain)
        BY <3>3, <3>4
      <3>. HIDE DEF here, ever
      <3>7. ever >= MonthlyRetain
        BY <3>6
      <3>. QED
        BY <3>5, <3>7 DEF ever
    <2>7. Condemned'
      BY <2>1, <2>2, <2>5, <2>6 DEF Condemned, MadeFirst, LaterFirsts
    <2>. QED
      BY <2>4, <2>7
  <1>12. ASSUME NEW w \in Workers, NEW d \in doomed[w], Unlink(w, d)
         PROVE  MonthlyKept' /\ Condemned'
    <2>1. /\ pc[w] = "delete" /\ files' = [files EXCEPT ![d] = "none"]
          /\ doomed' = [doomed EXCEPT ![w] = @ \ {d}]
          /\ UNCHANGED <<pc, date, made>>
      BY <1>12 DEF Unlink, IsNext
    <2>2. /\ d \in Days /\ d \in made
          /\ d \in MadeFirst => Cardinality(LaterFirsts(d)) >= MonthlyRetain
      BY <1>0, <2>1 DEF Condemned
    <2>3. \A e \in Days : e # d => files'[e] = files[e]
      BY <1>0, <2>1 DEF TypeOK
    <2>4. MonthlyKept'
      <3>. SUFFICES ASSUME NEW e \in MadeFirst, Cardinality(LaterFirsts(e)) < MonthlyRetain
                    PROVE  files'[e] # "none"
        BY <2>1 DEF MonthlyKept, MadeFirst, LaterFirsts
      <3>1. e \in made /\ e \in Days
        BY <1>0 DEF MadeFirst
      <3>2. e # d
        <4>1. ASSUME e = d PROVE FALSE
          <5>1. /\ Cardinality(LaterFirsts(e)) < MonthlyRetain
                /\ Cardinality(LaterFirsts(e)) >= MonthlyRetain
            <6>1. d \in MadeFirst /\ LaterFirsts(e) = LaterFirsts(d)
              BY <4>1
            <6>2. Cardinality(LaterFirsts(d)) >= MonthlyRetain
              BY <2>2, <6>1
            <6>. QED
              BY <6>1, <6>2, Zenon
          <5>2. IsFiniteSet(LaterFirsts(e))
            BY <1>0, DaysAreFinite, FS_Subset DEF LaterFirsts, MadeFirst
          <5>3. Cardinality(LaterFirsts(e)) \in Nat
            BY <5>2, FS_CardinalityType
          <5>. HIDE DEF LaterFirsts
          <5>. QED
            BY <5>1, <5>3
        <4>. QED
          BY <4>1
      <3>. QED
        BY <2>3, <3>1, <3>2 DEF MonthlyKept, LaterFirsts
    <2>5. \A v \in Workers : doomed'[v] \subseteq doomed[v]
      BY <1>0, <2>1 DEF TypeOK
    <2>6. Condemned'
      BY <2>1, <2>5 DEF Condemned, MadeFirst, LaterFirsts
    <2>. QED
      BY <2>4, <2>6
  <1>. QED
    BY <1>3, <1>4, <1>6, <1>7, <1>8, <1>9, <1>10, <1>11, <1>12 DEF Next, Run

-----------------------------------------------------------------------------
(***************************************************************************)
(* What a run leaves undeleted.                                            *)
(***************************************************************************)

\* Of a finite set of numbers, no more than n have fewer than n above them.
LEMMA LatestFew ==
  ASSUME NEW S \in SUBSET Nat, IsFiniteSet(S), NEW n \in Nat
  PROVE  Cardinality({ d \in S : Cardinality({ e \in S : e > d }) < n }) <= n
  <1>. DEFINE above(d) == { e \in S : e > d }
              T == { d \in S : Cardinality(above(d)) < n }
  <1>. SUFFICES Cardinality(T) <= n
    OBVIOUS
  <1>1. T \in SUBSET S /\ T \in SUBSET Nat /\ IsFiniteSet(T)
    BY FS_Subset
  <1>2. CASE T = {}
    <2>1. Cardinality({}) = 0
      BY FS_EmptySet
    <2>. HIDE DEF T
    <2>. QED
      BY <1>2, <2>1
  <1>3. CASE T # {}
    <2>1. PICK m \in T : \A d \in T : m <= d
      BY <1>1, <1>3, FirstDay
    <2>2. Cardinality(above(m)) < n
      OBVIOUS
    <2>3. T \ {m} \subseteq above(m)
      <3>1. ASSUME NEW d \in T, d # m PROVE d > m
        BY <1>1, <2>1, <3>1
      <3>. QED
        BY <1>1, <3>1
    <2>4. IsFiniteSet(above(m))
      BY FS_Subset
    <2>. HIDE DEF above, T
    <2>5. Cardinality(T \ {m}) <= Cardinality(above(m))
      BY <2>3, <2>4, FS_Subset
    <2>6. IsFiniteSet(T \ {m}) /\ Cardinality(T \ {m}) = Cardinality(T) - 1
      BY <1>1, <2>1, FS_RemoveElement
    <2>7. Cardinality(T) \in Nat /\ Cardinality(above(m)) \in Nat
      BY <1>1, <2>4, FS_CardinalityType
    <2>. QED
      BY <2>2, <2>5, <2>6, <2>7
  <1>. QED
    BY <1>2, <1>3

\* Leaving behind no other snapshots than before keeps the bound.
LEMMA FewerLeft ==
  ASSUME TypeOK, TypeOK', FewLeft, DailyRetain > 1, NEW w \in Workers, pc[w] = "delete",
         LeftBehind(w)' \subseteq LeftBehind(w)
  PROVE  Cardinality(LeftBehind(w))' <= MonthlyRetain
  <1>1. IsFiniteSet(LeftBehind(w))
    <2>1. LeftBehind(w) \subseteq Days
      BY DEF LeftBehind, Present
    <2>. QED
      BY <2>1, DaysAreFinite, FS_Subset
  <1>2. Cardinality(LeftBehind(w)) <= MonthlyRetain
    BY DEF FewLeft
  <1>3. PICK A : A = LeftBehind(w)
    OBVIOUS
  <1>4. PICK B : B = LeftBehind(w)'
    OBVIOUS
  <1>5. IsFiniteSet(B) /\ Cardinality(B) <= Cardinality(A) /\ IsFiniteSet(A)
    BY <1>1, <1>3, <1>4, FS_Subset
  <1>6. Cardinality(B) \in Nat /\ Cardinality(A) \in Nat /\ Cardinality(A) <= MonthlyRetain
    BY <1>2, <1>3, <1>5, FS_CardinalityType
  <1>7. Cardinality(B) <= MonthlyRetain
    BY <1>5, <1>6
  <1>8. Cardinality(LeftBehind(w))' = Cardinality(B)
    BY <1>4
  <1>. QED
    BY <1>7, <1>8

LEMMA FewLeftNext ==
  ASSUME Runs, FewLeft, [Next]_vars
  PROVE  FewLeft'
  <1>0. TypeOK /\ TypeOK' /\ Runs'
    BY RunsNext DEF Runs
  <1>. SUFFICES ASSUME DailyRetain > 1, NEW w \in Workers, pc'[w] = "delete"
                PROVE  Cardinality(LeftBehind(w))' <= MonthlyRetain
    BY DEF FewLeft
  \* No step but the listing of w itself adds to what w leaves behind.
  <1>1. ASSUME pc[w] = "delete", date'[w] = date[w],
               \A d \in Days : d <= date[w] - DailyRetain /\ files[d] = "none" =>
                 files'[d] = "none",
               \A d \in doomed[w] \ doomed'[w] : files'[d] = "none"
        PROVE  Cardinality(LeftBehind(w))' <= MonthlyRetain
    <2>1. LeftBehind(w)' \subseteq LeftBehind(w)
      BY <1>1 DEF LeftBehind, Present
    <2>. QED
      BY <1>0, <1>1, <2>1, FewerLeft
  <1>2. CASE NextDay \/ UNCHANGED vars
    BY <1>1, <1>2 DEF NextDay, vars
  <1>3. CASE \E left \in {"empty", "partial"} : Crash(left)
    BY <1>3 DEF Crash
  <1>4. ASSUME NEW v \in Workers, Idle(v), UNCHANGED files
        PROVE  Cardinality(LeftBehind(w))' <= MonthlyRetain
    <2>1. pc[w] = "delete" /\ date'[w] = date[w] /\ doomed'[w] = doomed[w]
      BY <1>0, <1>4 DEF Idle, TypeOK
    <2>. QED
      BY <1>1, <1>4, <2>1
  <1>5. ASSUME NEW v \in Workers,
               \/ Raise(v) \/ Stamp(v) \/ StampBusy(v)
               \/ \E d \in doomed[v] : UnlinkGone(v, d)
        PROVE  Cardinality(LeftBehind(w))' <= MonthlyRetain
    BY <1>4, <1>5 DEF Raise, Stamp, StampBusy, UnlinkGone
  <1>6. ASSUME NEW v \in Workers, Begin(v) \/ Refuse(v)
        PROVE  Cardinality(LeftBehind(w))' <= MonthlyRetain
    <2>1. pc[w] = "delete" /\ date'[w] = date[w] /\ UNCHANGED <<files, doomed>>
      BY <1>0, <1>6 DEF Begin, Refuse, AfterRefusal, TypeOK
    <2>. QED
      BY <1>1, <2>1
  <1>7. ASSUME NEW v \in Workers, NEW content \in Contents, date[v] \in Days,
               date[v] \in {today - 1, today},
               files' = [files EXCEPT ![date[v]] = content],
               pc[w] = "delete", date'[w] = date[w], doomed'[w] = doomed[w]
        PROVE  Cardinality(LeftBehind(w))' <= MonthlyRetain
    <2>1. date[w] \in {today - 1, today} /\ today \in Nat /\ DailyRetain \in Nat
      BY <1>0, <1>7, Numbers
    <2>2. ~(date[v] <= date[w] - DailyRetain)
      BY <1>7, <2>1
    <2>3. \A d \in Days : d # date[v] => files'[d] = files[d]
      BY <1>0, <1>7 DEF TypeOK
    <2>. QED
      BY <1>1, <1>7, <2>2, <2>3
  <1>8. ASSUME NEW v \in Workers, Copy(v)
        PROVE  Cardinality(LeftBehind(w))' <= MonthlyRetain
    <2>1. pc[w] = "delete" /\ date'[w] = date[w] /\ doomed'[w] = doomed[w]
      BY <1>0, <1>8 DEF Copy, TypeOK
    <2>2. /\ date[v] \in Days /\ date[v] \in {today - 1, today}
          /\ files' = [files EXCEPT ![date[v]] = "growing"] /\ "growing" \in Contents
      BY <1>0, <1>8, Numbers DEF Copy, Contents
    <2>. QED
      BY <1>7, <2>1, <2>2
  <1>9. ASSUME NEW v \in Workers,
               Copied(v) \/ \E left \in {"empty", "partial"} : CopyFails(v, left)
        PROVE  Cardinality(LeftBehind(w))' <= MonthlyRetain
    <2>1. pc[w] = "delete" /\ date'[w] = date[w] /\ doomed'[w] = doomed[w]
      BY <1>0, <1>9 DEF Copied, CopyFails, Idle, TypeOK
    <2>2. \E content \in Contents : files' = [files EXCEPT ![date[v]] = content]
      BY <1>9 DEF Copied, CopyFails, Contents
    <2>3. date[v] \in Days /\ date[v] \in {today - 1, today}
      BY <1>0, <1>9, Numbers DEF Copied, CopyFails
    <2>. QED
      BY <1>7, <2>1, <2>2, <2>3
  <1>10. ASSUME NEW v \in Workers, List(v)
         PROVE  Cardinality(LeftBehind(w))' <= MonthlyRetain
    <2>1. /\ pc[v] = "prune" /\ pc' = [pc EXCEPT ![v] = "delete"]
          /\ doomed' = [doomed EXCEPT ![v] = Present \ Kept(date[v])]
          /\ UNCHANGED <<files, date>>
      BY <1>10 DEF List
    <2>2. CASE w # v
      <3>1. pc[w] = "delete" /\ doomed'[w] = doomed[w]
        BY <1>0, <2>1, <2>2 DEF TypeOK
      <3>. QED
        BY <1>1, <2>1, <3>1
    <2>3. CASE w = v
      <3>1. doomed'[w] = Present \ Kept(date[w])
        BY <1>0, <2>1, <2>3 DEF TypeOK
      <3>2. LeftBehind(w)' = { d \in Present : d <= date[w] - DailyRetain }
                               \ (Present \ Kept(date[w]))
        BY <2>1, <3>1 DEF LeftBehind, Present
      <3>3. ASSUME NEW d \in LeftBehind(w)'
            PROVE  d \in Monthly
        <4>1. d \in Present /\ d <= date[w] - DailyRetain /\ d \in Kept(date[w])
          BY <3>2
        <4>2. date[w] \in Int /\ DailyRetain \in Nat /\ d \in Nat
          BY <1>0, <4>1, Numbers DEF Present
        <4>3. ~(d >= date[w] - (DailyRetain - 1))
          BY <4>1, <4>2
        <4>. QED
          BY <4>1, <4>3 DEF Kept, Recent
      <3>4. /\ FirstOfMonth \in SUBSET Days /\ FirstOfMonth \in SUBSET Nat
            /\ IsFiniteSet(FirstOfMonth)
        <4>1. FirstOfMonth \in SUBSET Days
          BY DEF FirstOfMonth, Present
        <4>. QED
          BY <4>1, DaysAreFinite, FS_Subset
      <3>5. Cardinality(Monthly) <= MonthlyRetain
        <4>1. MonthlyRetain \in Nat
          BY <1>0, Numbers
        <4>. QED
          BY <3>4, <4>1, LatestFew DEF Monthly
      <3>6. IsFiniteSet(Monthly)
        <4>1. Monthly \subseteq FirstOfMonth
          BY DEF Monthly
        <4>. QED
          BY <3>4, <4>1, FS_Subset
      <3>7. PICK B : B = LeftBehind(w)'
        OBVIOUS
      <3>8. IsFiniteSet(B) /\ Cardinality(B) <= Cardinality(Monthly)
        BY <3>3, <3>6, <3>7, FS_Subset
      <3>9. Cardinality(B) \in Nat /\ Cardinality(Monthly) \in Nat /\ MonthlyRetain \in Nat
        BY <1>0, <3>6, <3>8, FS_CardinalityType, Numbers
      <3>10. Cardinality(B) <= MonthlyRetain
        BY <3>5, <3>8, <3>9
      <3>. QED
        BY <3>7, <3>10
    <2>. QED
      BY <2>2, <2>3
  <1>11. ASSUME NEW v \in Workers, NEW d \in doomed[v], Unlink(v, d)
         PROVE  Cardinality(LeftBehind(w))' <= MonthlyRetain
    <2>1. /\ files' = [files EXCEPT ![d] = "none"]
          /\ doomed' = [doomed EXCEPT ![v] = @ \ {d}]
          /\ UNCHANGED <<pc, date>>
      BY <1>11 DEF Unlink, IsNext
    <2>2. d \in Days /\ \A e \in Days : files'[e] = IF e = d THEN "none" ELSE files[e]
      BY <1>0, <2>1 DEF TypeOK
    <2>3. doomed[w] \ doomed'[w] \subseteq {d}
      BY <1>0, <2>1 DEF TypeOK
    <2>. QED
      BY <1>1, <2>1, <2>2, <2>3
  <1>. QED
    BY <1>2, <1>3, <1>5, <1>6, <1>8, <1>9, <1>10, <1>11 DEF Next, Run

-----------------------------------------------------------------------------
(***************************************************************************)
(* The theorems.                                                           *)
(***************************************************************************)

LEMMA IInvInit == Init => IInv
  <1>. SUFFICES ASSUME Init PROVE IInv
    OBVIOUS
  <1>1. Runs
    BY RunsInit
  <1>2. MonthlyKept /\ Condemned
    BY DEF Init, MonthlyKept, MadeFirst, Condemned
  <1>3. FewLeft
    BY DEF Init, FewLeft
  <1>. QED
    BY <1>1, <1>2, <1>3 DEF IInv, Runs

LEMMA IInvNext == IInv /\ [Next]_vars => IInv'
  <1>. SUFFICES ASSUME IInv, [Next]_vars PROVE IInv'
    OBVIOUS
  <1>1. Runs /\ MonthlyKept /\ Condemned /\ FewLeft
    BY DEF IInv, Runs, Condemned, OldDoomed
  <1>2. Runs' /\ MonthlyKept' /\ Condemned' /\ FewLeft'
    BY <1>1, RunsNext, MonthsNext, FewLeftNext
  <1>. QED
    BY <1>2 DEF IInv, Runs

\* The inductive invariant: what is copied into, listed and deleted by any number
\* of runs at once, through failed copies and crashes (run_snapshot).
THEOREM Invariance == Spec => []IInv
  BY IInvInit, IInvNext, PTL DEF Spec

\* A snapshot once complete stays so for DailyRetain days (prune_old_snapshots).
THEOREM DailiesAreKept == Spec => []DailyKept
  <1>1. IInv => DailyKept
    BY DEF IInv
  <1>. QED
    BY <1>1, Invariance, PTL

\* Each of the latest months that ever had a file keeps its first one, over all
\* the prunings since (prune_old_snapshots).
THEOREM MonthliesAreKept == Spec => []MonthlyKept
  <1>1. IInv => MonthlyKept
    BY DEF IInv
  <1>. QED
    BY <1>1, Invariance, PTL

\* A run that reports success leaves, up to its own day, no more snapshots than
\* the two rules allow, whatever other runs add, delete or fail at meanwhile.
\* A window of one day is left out: a run begun the day before and still to
\* write would exceed it (prune_old_snapshots; DAILY_RETAIN is 30).
THEOREM DirectoryIsBounded ==
  ASSUME DailyRetain > 1
  PROVE  Spec => PruningBounds
  <1>1. ASSUME IInv, NEW w \in Workers, Stamp(w)
        PROVE  Cardinality({ d \in Present : d <= date[w] }) <= DailyRetain + MonthlyRetain
    <2>. DEFINE upTo == { d \in Present : d <= date[w] }
                days == date[w] - DailyRetain + 1 .. date[w]
    <2>1. pc[w] = "delete" /\ doomed[w] = {}
      BY <1>1 DEF Stamp
    <2>2. TypeOK /\ FewLeft
      BY <1>1 DEF IInv
    <2>3. date[w] \in Int /\ DailyRetain \in Nat \ {0} /\ MonthlyRetain \in Nat
      BY <2>2, Numbers
    <2>4. upTo \subseteq days \cup LeftBehind(w)
      <3>1. ASSUME NEW d \in upTo, ~(d <= date[w] - DailyRetain)
            PROVE  d \in days
        <4>1. d \in Nat /\ d <= date[w]
          BY <2>2, Numbers DEF Present
        <4>. QED
          BY <2>3, <3>1, <4>1
      <3>. QED
        BY <2>1, <3>1 DEF LeftBehind
    <2>5. IsFiniteSet(LeftBehind(w))
      <3>1. LeftBehind(w) \subseteq Days
        BY DEF LeftBehind, Present
      <3>. QED
        BY <3>1, DaysAreFinite, FS_Subset
    <2>6. Cardinality(LeftBehind(w)) <= MonthlyRetain
      BY <2>1, <2>2 DEF FewLeft
    <2>7. IsFiniteSet(days) /\ Cardinality(days) = DailyRetain
      <3>. DEFINE a == date[w] - DailyRetain + 1
                  b == date[w]
      <3>1. a \in Int /\ b \in Int /\ ~(a > b) /\ b - a + 1 = DailyRetain
        BY <2>3
      <3>2. IsFiniteSet(a .. b) /\ Cardinality(a .. b) = IF a > b THEN 0 ELSE b - a + 1
        BY <3>1, FS_Interval
      <3>. QED
        BY <3>1, <3>2
    <2>. HIDE DEF upTo, days
    <2>8. /\ IsFiniteSet(days \cup LeftBehind(w))
          /\ Cardinality(days \cup LeftBehind(w))
               = Cardinality(days) + Cardinality(LeftBehind(w))
                 - Cardinality(days \cap LeftBehind(w))
      BY <2>5, <2>7, FS_Union
    <2>9. IsFiniteSet(days \cap LeftBehind(w))
      BY <2>7, FS_Subset
    <2>10. IsFiniteSet(upTo) /\ Cardinality(upTo) <= Cardinality(days \cup LeftBehind(w))
      BY <2>4, <2>8, FS_Subset
    <2>11. /\ Cardinality(upTo) \in Nat /\ Cardinality(LeftBehind(w)) \in Nat
           /\ Cardinality(days \cap LeftBehind(w)) \in Nat
      BY <2>5, <2>9, <2>10, FS_CardinalityType
    <2>12. Cardinality(upTo) <= DailyRetain + MonthlyRetain
      BY <2>3, <2>6, <2>7, <2>8, <2>10, <2>11
    <2>. QED
      BY <2>12 DEF upTo
  <1>2. IInv => [\A w \in Workers :
                   Stamp(w) => Cardinality({ d \in Present : d <= date[w] })
                                 <= DailyRetain + MonthlyRetain]_vars
    BY <1>1
  <1>. QED
    BY <1>2, Invariance, PTL DEF PruningBounds

\* A reported backup stands for a complete snapshot (run_snapshot).
THEOREM ReportsAreTrue == Spec => []ReportedIsTaken
  <1>1. IInv => ReportedIsTaken
    BY DEF IInv
  <1>. QED
    BY <1>1, Invariance, PTL

=============================================================================
