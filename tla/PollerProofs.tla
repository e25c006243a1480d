---------------------------- MODULE PollerProofs ----------------------------
(***************************************************************************)
(* Theorems about Poller, for every set of devices and every bound.        *)
(***************************************************************************)
EXTENDS Poller, SequenceTheorems, TLAPS

USE PollerAssumption

-----------------------------------------------------------------------------
(***************************************************************************)
(* What a commit does to the rows of one device.                           *)
(***************************************************************************)

\* The answer in hand gives each device in it an instant or none.
LEMMA ClientTimes ==
  ASSUME clients \in Snapshot, NEW m \in DOMAIN clients
  PROVE  clients[m] \in Time \cup {NoTime}
  <1>1. PICK S \in SUBSET Devices : clients \in [S -> Time \cup {NoTime}]
    BY DEF Snapshot
  <1>. QED
    BY <1>1

\* One row is appended at most, and it is a sighting or the one disconnect of a
\* device connected until then.
LEMMA RowsOfCases ==
  ASSUME TypeOK, pc = "store", CycleOrder, NEW m \in Devices
  PROVE  \/ RowsOf(m) = <<>> /\ m \notin DOMAIN clients /\ ~Vanished(m)
         \/ \E r \in Row :
              /\ RowsOf(m) = <<r>> /\ r.at = attempted
              /\ \/ r.connected /\ m \in DOMAIN clients /\ r.seen = clients[m]
                 \/ ~r.connected /\ Vanished(m) /\ r.seen = Previous(m).seen
  <1>1. attempted \in Time
    BY DEF TypeOK, CycleOrder, Time, NoTime
  <1>2. CASE m \in DOMAIN clients
    <2>1. clients[m] \in Time \cup {NoTime}
      BY <1>2, ClientTimes DEF TypeOK
    <2>2. [at |-> attempted, seen |-> clients[m], connected |-> TRUE] \in Row
      BY <1>1, <2>1 DEF Row
    <2>3. RowsOf(m) = <<[at |-> attempted, seen |-> clients[m], connected |-> TRUE]>>
      <3>1. ~Vanished(m)
        BY <1>2 DEF Vanished
      <3>. QED
        BY <1>2, <3>1 DEF RowsOf
    <2>. QED
      BY <1>2, <2>2, <2>3
  <1>3. CASE m \notin DOMAIN clients /\ Vanished(m)
    <2>1. obs[m] \in Seq(Row) /\ obs[m] # <<>>
      BY <1>3 DEF TypeOK, Vanished
    <2>2. Previous(m) \in Row
      BY <2>1 DEF Previous
    <2>3. [at |-> attempted, seen |-> Previous(m).seen, connected |-> FALSE] \in Row
      BY <1>1, <2>2 DEF Row
    <2>4. RowsOf(m) = <<[at |-> attempted, seen |-> Previous(m).seen, connected |-> FALSE]>>
      BY <1>3 DEF RowsOf
    <2>. QED
      BY <1>3, <2>3, <2>4
  <1>4. CASE m \notin DOMAIN clients /\ ~Vanished(m)
    BY <1>4 DEF RowsOf
  <1>. QED
    BY <1>2, <1>3, <1>4

\* Appending a row keeps those before it and their places.
LEMMA RowAppended ==
  ASSUME NEW s \in Seq(Row), NEW r \in Row
  PROVE  /\ s \o <<r>> \in Seq(Row)
         /\ Len(s \o <<r>>) = Len(s) + 1
         /\ \A i \in 1 .. Len(s) : (s \o <<r>>)[i] = s[i]
         /\ (s \o <<r>>)[Len(s) + 1] = r
  <1>1. <<r>> \in Seq(Row) /\ Len(<<r>>) = 1 /\ <<r>>[1] = r /\ Len(s) \in Nat
    OBVIOUS
  <1>. HIDE DEF Row
  <1>. QED
    BY <1>1, ConcatProperties, Z3

-----------------------------------------------------------------------------
(***************************************************************************)
(* The commit of a cycle, one device at a time.                            *)
(***************************************************************************)

\* What IInv says of the rows of one device, with the latest success, the latest
\* time the controller saw it and nothing in hand.
Rows(s, succeeded, last) ==
  /\ s \in Seq(Row)
  /\ \A i \in 1 .. Len(s) :
       /\ ~s[i].connected => i > 1 /\ s[i - 1].connected /\ s[i].seen = s[i - 1].seen
       /\ s[i].at <= succeeded
       /\ i = Len(s) /\ s[i].connected => s[i].at = succeeded
       /\ s[i].seen <= last
  /\ \A i, j \in 1 .. Len(s) :
       i < j /\ s[i].seen # NoTime /\ s[j].seen # NoTime => s[i].seen <= s[j].seen

\* The invariant, device by device.
LEMMA RowsOfInvariant ==
  ASSUME IInv, NEW m \in Devices
  PROVE  Rows(obs[m], state.succeeded, lastSeen[m])
  <1>1. obs[m] \in Seq(Row) /\ DOMAIN obs[m] = 1 .. Len(obs[m])
    BY DEF IInv, TypeOK
  <1>. QED
    BY <1>1 DEF IInv, Rows, DisconnectsPaired, ConnectedIsCurrent, SeenInOrder, Sightings

\* A commit keeps the rows of a device in order.
LEMMA CommitKeepsRows ==
  ASSUME IInv, Commit, NEW m \in Devices
  PROVE  Rows(obs'[m], state'.succeeded, lastSeen'[m])
  <1>. DEFINE s == obs[m]
              t == obs'[m]
  <1>1. /\ TypeOK /\ pc = "store" /\ CycleOrder /\ Sightings
        /\ state'.succeeded = attempted /\ lastSeen' = lastSeen
        /\ t = s \o RowsOf(m)
    BY DEF IInv, TypeOK, Commit, Succeeded, world
  <1>2. Rows(s, state.succeeded, lastSeen[m])
    BY RowsOfInvariant
  <1>3. s \in Seq(Row) /\ Len(s) \in Nat
    BY <1>2 DEF Rows
  <1>4. \A i \in 1 .. Len(s) : s[i] \in Row
    BY <1>3
  <1>5. state.succeeded \in Int /\ attempted \in Int /\ state.succeeded < attempted
        /\ lastSeen[m] \in Int
    BY <1>1 DEF TypeOK, CycleOrder, Time, NoTime
  <1>6. CASE RowsOf(m) = <<>> /\ m \notin DOMAIN clients /\ ~Vanished(m)
    <2>1. t = s
      BY <1>1, <1>3, <1>6, ConcatEmptySeq
    <2>2. s # <<>> => ~s[Len(s)].connected
      BY <1>6 DEF Vanished, Previous
    <2>3. \A i \in 1 .. Len(s) : s[i].at \in Int /\ s[i].at <= attempted
      BY <1>2, <1>4, <1>5 DEF Rows, Row, Time
    <2>4. \A i \in 1 .. Len(s) : i = Len(s) => ~s[i].connected
      BY <2>2, <1>3
    <2>. QED
      BY <1>1, <1>2, <2>1, <2>3, <2>4 DEF Rows
  <1>7. ASSUME NEW r \in Row, RowsOf(m) = <<r>>, r.at = attempted,
               \/ r.connected /\ m \in DOMAIN clients /\ r.seen = clients[m]
               \/ ~r.connected /\ Vanished(m) /\ r.seen = Previous(m).seen
        PROVE  Rows(t, attempted, lastSeen[m])
    <2>1. /\ t \in Seq(Row) /\ Len(t) = Len(s) + 1
          /\ \A i \in 1 .. Len(s) : t[i] = s[i]
          /\ t[Len(s) + 1] = r
      BY <1>1, <1>3, <1>7, RowAppended
    <2>2. /\ r.seen \in Int /\ r.at \in Int
          /\ \A i \in 1 .. Len(s) : s[i].at \in Int /\ s[i].seen \in Int
      BY <1>4 DEF Row, Time, NoTime
    <2>3. ~r.connected => /\ Len(s) >= 1 /\ s[Len(s)].connected
                          /\ r.seen = s[Len(s)].seen
      <3>1. s # <<>> => Len(s) >= 1
        BY <1>3
      <3>. QED
        BY <1>7, <3>1 DEF Vanished, Previous
    <2>4. r.seen <= lastSeen[m]
      <3>1. CASE r.connected
        BY <1>1, <1>7, <3>1 DEF Sightings
      <3>2. CASE ~r.connected
        BY <1>2, <1>3, <2>3, <3>2 DEF Rows
      <3>. QED
        BY <3>1, <3>2
    <2>5. \A i \in 1 .. Len(s) : s[i].seen # NoTime /\ r.seen # NoTime => s[i].seen <= r.seen
      <3>1. CASE r.connected
        <4>1. DOMAIN s = 1 .. Len(s)
          BY <1>3
        <4>. QED
          BY <1>1, <1>7, <3>1, <4>1 DEF Sightings
      <3>2. CASE ~r.connected
        <4>1. Len(s) \in 1 .. Len(s) /\ r.seen = s[Len(s)].seen
          BY <1>3, <2>3, <3>2
        <4>2. \A i \in 1 .. Len(s) : i = Len(s) \/ i < Len(s)
          BY <1>3
        <4>3. \A i, j \in 1 .. Len(s) :
                 i < j /\ s[i].seen # NoTime /\ s[j].seen # NoTime => s[i].seen <= s[j].seen
          BY <1>2 DEF Rows
        <4>. HIDE DEF s
        <4>. QED
          BY <2>2, <4>1, <4>2, <4>3
      <3>. QED
        BY <3>1, <3>2
    <2>6. \A i \in 1 .. Len(t) : i = Len(s) + 1 \/ (i \in 1 .. Len(s) /\ i < Len(t))
      BY <1>3, <2>1
    <2>7. ASSUME NEW i \in 1 .. Len(t)
          PROVE  /\ ~t[i].connected => /\ i > 1 /\ t[i - 1].connected
                                       /\ t[i].seen = t[i - 1].seen
                 /\ t[i].at <= attempted
                 /\ i = Len(t) /\ t[i].connected => t[i].at = attempted
                 /\ t[i].seen <= lastSeen[m]
      <3>1. CASE i = Len(s) + 1
        <4>1. ~t[i].connected => /\ i > 1 /\ t[i - 1].connected
                                 /\ t[i].seen = t[i - 1].seen
          BY <1>3, <2>1, <2>3, <3>1
        <4>. QED
          BY <1>5, <1>7, <2>1, <2>2, <2>4, <3>1, <4>1
      <3>2. CASE i \in 1 .. Len(s) /\ i < Len(t)
        <4>1. t[i] = s[i] /\ (i > 1 => t[i - 1] = s[i - 1])
          BY <1>3, <2>1, <3>2
        <4>2. t[i].at <= attempted /\ t[i].seen <= lastSeen[m]
          BY <1>2, <1>5, <2>2, <3>2, <4>1 DEF Rows
        <4>3. ~t[i].connected => /\ i > 1 /\ t[i - 1].connected
                                 /\ t[i].seen = t[i - 1].seen
          BY <1>2, <3>2, <4>1 DEF Rows
        <4>. QED
          BY <3>2, <4>2, <4>3
      <3>. QED
        BY <2>6, <3>1, <3>2
    <2>8. ASSUME NEW i \in 1 .. Len(t), NEW j \in 1 .. Len(t),
                 i < j, t[i].seen # NoTime, t[j].seen # NoTime
          PROVE  t[i].seen <= t[j].seen
      <3>1. i \in 1 .. Len(s) /\ t[i] = s[i]
        BY <1>3, <2>1, <2>8
      <3>2. CASE j = Len(s) + 1
        BY <2>1, <2>5, <2>8, <3>1, <3>2
      <3>3. CASE j \in 1 .. Len(s)
        BY <1>2, <2>1, <2>8, <3>1, <3>3 DEF Rows
      <3>. QED
        BY <2>6, <3>2, <3>3
    <2>. QED
      BY <2>1, <2>7, <2>8 DEF Rows
  <1>. QED
    BY <1>1, <1>6, <1>7, RowsOfCases

-----------------------------------------------------------------------------
(***************************************************************************)
(* Invariance                                                              *)
(***************************************************************************)

LEMMA InitIInv == Init => IInv
  <1>. SUFFICES ASSUME Init PROVE IInv
    OBVIOUS
  <1>1. TypeOK
    <2>1. clients \in [{} -> Time \cup {NoTime}]
      BY DEF Init, Nobody
    <2>2. clients \in Snapshot
      BY <2>1 DEF Snapshot
    <2>3. obs \in [Devices -> Seq(Row)]
      BY DEF Init
    <2>4. /\ lastSeen \in [Devices -> Time \cup {NoTime}]
          /\ state \in [attempted : Time \cup {NoTime}, succeeded : Time \cup {NoTime},
                        failures : Nat]
      BY DEF Init
    <2>5. clock \in Time /\ attempted \in Time \cup {NoTime}
      BY DEF Init, Time
    <2>. QED
      BY <2>2, <2>3, <2>4, <2>5 DEF Init, TypeOK
  <1>2. CycleOrder /\ FailuresSinceSuccess
    BY DEF Init, CycleOrder, FailuresSinceSuccess, NoTime
  <1>3. Sightings /\ DisconnectsPaired /\ ConnectedIsCurrent /\ SeenInOrder
    BY DEF Init, Nobody, Sightings, DisconnectsPaired, ConnectedIsCurrent, SeenInOrder, NoTime
  <1>. QED
    BY <1>1, <1>2, <1>3 DEF IInv

\* A step that leaves the database and the answer in hand alone, or forgets the
\* answer, and does not take the poller back to before its attempt.
LEMMA QuietStep ==
  ASSUME IInv, UNCHANGED <<clock, present, lastSeen, token, lockTaken, obs, state, attempted>>,
         clients' = clients \/ clients' = Nobody,
         pc' \in {"idle", "login", "fetch", "relogin", "refetch", "store", "failed", "raised"},
         pc' \notin {"idle", "raised"} => pc \notin {"idle", "raised"},
         loggedIn' \in BOOLEAN
  PROVE  IInv'
  <1>1. Nobody \in Snapshot
    <2>1. Nobody \in [{} -> Time \cup {NoTime}]
      BY DEF Nobody
    <2>. QED
      BY <2>1 DEF Snapshot
  <1>2. TypeOK'
    BY <1>1 DEF IInv, TypeOK
  <1>3. CycleOrder'
    BY DEF IInv, CycleOrder
  <1>4. Sightings'
    BY DEF IInv, Sightings, Nobody
  <1>5. DisconnectsPaired' /\ ConnectedIsCurrent' /\ FailuresSinceSuccess' /\ SeenInOrder'
    BY DEF IInv, DisconnectsPaired, ConnectedIsCurrent, FailuresSinceSuccess, SeenInOrder
  <1>. QED
    BY <1>2, <1>3, <1>4, <1>5 DEF IInv

LEMMA StepIInv == IInv /\ [Next]_vars => IInv'
  <1>. SUFFICES ASSUME IInv, [Next]_vars PROVE IInv'
    OBVIOUS
  <1>. USE DEF IInv
  <1>1. ASSUME NEW now \in SUBSET Devices, NEW heard \in SUBSET now, Tick(now, heard)
        PROVE  IInv'
    <2>1. TypeOK'
      BY <1>1 DEF Tick, committed, TypeOK, Time
    <2>2. CycleOrder'
      BY <1>1 DEF Tick, committed, TypeOK, Time, NoTime, CycleOrder
    <2>3. \A m \in Devices : lastSeen[m] <= lastSeen'[m] /\ lastSeen'[m] <= clock'
                             /\ lastSeen[m] \in Int /\ lastSeen'[m] \in Int
      BY <1>1 DEF Tick, TypeOK, Time, NoTime, Sightings
    <2>4. Sightings'
      <3>1. ASSUME NEW m \in Devices, NEW i \in DOMAIN obs[m]
            PROVE  obs[m][i].seen <= lastSeen'[m]
        <4>1. obs[m][i] \in Row
          BY <3>1 DEF TypeOK
        <4>2. obs[m][i].seen \in Int /\ obs[m][i].seen <= lastSeen[m]
          BY <3>1, <4>1 DEF Row, Time, NoTime, Sightings
        <4>. QED
          BY <2>3, <4>2
      <3>2. ASSUME NEW m \in Devices, m \in DOMAIN clients
            PROVE  clients[m] <= lastSeen'[m]
        <4>1. clients[m] \in Int
          BY <3>2, ClientTimes DEF TypeOK, Time, NoTime
        <4>. QED
          BY <2>3, <3>2, <4>1 DEF Sightings
      <3>. QED
        BY <1>1, <2>3, <3>1, <3>2 DEF Tick, committed, Sightings
    <2>5. DisconnectsPaired' /\ ConnectedIsCurrent' /\ FailuresSinceSuccess' /\ SeenInOrder'
      BY <1>1 DEF Tick, committed, DisconnectsPaired, ConnectedIsCurrent,
                  FailuresSinceSuccess, SeenInOrder
    <2>. QED
      BY <2>1, <2>2, <2>4, <2>5
  <1>2. CASE Expire \/ OtherWriter
    <2>1. TypeOK' /\ CycleOrder' /\ Sightings'
      BY <1>2 DEF Expire, OtherWriter, world, committed, TypeOK, CycleOrder, Sightings
    <2>2. DisconnectsPaired' /\ ConnectedIsCurrent' /\ FailuresSinceSuccess' /\ SeenInOrder'
      BY <1>2 DEF Expire, OtherWriter, world, committed, DisconnectsPaired,
                  ConnectedIsCurrent, FailuresSinceSuccess, SeenInOrder
    <2>. QED
      BY <2>1, <2>2
  <1>3. CASE Begin
    <2>1. TypeOK' /\ CycleOrder'
      BY <1>3 DEF Begin, world, committed, TypeOK, CycleOrder, Time, NoTime
    <2>2. Sightings' /\ DisconnectsPaired' /\ ConnectedIsCurrent' /\ FailuresSinceSuccess'
          /\ SeenInOrder'
      BY <1>3 DEF Begin, world, committed, Sightings, DisconnectsPaired,
                  ConnectedIsCurrent, FailuresSinceSuccess, SeenInOrder
    <2>. QED
      BY <2>1, <2>2
  <1>4. CASE LoginOk
    <2>1. TypeOK' /\ CycleOrder' /\ Sightings'
      BY <1>4 DEF LoginOk, world, committed, TypeOK, CycleOrder, Sightings
    <2>2. DisconnectsPaired' /\ ConnectedIsCurrent' /\ FailuresSinceSuccess' /\ SeenInOrder'
      BY <1>4 DEF LoginOk, world, committed, DisconnectsPaired, ConnectedIsCurrent,
                  FailuresSinceSuccess, SeenInOrder
    <2>. QED
      BY <2>1, <2>2
  <1>5. CASE LoginRejected \/ RequestFails \/ FetchRefused
    BY <1>5, QuietStep DEF LoginRejected, RequestFails, FetchRefused, After401, world,
                           committed, TypeOK
  <1>6. ASSUME NEW silent \in SUBSET Devices, FetchOk(silent)
        PROVE  IInv'
    <2>1. /\ present \in SUBSET Devices
          /\ clients' = [m \in present |-> IF m \in silent THEN NoTime ELSE lastSeen[m]]
          /\ lastSeen \in [Devices -> Time \cup {NoTime}]
          /\ UNCHANGED <<world, token, lockTaken, committed, loggedIn, attempted>>
          /\ pc \notin {"idle", "raised"} /\ pc' = "store"
      BY <1>6 DEF FetchOk, TypeOK
    <2>2. clients' \in Snapshot
      <3>1. clients' \in [present -> Time \cup {NoTime}]
        BY <2>1
      <3>. QED
        BY <2>1, <3>1 DEF Snapshot
    <2>3. TypeOK' /\ CycleOrder'
      BY <2>1, <2>2 DEF world, committed, TypeOK, CycleOrder
    <2>4. Sightings'
      <3>1. ASSUME NEW m \in DOMAIN clients'
            PROVE  /\ clients'[m] <= lastSeen[m]
                   /\ clients'[m] # NoTime => clients'[m] = lastSeen[m]
        BY <2>1, <3>1 DEF Time, NoTime
      <3>. QED
        BY <2>1, <3>1 DEF Sightings, world, committed
    <2>5. DisconnectsPaired' /\ ConnectedIsCurrent' /\ FailuresSinceSuccess' /\ SeenInOrder'
      BY <2>1 DEF world, committed, DisconnectsPaired, ConnectedIsCurrent,
                  FailuresSinceSuccess, SeenInOrder
    <2>. QED
      BY <2>3, <2>4, <2>5
  <1>7. CASE Commit
    <2>1. \A m \in Devices : Rows(obs'[m], state'.succeeded, lastSeen'[m])
      BY <1>7, CommitKeepsRows
    <2>2. obs' \in [Devices -> Seq(Row)]
      <3>1. obs' = [m \in Devices |-> obs[m] \o RowsOf(m)]
        BY <1>7 DEF Commit
      <3>2. \A m \in Devices : obs'[m] \in Seq(Row)
        BY <2>1 DEF Rows
      <3>. QED
        BY <3>1, <3>2
    <2>3. /\ pc = "store" /\ pc' = "idle" /\ clients' = Nobody
          /\ state' = [attempted |-> attempted, succeeded |-> attempted, failures |-> 0]
          /\ UNCHANGED <<clock, present, lastSeen, token, lockTaken, loggedIn, attempted>>
      BY <1>7 DEF Commit, Done, Succeeded, world
    <2>4. Nobody \in Snapshot
      <3>1. Nobody \in [{} -> Time \cup {NoTime}]
        BY DEF Nobody
      <3>. QED
        BY <3>1 DEF Snapshot
    <2>5. TypeOK' /\ CycleOrder' /\ FailuresSinceSuccess'
      BY <2>2, <2>3, <2>4 DEF TypeOK, CycleOrder, FailuresSinceSuccess, Time, NoTime
    <2>6. (DisconnectsPaired /\ ConnectedIsCurrent /\ SeenInOrder)'
          /\ \A m \in Devices : \A i \in DOMAIN obs'[m] : obs'[m][i].seen <= lastSeen'[m]
      <3>1. \A m \in Devices : DOMAIN obs'[m] = 1 .. Len(obs'[m])
        BY <2>2
      <3>2. DisconnectsPaired'
        BY <2>1, <3>1 DEF Rows, DisconnectsPaired
      <3>3. ConnectedIsCurrent'
        BY <2>1, <3>1 DEF Rows, ConnectedIsCurrent
      <3>4. SeenInOrder'
        BY <2>1, <3>1 DEF Rows, SeenInOrder
      <3>5. \A m \in Devices : \A i \in DOMAIN obs'[m] : obs'[m][i].seen <= lastSeen'[m]
        BY <2>1, <3>1 DEF Rows
      <3>. QED
        BY <3>2, <3>3, <3>4, <3>5
    <2>7. Sightings'
      BY <2>3, <2>6 DEF Sightings, Nobody
    <2>. QED
      BY <2>5, <2>6, <2>7
  <1>8. CASE CommitBusy \/ RecordFailureBusy \/ JobSurvives
    BY <1>8, QuietStep DEF CommitBusy, RecordFailureBusy, JobSurvives, Done, world,
                           committed, TypeOK
  <1>9. CASE RecordFailure
    <2>1. /\ pc = "failed" /\ pc' = "idle" /\ clients' = Nobody
          /\ state' = [state EXCEPT !.attempted = attempted, !.failures = @ + 1]
          /\ UNCHANGED <<clock, present, lastSeen, token, lockTaken, obs, loggedIn, attempted>>
      BY <1>9 DEF RecordFailure, Failed, Done, world
    <2>2. /\ state'.attempted = attempted /\ state'.succeeded = state.succeeded
          /\ state'.failures = state.failures + 1
          /\ state.attempted < attempted /\ state.succeeded <= state.attempted
          /\ state.failures \in Nat /\ attempted \in Time \cup {NoTime}
          /\ state.attempted \in Int /\ state.succeeded \in Int
      BY <2>1 DEF TypeOK, CycleOrder, Time, NoTime
    <2>3. Nobody \in Snapshot
      <3>1. Nobody \in [{} -> Time \cup {NoTime}]
        BY DEF Nobody
      <3>. QED
        BY <3>1 DEF Snapshot
    <2>4. TypeOK'
      <3>1. state' = [attempted |-> attempted, succeeded |-> state.succeeded,
                      failures |-> state.failures + 1]
        BY <2>1 DEF TypeOK
      <3>2. state.succeeded \in Time \cup {NoTime} /\ state.failures + 1 \in Nat
        BY <2>2 DEF TypeOK
      <3>3. state' \in [attempted : Time \cup {NoTime}, succeeded : Time \cup {NoTime},
                        failures : Nat]
        BY <2>2, <3>1, <3>2
      <3>. QED
        BY <2>1, <2>3, <3>3 DEF TypeOK
    <2>5. CycleOrder' /\ FailuresSinceSuccess'
      BY <2>1, <2>2 DEF CycleOrder, FailuresSinceSuccess, TypeOK, Time, NoTime
    <2>6. Sightings' /\ DisconnectsPaired' /\ ConnectedIsCurrent' /\ SeenInOrder'
      BY <2>1, <2>2 DEF Sightings, Nobody, DisconnectsPaired, ConnectedIsCurrent, SeenInOrder
    <2>. QED
      BY <2>4, <2>5, <2>6
  <1>10. CASE Restart
    BY <1>10, QuietStep DEF Restart, Done, world, committed
  <1>11. CASE UNCHANGED vars
    <2>1. TypeOK' /\ CycleOrder' /\ Sightings'
      BY <1>11 DEF vars, TypeOK, CycleOrder, Sightings
    <2>2. DisconnectsPaired' /\ ConnectedIsCurrent' /\ FailuresSinceSuccess' /\ SeenInOrder'
      BY <1>11 DEF vars, DisconnectsPaired, ConnectedIsCurrent, FailuresSinceSuccess, SeenInOrder
    <2>. QED
      BY <2>1, <2>2
  <1>. QED
    BY <1>1, <1>2, <1>3, <1>4, <1>5, <1>6, <1>7, <1>8, <1>9, <1>10, <1>11 DEF Next, Step

-----------------------------------------------------------------------------
(***************************************************************************)
(* Theorems                                                                *)
(***************************************************************************)

\* The inductive invariant: the two tables, and what a cycle knows of them.
THEOREM Invariance == Spec => []IInv
  BY InitIInv, StepIInv, PTL DEF Spec

\* A device's disconnect is recorded once for each time it was connected, with
\* the last sighting before it, whatever fails or restarts in between.
THEOREM DisconnectsArePaired == Spec => []DisconnectsPaired
  <1>1. IInv => DisconnectsPaired
    BY DEF IInv
  <1>. QED
    BY <1>1, Invariance, PTL

\* The latest rows that say connected are those of the last success.
THEOREM ConnectedMeansLastSuccess == Spec => []ConnectedIsCurrent
  <1>1. IInv => ConnectedIsCurrent
    BY DEF IInv
  <1>. QED
    BY <1>1, Invariance, PTL

\* poller_state counts the failures since the last success.
THEOREM FailuresAreCounted == Spec => []FailuresSinceSuccess
  <1>1. IInv => FailuresSinceSuccess
    BY DEF IInv
  <1>. QED
    BY <1>1, Invariance, PTL

\* The controller's times of a device never run backwards.
THEOREM SightingsInOrder == Spec => []SeenInOrder
  <1>1. IInv => SeenInOrder
    BY DEF IInv
  <1>. QED
    BY <1>1, Invariance, PTL
=============================================================================
