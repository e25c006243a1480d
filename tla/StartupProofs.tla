----------------------------- MODULE StartupProofs -----------------------------
(***************************************************************************)
(* Theorems about Startup, for any .env files, devices and settings.       *)
(***************************************************************************)
EXTENDS Startup, SequenceTheorems, FiniteSetTheorems, TLAPS

USE StartupAssumption

-----------------------------------------------------------------------------
(***************************************************************************)
(* Types.                                                                  *)
(***************************************************************************)

Draft == [config : SUBSET ConfigRow, pollerState : SUBSET {"row"}, devices : SUBSET Device]

\* Two members make two.
LEMMA TwoMembers ==
  \A x, y : x # y => Cardinality({x, y}) = 2
  <1>. SUFFICES ASSUME NEW x, NEW y, x # y PROVE Cardinality({x, y}) = 2
    OBVIOUS
  <1>1. IsFiniteSet({x}) /\ Cardinality({x}) = 1
    BY FS_Singleton, Zenon
  <1>2. y \notin {x} /\ {x, y} = {x} \cup {y}
    OBVIOUS
  <1>3. Cardinality({x} \cup {y}) = Cardinality({x}) + 1
    <2>1. Cardinality({x} \cup {y}) = IF y \in {x} THEN Cardinality({x}) ELSE Cardinality({x}) + 1
      BY <1>1, FS_AddElement, Zenon
    <2>. QED
      BY <2>1, <1>2
  <1>. QED
    BY <1>1, <1>2, <1>3

LEMMA EnvTypes ==
  ASSUME NEW e \in Envs
  PROVE  /\ e.rules \in Rules /\ e.ssid \in Networks
         /\ e.tracked \in Seq(Tracked) /\ Len(e.tracked) \in Nat
         /\ DOMAIN e.tracked = 1 .. Len(e.tracked)
         /\ \A i \in 1 .. Len(e.tracked) :
              e.tracked[i].mac \in Macs /\ e.tracked[i].label \in Labels
         /\ e.bot \in {"none", "webhook", "polling"}
         /\ Seed(e) \in ConfigRow
  <1>1. /\ e.rules \in Rules /\ e.ssid \in Networks /\ e.zone \in Zones
        /\ e.tracked \in Seq(Tracked)
        /\ e.bot \in {"none", "webhook", "polling"}
    BY DEF Env
  <1>2. Len(e.tracked) \in Nat /\ DOMAIN e.tracked = 1 .. Len(e.tracked)
    BY <1>1, LenProperties
  <1>3. \A i \in 1 .. Len(e.tracked) : e.tracked[i] \in Tracked
    BY <1>1, ElementOfSeq
  <1>. QED
    BY <1>1, <1>2, <1>3 DEF Tracked, ConfigRow, Seed

LEMMA EmptyDraft ==
  /\ NoDraft \in Draft /\ NoDraft.config = {} /\ NoDraft.pollerState = {} /\ NoDraft.devices = {}
  BY DEF NoDraft, Draft

\* The start of a process, or its end.
LEMMA Down ==
  ASSUME IInv, pc' = "down" \/ (pc' = "config" /\ pc = "down"),
         env' \in Envs, ended' \in {"running", "stopped", "refused", "crashed"},
         starts' \in 0 .. MaxStarts, next' = 1, draft' = NoDraft,
         poller' \in Networks, bot' \in {"none", "webhook", "polling"},
         UNCHANGED <<config, pollerState, devices, edits, first, doubled, edited>>
  PROVE  IInv'
  <1>0. TypeOK /\ Drafted /\ SeededOnce /\ TrackedSoFar /\ ActiveOnce
    BY DEF IInv
  <1>2. TypeOK'
    <2>1. 1 \in 1 .. Len(env'.tracked) + 1
      BY EnvTypes
    <2>. QED
      BY <1>0, <2>1, EmptyDraft DEF TypeOK, Draft, Seeding
  <1>3. Drafted' /\ SeededOnce' /\ TrackedSoFar' /\ ActiveOnce'
    BY <1>0, EmptyDraft, FS_EmptySet DEF Drafted, SeededOnce, TrackedSoFar, ActiveOnce
  <1>. QED
    BY <1>2, <1>3 DEF IInv

LEMMA IInvInit == Init => IInv
  <1>. SUFFICES ASSUME Init PROVE IInv
    OBVIOUS
  <1>1. TypeOK
    <2>1. edited \in BOOLEAN
      BY Zenon DEF Init
    <2>. QED
      BY <2>1, EnvTypes, EmptyDraft DEF Init, TypeOK, Draft, Seeding
  <1>2. Drafted /\ SeededOnce /\ TrackedSoFar /\ ActiveOnce
    BY EmptyDraft, FS_EmptySet DEF Init, Drafted, SeededOnce, TrackedSoFar, ActiveOnce
  <1>. QED
    BY <1>1, <1>2 DEF IInv

LEMMA IInvNext == IInv /\ [Next]_vars => IInv'
  <1>. SUFFICES ASSUME IInv, [Next]_vars PROVE IInv'
    OBVIOUS
  <1>0. TypeOK /\ Drafted /\ SeededOnce /\ TrackedSoFar /\ ActiveOnce
    BY DEF IInv
  <1>1. ASSUME NEW e \in Envs, Launch(e) PROVE IInv'
    <2>1. next = 1 /\ draft = NoDraft /\ starts' \in 0 .. MaxStarts
      BY <1>0, <1>1 DEF Launch, TypeOK, Drafted, TrackedSoFar
    <2>. QED
      BY <1>0, <1>1, <2>1, Down DEF Launch, TypeOK, tables, history
  <1>2. ASSUME NEW why \in {"stopped", "refused", "crashed"}, End(why) PROVE IInv'
    <2>1. /\ pc' = "down" /\ next' = 1 /\ draft' = NoDraft /\ ended' = why
          /\ poller' = NoNetwork /\ bot' = "none"
          /\ UNCHANGED <<env, starts>>
          /\ UNCHANGED <<config, pollerState, devices, edits, first, doubled, edited>>
      BY <1>2 DEF End, tables, history
    <2>2. env \in Envs /\ starts \in 0 .. MaxStarts
      BY <1>0 DEF TypeOK
    <2>3. /\ env' \in Envs /\ ended' \in {"running", "stopped", "refused", "crashed"}
          /\ starts' \in 0 .. MaxStarts /\ poller' \in Networks
          /\ bot' \in {"none", "webhook", "polling"}
      BY <2>1, <2>2
    <2>. QED
      BY <2>1, <2>3, Down
  <1>3. ASSUME \/ Stop \/ Crash \/ Malformed \/ SeveralActive
               \/ ZoneUnknown \/ ReminderRefused
        PROVE  IInv'
    BY <1>2, <1>3 DEF Stop, Crash, Malformed, SeveralActive, ZoneUnknown, ReminderRefused
  <1>4. ASSUME SeedConfig PROVE IInv'
    <2>1. /\ pc = "config" /\ pc' = "poller_state" /\ draft = NoDraft /\ next = 1
          /\ draft' = [NoDraft EXCEPT !.config = ConfigOf(env)]
          /\ UNCHANGED <<env, next, config, pollerState, devices, poller, bot, ended, starts,
                         edits, first, doubled, edited>>
      BY <1>0, <1>4 DEF SeedConfig, Drafted, TrackedSoFar, tables, history
    <2>2. draft' = [config |-> ConfigOf(env), pollerState |-> {}, devices |-> {}]
      BY <2>1 DEF NoDraft
    <2>3. ConfigOf(env) \subseteq ConfigRow
      BY <1>0, EnvTypes DEF ConfigOf, TypeOK
    <2>4. TypeOK'
      BY <1>0, <2>1, <2>2, <2>3 DEF TypeOK, Seeding
    <2>5. Drafted' /\ SeededOnce' /\ TrackedSoFar' /\ ActiveOnce'
      BY <1>0, <2>1, <2>2, FS_EmptySet
         DEF Drafted, ConfigOf, SeededOnce, TrackedSoFar, ActiveOnce
    <2>. QED
      BY <2>4, <2>5 DEF IInv
  <1>5. ASSUME EnsurePollerState PROVE IInv'
    <2>1. /\ pc = "poller_state" /\ pc' = "devices" /\ next = 1
          /\ draft' = [draft EXCEPT !.pollerState = {"row"}]
          /\ UNCHANGED <<env, next, config, pollerState, devices, poller, bot, ended, starts,
                         edits, first, doubled, edited>>
      BY <1>0, <1>5 DEF EnsurePollerState, TrackedSoFar, tables, history
    <2>2. /\ draft' \in Draft /\ draft'.config = draft.config /\ draft'.pollerState = {"row"}
          /\ draft'.devices = draft.devices
      BY <1>0, <2>1 DEF TypeOK, Draft
    <2>3. TypeOK'
      BY <1>0, <2>1, <2>2 DEF TypeOK, Draft, Seeding
    <2>4. Drafted' /\ SeededOnce' /\ TrackedSoFar' /\ ActiveOnce'
      BY <1>0, <2>1, <2>2 DEF Drafted, ConfigOf, SeededOnce, TrackedSoFar, ActiveOnce
    <2>. QED
      BY <2>3, <2>4 DEF IInv
  <1>6. ASSUME SeedDevice PROVE IInv'
    <2>. DEFINE entry == env.tracked[next]
                row == [id |-> Cardinality(devices \cup draft.devices) + 1,
                        mac |-> entry.mac, label |-> entry.label, active |-> TRUE]
    <2>1. /\ pc = "devices" /\ pc' = "devices" /\ next <= Len(env.tracked) /\ next' = next + 1
          /\ draft' = IF ActiveRows(entry) = {}
                        THEN [draft EXCEPT !.devices = @ \cup {row}] ELSE draft
          /\ UNCHANGED <<env, config, pollerState, devices, poller, bot, ended, starts,
                         edits, first, doubled, edited>>
      BY <1>6 DEF SeedDevice, tables, history
    <2>2. /\ Len(env.tracked) \in Nat /\ next \in 1 .. Len(env.tracked)
          /\ next' \in 1 .. Len(env.tracked) + 1 /\ next' - 1 = next /\ next \in Nat
          /\ entry.mac \in Macs /\ entry.label \in Labels
      <3>1. Len(env.tracked) \in Nat /\ next \in 1 .. Len(env.tracked) + 1 /\ env \in Envs
        BY <1>0, EnvTypes DEF TypeOK
      <3>2. next \in 1 .. Len(env.tracked) /\ next + 1 \in 1 .. Len(env.tracked) + 1
        BY <2>1, <3>1
      <3>3. \A i \in 1 .. Len(env.tracked) :
               env.tracked[i].mac \in Macs /\ env.tracked[i].label \in Labels
        BY <3>1, EnvTypes
      <3>4. next \in Nat /\ next' - 1 = next
        BY <2>1, <3>1
      <3>. QED
        BY <2>1, <3>1, <3>2, <3>3, <3>4
    <2>3. row \in Device
      <3>1. IsFiniteSet(devices \cup draft.devices)
        BY <1>0, FS_Union DEF Drafted
      <3>2. Cardinality(devices \cup draft.devices) + 1 \in Nat
        BY <3>1, FS_CardinalityType
      <3>. HIDE DEF entry
      <3>. QED
        BY <2>2, <3>2 DEF Device
    <2>4. row.active /\ row.mac = entry.mac
      OBVIOUS
    <2>. HIDE DEF row, entry
    <2>5. /\ draft' \in Draft /\ draft'.config = draft.config
          /\ draft'.pollerState = draft.pollerState
          /\ draft'.devices =
               IF ActiveRows(entry) = {} THEN draft.devices \cup {row} ELSE draft.devices
      BY <1>0, <2>1, <2>3 DEF TypeOK, Draft
    <2>6. TypeOK'
      BY <1>0, <2>1, <2>2, <2>5 DEF TypeOK, Draft
    <2>7. Drafted'
      <3>1. IsFiniteSet(draft'.devices)
        <4>1. IsFiniteSet(draft.devices)
          BY <1>0 DEF Drafted
        <4>2. IsFiniteSet(draft.devices \cup {row})
          BY <4>1, FS_AddElement, Zenon
        <4>. QED
          BY <2>5, <4>1, <4>2
      <3>2. \A d \in draft'.devices :
               d.active /\ \A e \in devices : e.mac = d.mac => ~e.active
        BY <1>0, <2>4, <2>5 DEF Drafted, ActiveRows
      <3>. QED
        BY <1>0, <2>1, <2>5, <3>1, <3>2 DEF Drafted, ConfigOf
    <2>8. TrackedSoFar'
      <3>1. \E d \in devices \cup draft'.devices : d.mac = entry.mac /\ d.active
        <4>1. CASE ActiveRows(entry) = {}
          BY <2>4, <2>5, <4>1
        <4>2. CASE ActiveRows(entry) # {}
          BY <4>2 DEF ActiveRows
        <4>. QED
          BY <4>1, <4>2
      <3>2. ASSUME NEW i \in 1 .. next
            PROVE  \E d \in devices \cup draft'.devices :
                     d.mac = env.tracked[i].mac /\ d.active
        <4>1. CASE i = next
          BY <3>1, <4>1 DEF entry
        <4>2. CASE i # next
          <5>1. i \in 1 .. next - 1
            BY <2>2, <4>2
          <5>2. PICK d \in devices \cup draft.devices : d.mac = env.tracked[i].mac /\ d.active
            BY <1>0, <2>1, <5>1 DEF TrackedSoFar
          <5>. QED
            BY <2>5, <5>2
        <4>. QED
          BY <4>1, <4>2
      <3>. QED
        BY <2>1, <2>2, <3>2 DEF TrackedSoFar
    <2>9. SeededOnce' /\ ActiveOnce'
      BY <1>0, <2>1 DEF SeededOnce, ActiveOnce
    <2>. QED
      BY <2>6, <2>7, <2>8, <2>9 DEF IInv
  <1>7. ASSUME CommitSeeds PROVE IInv'
    <2>1. /\ pc = "devices" /\ pc' = "jobs" /\ next > Len(env.tracked) /\ next' = 1
          /\ config' = config \cup draft.config
          /\ pollerState' = pollerState \cup draft.pollerState
          /\ devices' = devices \cup draft.devices
          /\ draft' = NoDraft
          /\ first' = IF draft.config = {} THEN first ELSE first \cup {env}
          /\ doubled' = doubled \cup Twice(draft.devices)
          /\ UNCHANGED <<env, poller, bot, ended, starts, edits, edited>>
      BY <1>7 DEF CommitSeeds
    <2>2. /\ draft \in Draft /\ draft.config = ConfigOf(env) /\ draft.pollerState = {"row"}
          /\ IsFiniteSet(draft.devices) /\ IsFiniteSet(devices)
          /\ \A d \in draft.devices : d.active /\ \A e \in devices : e.mac = d.mac => ~e.active
      BY <1>0, <2>1 DEF TypeOK, Draft, Drafted
    <2>3. TypeOK'
      <3>1. 1 \in 1 .. Len(env.tracked) + 1 /\ env \in Envs
        BY <1>0, EnvTypes DEF TypeOK
      <3>2. first' \subseteq Envs /\ doubled' \subseteq Macs
        BY <1>0, <2>1 DEF TypeOK, Twice
      <3>3. config' \subseteq ConfigRow /\ pollerState' \subseteq {"row"} /\ devices' \subseteq Device
        BY <1>0, <2>1, <2>2 DEF TypeOK, Draft
      <3>. QED
        BY <1>0, <2>1, <3>1, <3>2, <3>3, EmptyDraft DEF TypeOK, Draft
    <2>4. Drafted'
      BY <2>1, <2>2, EmptyDraft, FS_EmptySet, FS_Union DEF Drafted
    <2>5. SeededOnce'
      <3>1. pollerState' # {}
        BY <2>1, <2>2
      <3>2. CASE config = {}
        <4>1. config' = {Seed(env)} /\ first' = {env}
          BY <1>0, <2>1, <2>2, <3>2 DEF ConfigOf, SeededOnce
        <4>. QED
          BY <2>1, <3>1, <4>1 DEF SeededOnce
      <3>3. CASE config # {}
        <4>1. config' = config /\ first' = first
          BY <1>0, <2>1, <2>2, <3>3 DEF ConfigOf, SeededOnce
        <4>. QED
          BY <1>0, <2>1, <3>1, <3>3, <4>1 DEF SeededOnce
      <3>. QED
        BY <3>2, <3>3
    <2>6. TrackedSoFar'
      <3>1. \A i \in 1 .. Len(env.tracked) : i \in 1 .. next - 1
        BY <1>0, <2>1, EnvTypes DEF TypeOK
      <3>. QED
        BY <1>0, <2>1, <3>1, EnvTypes DEF TrackedSoFar, TypeOK
    <2>7. ActiveOnce'
      <3>. SUFFICES ASSUME NEW d \in devices', NEW e \in devices', d.active, e.active,
                           d.mac = e.mac, d.mac \notin doubled', d # e
                    PROVE  FALSE
        BY DEF ActiveOnce
      <3>1. CASE d \in devices /\ e \in devices
        BY <1>0, <2>1, <3>1 DEF ActiveOnce
      <3>2. d \in draft.devices /\ e \in draft.devices
        BY <2>1, <2>2, <3>1
      <3>3. d.mac \in Macs
        BY <2>2, <3>2 DEF Draft, Device
      <3>. DEFINE rows == { x \in draft.devices : x.mac = d.mac }
      <3>4. IsFiniteSet(rows) /\ {d, e} \subseteq rows
        BY <2>2, <3>2, FS_Subset
      <3>5. Cardinality({d, e}) = 2
        BY TwoMembers
      <3>6. Cardinality(rows) \in Nat /\ 2 <= Cardinality(rows)
        BY <3>4, <3>5, FS_Subset, FS_CardinalityType
      <3>7. Cardinality(rows) > 1
        <4>. HIDE DEF rows
        <4>. QED
          BY <3>6
      <3>8. d.mac \in Twice(draft.devices)
        BY <3>3, <3>7, Zenon DEF Twice
      <3>. QED
        BY <2>1, <3>8
    <2>. QED
      BY <2>3, <2>4, <2>5, <2>6, <2>7 DEF IInv
  <1>8. ASSUME RegisterJobs \/ StartPoller \/ AdapterFails \/ StartBot PROVE IInv'
    <2>1. /\ pc \in {"jobs", "adapter", "bot"} /\ pc' \in {"adapter", "bot", "serving"}
          /\ pc' = "adapter" => pc = "jobs"
          /\ UNCHANGED <<env, next, config, pollerState, devices, draft, ended, starts, edits,
                         first, doubled, edited>>
      BY <1>8 DEF RegisterJobs, StartPoller, AdapterFails, StartBot, tables, history
    <2>2. poller' \in Networks
      <3>1. Polled \subseteq Networks /\ poller \in Networks
        BY <1>0 DEF Polled, TypeOK, ConfigRow
      <3>. QED
        BY <1>8, <3>1 DEF RegisterJobs, StartPoller, AdapterFails, StartBot
    <2>3. bot' \in {"none", "webhook", "polling"}
      BY <1>0, <1>8, EnvTypes DEF RegisterJobs, StartPoller, AdapterFails, StartBot, TypeOK
    <2>4. TypeOK'
      BY <1>0, <2>1, <2>2, <2>3 DEF TypeOK
    <2>5. Drafted' /\ SeededOnce' /\ TrackedSoFar' /\ ActiveOnce'
      BY <1>0, <2>1 DEF Drafted, ConfigOf, SeededOnce, TrackedSoFar, ActiveOnce
    <2>. QED
      BY <2>4, <2>5 DEF IInv
  <1>9. ASSUME NEW d \in devices, Retire(d) \/ \E l \in Labels : Relabel(d, l) PROVE IInv'
    <2>. SUFFICES ASSUME NEW row \in Device, row.mac = d.mac, row.active => d.active,
                         devices' = (devices \ {d}) \cup {row},
                         UNCHANGED <<config, edited>>, Edited
                  PROVE  IInv'
      <3>1. d \in Device
        BY <1>0 DEF TypeOK
      <3>2. CASE Retire(d)
        <4>1. [d EXCEPT !.active = FALSE] \in Device
          BY <3>1 DEF Device
        <4>. QED
          BY <3>1, <3>2, <4>1 DEF Retire, Device
      <3>3. CASE \E l \in Labels : Relabel(d, l)
        <4>1. PICK l \in Labels : Relabel(d, l)
          BY <3>3
        <4>2. [d EXCEPT !.label = l] \in Device
          BY <3>1 DEF Device
        <4>. QED
          BY <3>1, <4>1, <4>2 DEF Relabel, Device
      <3>. QED
        BY <1>9, <3>2, <3>3
    <2>1. /\ pc \in {"down", "serving"}
          /\ edits' \in 0 .. MaxEdits
          /\ UNCHANGED <<env, pc, next, pollerState, draft, poller, bot, ended, starts, first,
                         doubled>>
      BY <1>0 DEF Edited, TypeOK, history
    <2>2. TypeOK'
      BY <1>0, <2>1 DEF TypeOK
    <2>3. Drafted'
      <3>1. draft = NoDraft
        BY <1>0, <2>1 DEF Drafted
      <3>2. IsFiniteSet(devices')
        BY <1>0, FS_AddElement, FS_Subset DEF Drafted
      <3>. QED
        BY <2>1, <3>1, <3>2, EmptyDraft, FS_EmptySet DEF Drafted
    <2>4. SeededOnce' /\ TrackedSoFar'
      BY <1>0, <2>1 DEF SeededOnce, TrackedSoFar
    <2>5. ActiveOnce'
      BY <1>0, <2>1 DEF ActiveOnce
    <2>. QED
      BY <2>2, <2>3, <2>4, <2>5 DEF IInv
  <1>10. ASSUME NEW r \in Rules, NEW z \in Zones, Reconfigure(r, z) PROVE IInv'
    <2>1. /\ pc \in {"down", "serving"}
          /\ edits' \in 0 .. MaxEdits /\ edited' = TRUE /\ config # {}
          /\ config' = {[rules |-> r, ssid |-> c.ssid, zone |-> z] : c \in config}
          /\ UNCHANGED <<env, pc, next, pollerState, devices, draft, poller, bot, ended, starts,
                         first, doubled>>
      <3>1. edits' \in 0 .. MaxEdits
        BY <1>0, <1>10 DEF Reconfigure, Edited, TypeOK
      <3>. QED
        BY <1>10, <3>1, Zenon DEF Reconfigure, Edited
    <2>2. TypeOK'
      <3>1. config' \subseteq ConfigRow
        BY <1>0, <2>1 DEF TypeOK, ConfigRow
      <3>. QED
        BY <1>0, <2>1, <3>1 DEF TypeOK
    <2>3. Drafted' /\ TrackedSoFar' /\ ActiveOnce'
      BY <1>0, <2>1 DEF Drafted, TrackedSoFar, ActiveOnce
    <2>4. SeededOnce'
      <3>1. \A c, e \in config' : c = e
        <4>1. \A c, e \in config : c = e
          BY <1>0 DEF SeededOnce
        <4>. QED
          BY <2>1, <4>1
      <3>2. config' # {}
        BY <2>1
      <3>3. /\ \A e, f \in first' : e = f
            /\ first' # {}
        BY <1>0, <2>1 DEF SeededOnce
      <3>4. pc' \in {"jobs", "adapter", "bot", "serving"} => pollerState' # {}
        BY <1>0, <2>1 DEF SeededOnce
      <3>. QED
        BY <2>1, <3>1, <3>2, <3>3, <3>4 DEF SeededOnce
    <2>. QED
      BY <2>2, <2>3, <2>4 DEF IInv
  <1>11. CASE UNCHANGED vars
    BY <1>0, <1>11 DEF vars, tables, IInv, TypeOK, Drafted, ConfigOf, SeededOnce, TrackedSoFar,
                       ActiveOnce
  <1>. QED
    BY <1>1, <1>3, <1>4, <1>5, <1>6, <1>7, <1>8, <1>9, <1>10, <1>11 DEF Next, Go

-----------------------------------------------------------------------------
(***************************************************************************)
(* The theorems.                                                           *)
(***************************************************************************)

\* The inductive invariant: what the seeding transaction holds at each of its
\* steps, and what starts that died at any of them left (lifespan).
THEOREM Invariance == Spec => []IInv
  BY IInvInit, IInvNext, PTL DEF Spec

\* A set whose members are all equal has at most one.
LEMMA AtMostOneMember ==
  ASSUME NEW S, \A x, y \in S : x = y
  PROVE  Cardinality(S) <= 1
  <1>1. CASE S = {}
    <2>1. Cardinality(S) = 0
      BY <1>1, FS_EmptySet
    <2>. QED
      BY <2>1
  <1>2. CASE S # {}
    <2>1. PICK x \in S : S = {x}
      BY <1>2
    <2>2. Cardinality(S) = 1
      BY <2>1, FS_Singleton
    <2>. QED
      BY <2>2
  <1>. QED
    BY <1>1, <1>2

\* The rules of counting, and the zone, are those of the first start that
\* committed, until a person edits them, whatever .env says later (seed_config_if_missing).
THEOREM RulesAreSeededOnce == Spec => []RulesSeededOnce
  <1>1. ASSUME IInv PROVE RulesSeededOnce
    BY <1>1, AtMostOneMember DEF IInv, SeededOnce, RulesSeededOnce
  <1>. QED
    BY <1>1, Invariance, PTL

\* No device is tracked by two rows unless one .env named it twice
\* (seed_devices_if_missing).
THEOREM RowsAreUnique == Spec => []OneActiveRow
  <1>1. ASSUME IInv, NEW m \in Macs \ doubled PROVE Cardinality(TrackedBy(m)) <= 1
    <2>1. \A x, y \in TrackedBy(m) : x = y
      BY <1>1 DEF IInv, ActiveOnce, TrackedBy
    <2>. QED
      BY <2>1, AtMostOneMember
  <1>2. IInv => OneActiveRow
    BY <1>1 DEF OneActiveRow
  <1>. QED
    BY <1>2, Invariance, PTL

\* After the seeding every device of .env is tracked (seed_devices_if_missing).
THEOREM AllAreTracked == Spec => []StartTracksAll
  <1>1. IInv => StartTracksAll
    BY DEF IInv, TrackedSoFar, StartTracksAll, TrackedBy
  <1>. QED
    BY <1>1, Invariance, PTL

=============================================================================
