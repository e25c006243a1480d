------------------------------- MODULE Poller -------------------------------
(***************************************************************************)
(* The controller poller.  A cycle signs in when it has to, asks the       *)
(* controller for its clients, compares them with the latest stored row of *)
(* each device and commits one row per connected device, one per vanished  *)
(* device and its own success, all in one transaction.  A failed cycle     *)
(* commits its failure count instead, in a second transaction.  Meanwhile  *)
(* devices come and go, the controller's session expires, other sessions   *)
(* hold the database's write lock and the process restarts.                *)
(***************************************************************************)
EXTENDS Integers, Sequences, FiniteSets

CONSTANTS
  Devices,  \* active tracked devices
  MaxTime   \* bound: latest instant

ASSUME PollerAssumption == MaxTime \in Nat

Time   == 0 .. MaxTime
NoTime == -1

VARIABLES
  clock,
  present,    \* devices associated with the work SSID
  lastSeen,   \* lastSeen[m]: when the controller last saw m, or NoTime
  token,      \* the controller accepts the poller's session
  lockTaken,  \* another session holds the database's write lock
  obs,        \* obs[m]: the committed observations of m, oldest first
  state,      \* the committed poller_state row
  loggedIn,   \* Poller._logged_in
  pc,         \* what run_cycle is doing
  attempted,  \* when its latest cycle began, or NoTime
  clients     \* what list_active_clients returned: device -> last_seen

world     == <<clock, present, lastSeen>>
committed == <<obs, state>>
vars == <<clock, present, lastSeen, token, lockTaken, obs, state, loggedIn,
          pc, attempted, clients>>

Row      == [at : Time, seen : Time \cup {NoTime}, connected : BOOLEAN]
Snapshot == UNION { [S -> Time \cup {NoTime}] : S \in SUBSET Devices }
Nobody   == [m \in {} |-> NoTime]

Init ==
  /\ clock = 0
  /\ present = {}
  /\ lastSeen = [m \in Devices |-> NoTime]
  /\ token = FALSE
  /\ lockTaken = FALSE
  /\ obs = [m \in Devices |-> <<>>]
  /\ state = [attempted |-> NoTime, succeeded |-> NoTime, failures |-> 0]
  /\ loggedIn = FALSE
  /\ pc = "idle"
  /\ attempted = NoTime
  /\ clients = Nobody

-----------------------------------------------------------------------------
(***************************************************************************)
(* The controller and the other sessions, which move at any time.          *)
(***************************************************************************)
\* Time passes; the devices in now are on the SSID, and those that just came or
\* are in heard have been heard of.
Tick(now, heard) ==
  /\ clock < MaxTime
  /\ clock' = clock + 1
  /\ present' = now
  /\ lastSeen' = [m \in Devices |->
                    IF m \in heard \/ m \in now \ present THEN clock + 1 ELSE lastSeen[m]]
  /\ UNCHANGED <<token, lockTaken, committed, loggedIn, pc, attempted, clients>>

Expire ==
  /\ token
  /\ token' = FALSE
  /\ UNCHANGED <<world, lockTaken, committed, loggedIn, pc, attempted, clients>>

OtherWriter ==
  /\ lockTaken' = ~lockTaken
  /\ UNCHANGED <<world, token, committed, loggedIn, pc, attempted, clients>>

-----------------------------------------------------------------------------
(***************************************************************************)
(* The requests of a cycle.  Anything but an auth failure keeps the poller *)
(* signed in, whatever the controller thinks.                              *)
(***************************************************************************)
Begin ==
  /\ pc = "idle" /\ attempted < clock
  /\ attempted' = clock
  /\ pc' = IF loggedIn THEN "fetch" ELSE "login"
  /\ UNCHANGED <<world, token, lockTaken, committed, loggedIn, clients>>

LoginOk ==
  /\ pc \in {"login", "relogin"}
  /\ token' = TRUE
  /\ loggedIn' = TRUE
  /\ pc' = IF pc = "login" THEN "fetch" ELSE "refetch"
  /\ UNCHANGED <<world, lockTaken, committed, attempted, clients>>

\* UniFiAuthError: its handler rolls back and forces a fresh login.
LoginRejected ==
  /\ pc \in {"login", "relogin"}
  /\ loggedIn' = FALSE
  /\ pc' = "failed"
  /\ UNCHANGED <<world, token, lockTaken, committed, attempted, clients>>

\* UniFiError, or an unexpected one: no answer, an error status, a bad payload.
RequestFails ==
  /\ pc \in {"login", "fetch", "relogin", "refetch"}
  /\ pc' = "failed"
  /\ UNCHANGED <<world, token, lockTaken, committed, loggedIn, attempted, clients>>

\* MUTANT of After401: it signs in again however often that is.
After401Always(step) == "relogin"

After401(step) == IF step = "fetch" THEN "relogin" ELSE "failed"

FetchRefused ==
  /\ pc \in {"fetch", "refetch"} /\ ~token
  /\ pc' = After401(pc)
  /\ UNCHANGED <<world, token, lockTaken, committed, loggedIn, attempted, clients>>

\* The devices in silent are reported without a last_seen.
FetchOk(silent) ==
  /\ pc \in {"fetch", "refetch"} /\ token
  /\ silent \subseteq present
  /\ clients' = [m \in present |-> IF m \in silent THEN NoTime ELSE lastSeen[m]]
  /\ pc' = "store"
  /\ UNCHANGED <<world, token, lockTaken, committed, loggedIn, attempted>>

-----------------------------------------------------------------------------
(***************************************************************************)
(* What a cycle writes.  Nothing reaches the database before its commit,   *)
(* which waits for the write lock and fails when it does not get it.       *)
(***************************************************************************)
\* MUTANT of Previous: ordered the other way.
PreviousOldest(m) == obs[m][1]

Previous(m) == obs[m][Len(obs[m])]

\* MUTANT of Vanished: a device already disconnected is disconnected again.
VanishedAgain(m) == obs[m] # <<>> /\ m \notin DOMAIN clients

Vanished(m) == obs[m] # <<>> /\ Previous(m).connected /\ m \notin DOMAIN clients

\* MUTANT of RowsOf: no disconnect without a time the controller saw the device.
RowsOfSeen(m) ==
  CASE m \in DOMAIN clients -> <<[at |-> attempted, seen |-> clients[m], connected |-> TRUE]>>
    [] Vanished(m) /\ Previous(m).seen # NoTime ->
         <<[at |-> attempted, seen |-> Previous(m).seen, connected |-> FALSE]>>
    [] OTHER -> <<>>

RowsOf(m) ==
  CASE m \in DOMAIN clients -> <<[at |-> attempted, seen |-> clients[m], connected |-> TRUE]>>
    [] Vanished(m) -> <<[at |-> attempted, seen |-> Previous(m).seen, connected |-> FALSE]>>
    [] OTHER -> <<>>

\* MUTANT of Succeeded: the failures of earlier cycles are kept.
SucceededKeeping(s) == [s EXCEPT !.attempted = attempted, !.succeeded = attempted]

Succeeded(s) == [attempted |-> attempted, succeeded |-> attempted, failures |-> 0]

Failed(s) == [s EXCEPT !.attempted = attempted, !.failures = @ + 1]

Done(result) == pc' = result /\ clients' = Nobody

Commit ==
  /\ pc = "store" /\ ~lockTaken
  /\ obs' = [m \in Devices |-> obs[m] \o RowsOf(m)]
  /\ state' = Succeeded(state)
  /\ Done("idle")
  /\ UNCHANGED <<world, token, lockTaken, loggedIn, attempted>>

CommitBusy ==
  /\ pc = "store" /\ lockTaken
  /\ Done("failed")
  /\ UNCHANGED <<world, token, lockTaken, committed, loggedIn, attempted>>

RecordFailure ==
  /\ pc = "failed" /\ ~lockTaken
  /\ state' = Failed(state)
  /\ Done("idle")
  /\ UNCHANGED <<world, token, lockTaken, obs, loggedIn, attempted>>

\* The commit in the error handler fails too, and the exception leaves run_cycle.
RecordFailureBusy ==
  /\ pc = "failed" /\ lockTaken
  /\ Done("raised")
  /\ UNCHANGED <<world, token, lockTaken, committed, loggedIn, attempted>>

\* The scheduler logs the exception and keeps the job.
JobSurvives ==
  /\ pc = "raised"
  /\ Done("idle")
  /\ UNCHANGED <<world, token, lockTaken, committed, loggedIn, attempted>>

Restart ==
  /\ Done("idle")
  /\ loggedIn' = FALSE
  /\ UNCHANGED <<world, token, lockTaken, committed, attempted>>

-----------------------------------------------------------------------------
Step ==
  \/ LoginOk \/ LoginRejected \/ RequestFails \/ FetchRefused
  \/ \E silent \in SUBSET Devices : FetchOk(silent)
  \/ Commit \/ CommitBusy \/ RecordFailure \/ RecordFailureBusy \/ JobSurvives

Next ==
  \/ \E now \in SUBSET Devices : \E heard \in SUBSET now : Tick(now, heard)
  \/ Expire \/ OtherWriter
  \/ Begin \/ Restart
  \/ Step

Spec == Init /\ [][Next]_vars /\ WF_vars(Step)

-----------------------------------------------------------------------------
(***************************************************************************)
(* Properties                                                              *)
(***************************************************************************)
TypeOK ==
  /\ clock \in Time
  /\ present \subseteq Devices
  /\ lastSeen \in [Devices -> Time \cup {NoTime}]
  /\ token \in BOOLEAN /\ lockTaken \in BOOLEAN /\ loggedIn \in BOOLEAN
  /\ obs \in [Devices -> Seq(Row)]
  /\ state \in [attempted : Time \cup {NoTime}, succeeded : Time \cup {NoTime},
                failures : Nat]
  /\ pc \in {"idle", "login", "fetch", "relogin", "refetch", "store", "failed", "raised"}
  /\ attempted \in Time \cup {NoTime}
  /\ clients \in Snapshot

\* Across outages, failed cycles and restarts a device's disconnect is recorded
\* once for each time it was connected, with the controller's last sighting of
\* it before, or none (poll_once, ARCHITECTURE 5.1 step 4).
DisconnectsPaired ==
  \A m \in Devices : \A i \in DOMAIN obs[m] :
    ~obs[m][i].connected =>
      i > 1 /\ obs[m][i - 1].connected /\ obs[m][i].seen = obs[m][i - 1].seen

\* A device whose latest row says connected was there in the very cycle that
\* poller_state names as the last that succeeded: no success leaves a vanished
\* device connected and no failure leaves rows of its own (run_cycle).
ConnectedIsCurrent ==
  \A m \in Devices : \A i \in DOMAIN obs[m] :
    /\ obs[m][i].at <= state.succeeded
    /\ i = Len(obs[m]) /\ obs[m][i].connected => obs[m][i].at = state.succeeded

\* poller_state counts failures since the last success: none exactly when the
\* last recorded attempt succeeded, and never more than there were attempts
\* since (_update_poller_state).
FailuresSinceSuccess ==
  /\ state.failures = 0 <=> state.attempted = state.succeeded
  /\ state.failures <= state.attempted - state.succeeded

\* The controller's times of a device never run backwards from row to row, so
\* a disconnect sorts after the sightings it ends (_load_observations).
SeenInOrder ==
  \A m \in Devices : \A i, j \in DOMAIN obs[m] :
    i < j /\ obs[m][i].seen # NoTime /\ obs[m][j].seen # NoTime =>
      obs[m][i].seen <= obs[m][j].seen

\* A recorded attempt is one that began, and a cycle under way is not recorded.
CycleOrder ==
  /\ state.succeeded <= state.attempted
  /\ state.attempted <= attempted
  /\ attempted <= clock
  /\ pc \notin {"idle", "raised"} => state.attempted < attempted

\* The controller has seen a device no earlier than any answer or row says, and
\* an answer in hand is no older than the rows.
Sightings ==
  \A m \in Devices :
    /\ lastSeen[m] <= clock
    /\ m \in DOMAIN clients => clients[m] <= lastSeen[m]
    /\ \A i \in DOMAIN obs[m] :
         /\ obs[m][i].seen <= lastSeen[m]
         /\ m \in DOMAIN clients /\ clients[m] # NoTime => obs[m][i].seen <= clients[m]

\* The inductive invariant: the observations and poller_state, and what a cycle
\* under way knows of them before its commit (run_cycle, poll_once).
IInv ==
  /\ TypeOK /\ CycleOrder /\ Sightings
  /\ DisconnectsPaired /\ ConnectedIsCurrent /\ FailuresSinceSuccess /\ SeenInOrder

\* Every cycle ends, whatever the controller answers and however often its
\* session expires or the write lock is taken.
EveryCycleEnds == (pc # "idle") ~> (pc = "idle")

=============================================================================
