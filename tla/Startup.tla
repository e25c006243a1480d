------------------------------- MODULE Startup -------------------------------
(***************************************************************************)
(* The life of the process: the container starts it again and again, with  *)
(* whatever .env says by then, on one database.  A start fills what the    *)
(* database lacks in one transaction, then starts the jobs the settings    *)
(* ask for, and serves until it is stopped or dies, which it may do at any *)
(* step.  What an exception at the start does depends on where it is       *)
(* raised: before the commit nothing is left of it; after it the rows stay *)
(* and decide the next start, whatever .env says by then.                  *)
(***************************************************************************)
EXTENDS Integers, Sequences, FiniteSets

CONSTANTS
  Rules,      \* what config holds of the rules of counting; one value per set of them
  Networks,   \* SSIDs, NoNetwork among them
  NoNetwork,  \* WORK_SSID is empty
  Zones,      \* what LOCAL_TIMEZONE may say
  KnownZones, \* those ZoneInfo knows
  Macs, Labels,
  Envs,       \* the .env files the settings can be read from: one pydantic
              \* refuses ends the process before the database is opened
  MaxStarts,  \* bound: starts
  MaxEdits    \* bound: changes a person makes to the database

Tracked == [mac : Macs, label : Labels]
\* wellFormed: every entry of WORK_DEVICE_MACS has an "="; hour: the reminder's
\* hour is one of the day.
Env     == [rules : Rules, ssid : Networks, zone : Zones, tracked : Seq(Tracked),
            wellFormed : BOOLEAN, host : BOOLEAN, bot : {"none", "webhook", "polling"},
            hour : BOOLEAN]
Device  == [id : Nat, mac : Macs, label : Labels, active : BOOLEAN]

ASSUME StartupAssumption ==
  /\ NoNetwork \in Networks
  /\ KnownZones \subseteq Zones
  /\ Envs \subseteq Env
  /\ MaxStarts \in Nat /\ MaxEdits \in Nat

VARIABLES
  env,      \* the .env of this start or, while the process is down, of the last
  pc,
  next,     \* the entry of WORK_DEVICE_MACS seeded next
  config, pollerState, devices,  \* the tables: sets of rows
  draft,    \* what the seeding has added and not committed
  poller,   \* the poll job is registered, for this network
  bot,      \* how updates are received
  ended,    \* why the last process is gone, or that one runs
  starts, edits,
  first,    \* history: the settings of the start that seeded the database
  doubled,  \* history: the devices a start seeded twice, being named twice
  edited    \* history: a person has edited config

tables == <<config, pollerState, devices>>
vars   == <<env, pc, next, config, pollerState, devices, draft, poller, bot, ended, starts,
            edits, first, doubled, edited>>

ConfigRow == [rules : Rules, ssid : Networks, zone : Zones]
NoDraft   == [config |-> {}, pollerState |-> {}, devices |-> {}]
Seeding   == {"config", "poller_state", "devices"}

TypeOK ==
  /\ env \in Envs
  /\ pc \in {"down", "jobs", "adapter", "bot", "serving"} \cup Seeding
  /\ next \in 1 .. Len(env.tracked) + 1
  /\ config \subseteq ConfigRow /\ pollerState \subseteq {"row"} /\ devices \subseteq Device
  /\ draft \in [config : SUBSET ConfigRow, pollerState : SUBSET {"row"}, devices : SUBSET Device]
  /\ poller \in Networks /\ bot \in {"none", "webhook", "polling"}
  /\ ended \in {"running", "stopped", "refused", "crashed"}
  /\ starts \in 0 .. MaxStarts /\ edits \in 0 .. MaxEdits
  /\ first \subseteq Envs /\ doubled \subseteq Macs /\ edited \in BOOLEAN

Init ==
  /\ env \in Envs
  /\ pc = "down" /\ next = 1
  /\ config = {} /\ pollerState = {} /\ devices = {} /\ draft = NoDraft
  /\ poller = NoNetwork /\ bot = "none"
  /\ ended = "stopped" /\ starts = 0 /\ edits = 0
  /\ first = {} /\ doubled = {} /\ edited = FALSE

-----------------------------------------------------------------------------
(***************************************************************************)
(* Starts and ends                                                         *)
(***************************************************************************)

history == <<first, doubled, edited>>

\* The tables are migrated and the triggers installed, if they are not; then
\* the seeding begins.
Launch(e) ==
  /\ pc = "down"
  /\ starts < MaxStarts
  /\ env' = e /\ pc' = "config" /\ ended' = "running" /\ starts' = starts + 1
  /\ UNCHANGED <<next, tables, draft, poller, bot, edits, history>>

\* Whatever was not committed is gone.
End(why) ==
  /\ ended' = why
  /\ pc' = "down" /\ next' = 1 /\ draft' = NoDraft
  /\ poller' = NoNetwork /\ bot' = "none"
  /\ UNCHANGED <<env, tables, starts, edits, history>>

Stop  == pc = "serving" /\ End("stopped")
Crash == pc # "down" /\ End("crashed")

-----------------------------------------------------------------------------
(***************************************************************************)
(* The seeding transaction                                                 *)
(***************************************************************************)

Seed(e) == [rules |-> e.rules, ssid |-> e.ssid, zone |-> e.zone]

\* MUTANT of ConfigOf: the settings win over the database.
ConfigFromEnv(e) == {Seed(e)}

\* The row to add: none if there is one, whatever .env says.
ConfigOf(e) == IF config = {} THEN {Seed(e)} ELSE {}

SeedConfig ==
  /\ pc = "config"
  /\ draft' = [draft EXCEPT !.config = ConfigOf(env)]
  /\ pc' = "poller_state"
  /\ UNCHANGED <<env, next, tables, poller, bot, ended, starts, edits, history>>

\* (One that is there already is the one the set has.)
EnsurePollerState ==
  /\ pc = "poller_state"
  /\ draft' = [draft EXCEPT !.pollerState = {"row"}]
  /\ pc' = "devices"
  /\ UNCHANGED <<env, next, tables, poller, bot, ended, starts, edits, history>>

\* MUTANT of ActiveRows: an end-dated row counts as well.
AnyRows(entry) == { d \in devices : d.mac = entry.mac }

\* MUTANT of ActiveRows: a device under another label is another device.
SameLabelRows(entry) ==
  { d \in devices : d.mac = entry.mac /\ d.active /\ d.label = entry.label }

\* The session does not autoflush: the SELECT does not see what this start added.
ActiveRows(entry) == { d \in devices : d.mac = entry.mac /\ d.active }

\* WORK_DEVICE_MACS cannot be parsed: a ValueError before the first device.
Malformed == pc = "devices" /\ ~env.wellFormed /\ End("refused")

\* Several active rows are a MultipleResultsFound.
SeveralActive ==
  /\ pc = "devices" /\ env.wellFormed
  /\ next <= Len(env.tracked)
  /\ Cardinality(ActiveRows(env.tracked[next])) > 1
  /\ End("refused")

SeedDevice ==
  /\ pc = "devices" /\ env.wellFormed
  /\ next <= Len(env.tracked)
  /\ LET entry == env.tracked[next]
         row   == [id |-> Cardinality(devices \cup draft.devices) + 1,
                   mac |-> entry.mac, label |-> entry.label, active |-> TRUE]
     IN  /\ Cardinality(ActiveRows(entry)) <= 1
         /\ draft' = IF ActiveRows(entry) = {}
                       THEN [draft EXCEPT !.devices = @ \cup {row}]
                       ELSE draft
  /\ next' = next + 1
  /\ pc' = "devices"
  /\ UNCHANGED <<env, tables, poller, bot, ended, starts, edits, history>>

Twice(rowsAdded) == { m \in Macs : Cardinality({ d \in rowsAdded : d.mac = m }) > 1 }

CommitSeeds ==
  /\ pc = "devices" /\ env.wellFormed
  /\ next > Len(env.tracked)
  /\ config' = config \cup draft.config
  /\ pollerState' = pollerState \cup draft.pollerState
  /\ devices' = devices \cup draft.devices
  /\ draft' = NoDraft /\ next' = 1
  /\ pc' = "jobs"
  /\ first' = IF draft.config = {} THEN first ELSE first \cup {env}
  /\ doubled' = doubled \cup Twice(draft.devices)
  /\ UNCHANGED <<env, poller, bot, ended, starts, edits, edited>>

-----------------------------------------------------------------------------
(***************************************************************************)
(* Scheduled jobs, poller, bot, serving                                    *)
(***************************************************************************)

\* The nightly jobs run at local times, by the zone of the database.
ZoneKnown == \A c \in config : c.zone \in KnownZones

RegisterJobs ==
  /\ pc = "jobs" /\ ZoneKnown
  /\ pc' = "adapter"
  /\ UNCHANGED <<env, next, tables, draft, poller, bot, ended, starts, edits, history>>

\* ZoneInfo raises, after the row with the zone was committed: the next start
\* reads it again, and no .env mends it.
ZoneUnknown == pc = "jobs" /\ ~ZoneKnown /\ End("refused")

\* The network is the one of the database; the controller's address is .env's.
Polled == { c.ssid : c \in config } \ {NoNetwork}

StartPoller ==
  /\ pc = "adapter"
  /\ IF env.host /\ Polled # {} THEN poller' \in Polled ELSE poller' = NoNetwork
  /\ pc' = "bot"
  /\ UNCHANGED <<env, next, tables, draft, bot, ended, starts, edits, history>>

\* MUTANT of AdapterFails: the exception leaves the start.
AdapterFailsHard ==
  /\ pc = "adapter" /\ env.host /\ Polled # {}
  /\ End("refused")

\* The controller cannot be reached, or is of a kind that is not supported.
AdapterFails ==
  /\ pc = "adapter" /\ env.host /\ Polled # {}
  /\ pc' = "bot"
  /\ UNCHANGED <<env, next, tables, draft, poller, bot, ended, starts, edits, history>>

\* The reminder is registered first, outside any try: CronTrigger refuses an hour
\* that is none.
ReminderRefused == pc = "bot" /\ env.bot # "none" /\ ~env.hour /\ End("refused")

\* A webhook that cannot be registered, or lacks its settings, leaves the bot deaf.
StartBot ==
  /\ pc = "bot"
  /\ env.bot # "none" => env.hour
  /\ bot' \in IF env.bot = "webhook" THEN {"webhook", "none"} ELSE {env.bot}
  /\ pc' = "serving"
  /\ UNCHANGED <<env, next, tables, draft, poller, ended, starts, edits, history>>

-----------------------------------------------------------------------------
(***************************************************************************)
(* What a person does to the database, by hand                             *)
(***************************************************************************)

Edited ==
  /\ pc \in {"down", "serving"}
  /\ edits < MaxEdits /\ edits' = edits + 1
  /\ UNCHANGED <<env, pc, next, pollerState, draft, poller, bot, ended, starts, first, doubled>>

\* A MAC that rotated: its row is end-dated.
Retire(d) ==
  /\ Edited /\ d.active
  /\ devices' = (devices \ {d}) \cup {[d EXCEPT !.active = FALSE]}
  /\ UNCHANGED <<config, edited>>

Relabel(d, l) ==
  /\ Edited /\ d.label # l
  /\ devices' = (devices \ {d}) \cup {[d EXCEPT !.label = l]}
  /\ UNCHANGED <<config, edited>>

Reconfigure(r, z) ==
  /\ Edited /\ config # {}
  /\ config' = {[rules |-> r, ssid |-> c.ssid, zone |-> z] : c \in config}
  /\ edited' = TRUE
  /\ UNCHANGED devices

-----------------------------------------------------------------------------
Go ==
  \/ SeedConfig \/ EnsurePollerState \/ SeedDevice \/ Malformed \/ SeveralActive
  \/ CommitSeeds \/ RegisterJobs \/ ZoneUnknown
  \/ StartPoller \/ AdapterFails \/ StartBot \/ ReminderRefused

Next ==
  \/ \E e \in Envs : Launch(e)
  \/ Go
  \/ Stop \/ Crash
  \/ \E d \in devices : Retire(d) \/ \E l \in Labels : Relabel(d, l)
  \/ \E r \in Rules, z \in Zones : Reconfigure(r, z)

\* A start goes on by itself; nothing restarts, stops or edits of necessity.
Spec == Init /\ [][Next]_vars /\ WF_vars(Go)

-----------------------------------------------------------------------------
(***************************************************************************)
(* Properties                                                              *)
(***************************************************************************)

\* Whatever .env says at later starts, and wherever starts died, the hours are
\* counted by the rules, and dated in the zone, of the first start that committed,
\* until a person edits them; and the rows a serving process relies on are there, once each
\* (seed_config_if_missing, ensure_poller_state, the single commit of lifespan).
RulesSeededOnce ==
  /\ Cardinality(config) <= 1 /\ Cardinality(first) <= 1
  /\ ~edited => config = {Seed(e) : e \in first}
  /\ pc \in {"jobs", "adapter", "bot", "serving"} => config # {} /\ pollerState # {}

TrackedBy(m) == { d \in devices : d.mac = m /\ d.active }

\* No device is tracked by two rows, through any number of starts and edits,
\* unless one .env named it twice: the session does not see what it has added
\* (seed_devices_if_missing, autoflush=False).
OneActiveRow ==
  \A m \in Macs \ doubled : Cardinality(TrackedBy(m)) <= 1

\* After the seeding every device of .env is tracked, the ones a person has
\* end-dated included: a retired device stays retired only if it also leaves .env
\* (seed_devices_if_missing looks at active rows only).
StartTracksAll ==
  pc \in {"jobs", "adapter"} =>
    \A i \in DOMAIN env.tracked : TrackedBy(env.tracked[i].mac) # {}

\* A start comes to serve unless it is killed, although the controller or Telegram
\* may fail (lifespan: "Startup must not die because the controller is
\* unreachable"), when nothing it reads ends it: a .env whose devices can be
\* parsed, no device tracked twice, a zone ZoneInfo knows in the row it will find,
\* which is .env's at the first start only, and for a bot an hour of the day.
InForce == config \cup ConfigOf(env)
Usable ==
  /\ pc = "config" /\ env.wellFormed
  /\ \A m \in Macs : Cardinality(TrackedBy(m)) <= 1
  /\ \A c \in InForce : c.zone \in KnownZones
  /\ env.bot # "none" => env.hour
UsableStartServes == Usable ~> pc = "serving" \/ ended = "crashed"

-----------------------------------------------------------------------------
(***************************************************************************)
(* Why it works: the inductive invariant.                                  *)
(***************************************************************************)

\* The transaction of the seeding holds what the tables lack, and nothing is left
\* of it once it is over.
Drafted ==
  /\ pc \notin {"poller_state", "devices"} => draft = NoDraft
  /\ pc \in {"poller_state", "devices"} => draft.config = ConfigOf(env)
  /\ pc = "devices" => draft.pollerState = {"row"}
  /\ IsFiniteSet(devices) /\ IsFiniteSet(draft.devices)
  /\ \A d \in draft.devices :
       d.active /\ \A e \in devices : e.mac = d.mac => ~e.active

\* The settings were taken over once.
SeededOnce ==
  /\ \A c, d \in config : c = d
  /\ \A e, f \in first : e = f
  /\ config = {} <=> first = {}
  /\ ~edited => config = {Seed(e) : e \in first}
  /\ pc \in {"jobs", "adapter", "bot", "serving"} => config # {} /\ pollerState # {}

\* The devices of .env are gone through one by one.
TrackedSoFar ==
  /\ pc # "devices" => next = 1
  /\ pc = "devices" =>
       \A i \in 1 .. next - 1 :
         \E d \in devices \cup draft.devices : d.mac = env.tracked[i].mac /\ d.active
  /\ pc \in {"jobs", "adapter"} =>
       \A i \in DOMAIN env.tracked : \E d \in devices : d.mac = env.tracked[i].mac /\ d.active

ActiveOnce ==
  \A d, e \in devices : d.active /\ e.active /\ d.mac = e.mac /\ d.mac \notin doubled => d = e

IInv == TypeOK /\ Drafted /\ SeededOnce /\ TrackedSoFar /\ ActiveOnce

=============================================================================
