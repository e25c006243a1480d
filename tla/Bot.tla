--------------------------------- MODULE Bot ---------------------------------
(***************************************************************************)
(* The Telegram bot: updates held by Telegram until they are acknowledged, *)
(* by webhook or by the polling loop, and process_update, which commits    *)
(* the update as evidence and then, in a second transaction, carries out   *)
(* what the conversation answers, one call to Telegram after the other.    *)
(* A call, a commit or the process may fail anywhere.  Updates are handled *)
(* one at a time: the webhook handler blocks the event loop it runs on,    *)
(* and the polling loop awaits each update.                                *)
(*                                                                         *)
(* What an accepted adjustment does to a day is DayLedger's; here it is    *)
(* the date it was applied to.                                             *)
(***************************************************************************)
EXTENDS Integers, Sequences, FiniteSets

CONSTANTS
  Modes,      \* the ways of receiving updates to look at
  Allowed,    \* chats of users on the allowlist
  Strangers,  \* other chats
  Dates,      \* dates a message can name
  Inputs,     \* what chats can send
  Timeout,    \* AWAITING_TIMEOUT
  MaxUpdates, MaxTime, MaxCrashes  \* bounds

NoDate == 0
NoTime == -1
Chats  == Allowed \cup Strangers
Ids    == 1 .. MaxUpdates
Time   == 0 .. MaxTime
Kinds  == {"command", "adjust", "confirm", "lock", "text", "badtext"}
Update == [chat : Chats, kind : Kinds, date : Dates \cup {NoDate}]

ASSUME BotAssumption ==
  /\ Modes \subseteq {"webhook", "polling"}
  /\ Allowed \cap Strangers = {}
  /\ Dates \subseteq Nat \ {0}
  /\ Inputs \subseteq Update
  /\ Timeout \in Nat /\ MaxUpdates \in Nat /\ MaxTime \in Nat /\ MaxCrashes \in Nat

VARIABLES
  mode,
  clock,
  sent,      \* the updates Telegram received; an update's id is its place
  held,      \* ids Telegram has not seen acknowledged
  batch,     \* polling: ids fetched and not yet processed, which goes in their order
  offset,    \* polling: the next id to ask for; 0 is none
  alive,     \* polling: the loop's task has not ended
  crashes,
  inbox,     \* ids with an inbound row in bot_messages
  outbox,    \* outbound rows: which update they answer, and how
  awaiting,  \* bot_state: the date a chat is asked about, and since when
  rejected,  \* chats with rejection_sent
  log,       \* history: the updates processed and committed, in order
  pc,
  cur,       \* the update being processed
  now,       \* when its processing began
  todo,      \* the actions left
  tx         \* the uncommitted changes

telegram == <<sent, held>>
loop     == <<batch, offset, alive>>
database == <<inbox, outbox, awaiting, rejected, log>>
handling == <<now, todo, tx>>
vars == <<mode, clock, sent, held, batch, offset, alive, crashes, inbox, outbox, awaiting,
          rejected, log, pc, cur, now, todo, tx>>

State   == [date : Dates \cup {NoDate}, since : Time \cup {NoTime}]
Idle    == [date |-> NoDate, since |-> NoTime]
Message == [of : Ids, at : 1 .. 4]
Tx      == [state : State, target : Dates \cup {NoDate}, effect : Dates \cup {NoDate},
            out : SUBSET Message]
NoTx    == [state |-> Idle, target |-> NoDate, effect |-> NoDate, out |-> {}]
Entry   == [of : Ids, now : Time, state : State, effect : Dates \cup {NoDate}]

Init ==
  /\ mode \in Modes
  /\ clock = 0
  /\ sent = <<>> /\ held = {}
  /\ batch = {} /\ offset = 0 /\ alive = TRUE
  /\ crashes = 0
  /\ inbox = {} /\ outbox = {}
  /\ awaiting = [c \in Chats |-> Idle]
  /\ rejected = {}
  /\ log = <<>>
  /\ pc = "idle" /\ cur = 0 /\ now = NoTime /\ todo = <<>> /\ tx = NoTx

-----------------------------------------------------------------------------
(***************************************************************************)
(* Users, time and crashes                                                 *)
(***************************************************************************)
Send(u) ==
  /\ Len(sent) < MaxUpdates
  /\ sent' = Append(sent, u)
  /\ held' = held \cup {Len(sent) + 1}
  /\ UNCHANGED <<mode, clock, loop, crashes, database, pc, cur, handling>>

Tick ==
  /\ clock < MaxTime
  /\ clock' = clock + 1
  /\ UNCHANGED <<mode, telegram, loop, crashes, database, pc, cur, handling>>

\* The process dies and is started again.  What was not committed is lost, and so is
\* the polling loop's offset; what a chat is asked about is a row of bot_state, which
\* no code of the start clears.
Crash ==
  /\ crashes < MaxCrashes
  /\ crashes' = crashes + 1
  /\ batch' = {} /\ offset' = 0 /\ alive' = TRUE
  /\ pc' = "idle" /\ cur' = 0 /\ now' = NoTime /\ todo' = <<>> /\ tx' = NoTx
  /\ UNCHANGED <<mode, clock, telegram, database>>

-----------------------------------------------------------------------------
(***************************************************************************)
(* Receiving                                                               *)
(***************************************************************************)
\* Telegram calls the webhook, in any order and again until it has an answer.
Deliver(id) ==
  /\ mode = "webhook" /\ pc = "idle" /\ id \in held
  /\ pc' = "record" /\ cur' = id /\ now' = clock
  /\ UNCHANGED <<mode, clock, telegram, loop, crashes, database, todo, tx>>

Asked == { id \in held : id >= offset }

\* getUpdates acknowledges what is before the offset and returns the rest.
Polling == mode = "polling" /\ alive /\ pc = "idle" /\ batch = {}

Fetch ==
  /\ Polling
  /\ held # {}
  /\ held' = Asked
  /\ batch' = Asked
  /\ UNCHANGED <<mode, clock, sent, offset, alive, crashes, database, pc, cur, handling>>

\* Its answer is lost on the way; the loop asks again later.
FetchFails ==
  /\ Polling
  /\ held' = Asked
  /\ UNCHANGED <<mode, clock, sent, loop, crashes, database, pc, cur, handling>>

\* Its answer is not JSON: r.json() raises no TelegramError, and the task ends.
FetchBreaks ==
  /\ Polling
  /\ alive' = FALSE
  /\ UNCHANGED <<mode, clock, telegram, batch, offset, crashes, database, pc, cur, handling>>

Take(id) ==
  /\ mode = "polling" /\ pc = "idle" /\ \A other \in batch : id <= other
  /\ pc' = "record" /\ cur' = id /\ now' = clock
  /\ UNCHANGED <<mode, clock, telegram, loop, crashes, database, todo, tx>>

\* MUTANT of Answered: the handler answers 200 whatever happened.
AnsweredAnyway(ok) == {held \ {cur}, held}

Answered(ok) == IF ok THEN {held \ {cur}, held} ELSE {held}

\* MUTANT of NextOffset: the update itself is asked for again.
SameOffset(id) == id

NextOffset(id) == id + 1

\* process_update is over: the webhook answers 200 or 500, an answer that may be
\* lost; the loop goes on to the next update in either case.
End(ok) ==
  /\ pc' = "idle" /\ cur' = 0 /\ now' = NoTime /\ todo' = <<>> /\ tx' = NoTx
  /\ IF mode = "webhook"
       THEN /\ held' \in Answered(ok)
            /\ UNCHANGED loop
       ELSE /\ batch' = batch \ {cur} /\ offset' = NextOffset(cur)
            /\ UNCHANGED <<held, alive>>
  /\ UNCHANGED <<mode, clock, sent, crashes>>

-----------------------------------------------------------------------------
(***************************************************************************)
(* What the conversation answers (handle_event), as steps that call        *)
(* Telegram ("tell") or change the database.                               *)
(***************************************************************************)
Chat == sent[cur].chat

\* MUTANT of TimedOut: a question is closed at the limit, not after it.
TimedOutAtLimit(state, at) == state.date # NoDate /\ at - state.since >= Timeout

\* MUTANT of TimedOut: a question stays open for ever.
NeverTimedOut(state, at) == FALSE

TimedOut(state, at) == state.date # NoDate /\ at - state.since > Timeout

Plan(u, state, at) ==
  IF u.chat \in Strangers
    THEN IF u.chat \in rejected THEN <<>> ELSE <<"tell">>
    ELSE CASE u.kind = "command"            -> <<"clear", "tell">>
           [] u.kind = "adjust"             -> <<"tell", "set", "tell">>
           [] u.kind \in {"confirm", "lock"} -> <<"tell", "apply", "tell", "clear">>
           [] u.kind \in {"text", "badtext"} ->
                IF TimedOut(state, at) THEN <<"clear", "tell">>
                ELSE IF u.kind = "badtext" \/ state.date = NoDate THEN <<"tell">>
                ELSE <<"clear", "apply", "tell">>

Target(u, state) == IF u.kind = "text" THEN state.date ELSE u.date

-----------------------------------------------------------------------------
(***************************************************************************)
(* process_update                                                          *)
(***************************************************************************)
\* MUTANT of Recorded: the evidence row waits for the second commit.
RecordedLater(id) == inbox

Recorded(id) == inbox \cup {id}

\* record_inbound commits, and the conversation decides.
Record ==
  /\ pc = "record" /\ cur \notin inbox
  /\ inbox' = Recorded(cur)
  /\ pc' = "act"
  /\ todo' = Plan(sent[cur], awaiting[Chat], now)
  /\ tx' = [NoTx EXCEPT !.state = awaiting[Chat], !.target = Target(sent[cur], awaiting[Chat])]
  /\ UNCHANGED <<mode, clock, telegram, loop, crashes, outbox, awaiting, rejected, log, cur, now>>

\* The UNIQUE index on telegram_update_id: a duplicate is skipped.
Duplicate ==
  /\ pc = "record" /\ cur \in inbox
  /\ End(TRUE)
  /\ UNCHANGED database

\* The commit of the evidence fails: the write lock is not to be had.
RecordFails ==
  /\ pc = "record"
  /\ End(FALSE)
  /\ UNCHANGED database

Tell ==
  /\ pc = "act" /\ todo # <<>> /\ Head(todo) = "tell"
  /\ tx' = [tx EXCEPT !.out = @ \cup {[of |-> cur, at |-> Len(todo)]}]
  /\ todo' = Tail(todo)
  /\ UNCHANGED <<mode, clock, telegram, loop, crashes, database, pc, cur, now>>

SetAwaiting ==
  /\ pc = "act" /\ todo # <<>> /\ Head(todo) = "set"
  /\ tx' = [tx EXCEPT !.state = [date |-> tx.target, since |-> clock]]
  /\ todo' = Tail(todo)
  /\ UNCHANGED <<mode, clock, telegram, loop, crashes, database, pc, cur, now>>

ClearAwaiting ==
  /\ pc = "act" /\ todo # <<>> /\ Head(todo) = "clear"
  /\ tx' = [tx EXCEPT !.state = Idle]
  /\ todo' = Tail(todo)
  /\ UNCHANGED <<mode, clock, telegram, loop, crashes, database, pc, cur, now>>

\* The day service accepts the adjustment, confirmation or lock, or refuses it;
\* a refusal is told instead.
Apply(accepted) ==
  /\ pc = "act" /\ todo # <<>> /\ Head(todo) = "apply"
  /\ tx' = IF accepted THEN [tx EXCEPT !.effect = tx.target] ELSE tx
  /\ todo' = Tail(todo)
  /\ UNCHANGED <<mode, clock, telegram, loop, crashes, database, pc, cur, now>>

\* MUTANT of Remembered: that a stranger was answered is not remembered.
Forgotten(c) == rejected

Remembered(c) == IF c \in Strangers THEN rejected \cup {c} ELSE rejected

Commit ==
  /\ pc = "act" /\ todo = <<>>
  /\ outbox' = outbox \cup tx.out
  /\ awaiting' = [awaiting EXCEPT ![Chat] = tx.state]
  /\ rejected' = Remembered(Chat)
  /\ log' = Append(log, [of |-> cur, now |-> now, state |-> tx.state, effect |-> tx.effect])
  /\ End(TRUE)
  /\ UNCHANGED inbox

\* A call to Telegram, a statement or the commit raises: all of it is rolled back.
Fails ==
  /\ pc = "act"
  /\ End(FALSE)
  /\ UNCHANGED database

-----------------------------------------------------------------------------
Process ==
  \/ Record \/ Duplicate \/ RecordFails
  \/ Tell \/ SetAwaiting \/ ClearAwaiting \/ Apply(TRUE) \/ Apply(FALSE)
  \/ Commit \/ Fails

Receive == (\E id \in held : Deliver(id)) \/ Fetch \/ \E id \in batch : Take(id)

Next ==
  \/ \E u \in Inputs : Send(u)
  \/ Tick \/ Crash
  \/ Receive \/ FetchFails \/ FetchBreaks
  \/ Process

\* An update recorded before is acknowledged, and Telegram hears of it.
Acknowledge == (Duplicate \/ Commit) /\ held' # held

\* Telegram retries and the loop goes on; the write lock is not taken, and the
\* webhook's answer not lost, every single time.
Fairness == WF_vars(Process) /\ WF_vars(Receive) /\ SF_vars(Record) /\ SF_vars(Acknowledge)

Spec == Init /\ [][Next]_vars /\ Fairness

-----------------------------------------------------------------------------
(***************************************************************************)
(* Properties                                                              *)
(***************************************************************************)
TypeOK ==
  /\ mode \in Modes /\ clock \in Time
  /\ sent \in Seq(Update) /\ Len(sent) <= MaxUpdates
  /\ held \subseteq 1 .. Len(sent)
  /\ batch \subseteq 1 .. Len(sent) /\ offset \in 0 .. MaxUpdates + 1 /\ alive \in BOOLEAN
  /\ crashes \in 0 .. MaxCrashes
  /\ inbox \subseteq 1 .. Len(sent)
  /\ outbox \subseteq Message
  /\ awaiting \in [Chats -> State]
  /\ rejected \subseteq Strangers
  /\ log \in Seq(Entry)
  /\ pc \in {"idle", "record", "act"}
  /\ cur \in 0 .. Len(sent) /\ now \in Time \cup {NoTime}
  /\ todo \in Seq({"tell", "set", "clear", "apply"})
  /\ tx \in Tx

\* However often Telegram delivers an update, it takes effect at most once
\* (record_inbound, HANDOFF 7.C).
AtMostOnce ==
  /\ \A i, j \in DOMAIN log : log[i].of = log[j].of => i = j
  /\ pc = "act" => \A i \in DOMAIN log : log[i].of # cur

Reopens == {"command", "adjust", "confirm", "lock", "text"}

\* An adjustment typed as text goes to the date its chat was last asked about,
\* in a question that was answered within the timeout and that no command,
\* button or other adjustment closed since, whatever failed, was delivered twice
\* or was lost in between (handle_event, ARCHITECTURE 4.6).  A restart closes none:
\* a text after it still answers, although docs/ARCHITECTURE.md 5.7, rule 2, says
\* that the awaiting state clears "on app restart" (Crash, load_state).
TextAnswersQuestion ==
  \A k \in DOMAIN log :
    LET u == sent[log[k].of]
    IN  u.kind = "text" /\ log[k].effect # NoDate =>
          \E j \in 1 .. k - 1 :
            LET q == sent[log[j].of]
            IN  /\ q.chat = u.chat /\ q.kind = "adjust" /\ q.date = log[k].effect
                /\ log[k].now - log[j].state.since <= Timeout
                /\ \A i \in j + 1 .. k - 1 :
                     sent[log[i].of].chat = u.chat => sent[log[i].of].kind \notin Reopens

\* A stranger changes nothing and, as far as the log tells, is answered once
\* (HANDOFF 7.E).
StrangersAnsweredOnce ==
  /\ \A c \in Strangers :
       Cardinality({ o \in outbox : sent[o.of].chat = c }) <= 1
  /\ \A i \in DOMAIN log : log[i].effect # NoDate => sent[log[i].of].chat \in Allowed

\* By webhook an update that Telegram will not deliver again has its row, since a
\* failure is answered 500 and the update comes again (HANDOFF 7.G: "All inbound
\* updates and outbound messages logged to bot_messages regardless of processing
\* outcome").  The polling loop moves on and can lose both.
WebhookKeepsEvidence == mode = "webhook" => 1 .. Len(sent) \subseteq held \cup inbox

\* No update is held for ever while the bot runs: one that cannot be processed
\* does not block those after it, in either mode (polling_loop,
\* telegram_webhook).
EveryUpdateLeaves == \A id \in Ids : (id \in held) ~> (id \notin held \/ ~alive)

\* The bot as a service that handles updates atomically: an update is in hand from
\* the commit of its evidence on, and nothing uncommitted is seen.
InHand    == IF pc = "act" THEN cur ELSE 0
TakenAt   == IF pc = "act" THEN now ELSE NoTime
AppliedTo == { [of |-> log[i].of, date |-> log[i].effect] :
                 i \in { j \in DOMAIN log : log[j].effect # NoDate } }
AnswersTo == { m.of : m \in outbox }

\* Whatever is delivered twice, fails half-way or is cut short, an update is handled
\* in one step or not at all, and what it does is what the conversation answers to
\* its kind, to the question open when it was taken and to the time it was taken
\* (process_update, handle_event; the row and the answer are on record with it).
Updates == INSTANCE BotUpdates WITH recorded <- inbox, hand <- InHand, taken <- TakenAt,
                                    applied <- AppliedTo, answered <- AnswersTo
ImplementsBotUpdates == Updates!Spec

-----------------------------------------------------------------------------
(***************************************************************************)
(* Why it works: the inductive invariant.                                  *)
(***************************************************************************)

Pending(step) == \E i \in DOMAIN todo : todo[i] = step

\* The update in hand is one Telegram sent, with a time; once it is carried out its
\* evidence is committed, and so is that of everything carried out before.
EvidenceFirst ==
  /\ pc # "idle" => cur \in 1 .. Len(sent) /\ now \in Time
  /\ pc = "act" => cur \in inbox
  /\ \A i \in DOMAIN log : log[i].of \in inbox
  /\ \A o \in outbox : o.of \in inbox
  /\ \A o \in tx.out : o.of = cur
  /\ pc # "act" => tx.out = {}

\* A stranger gets one answer, and none once one is committed, and nothing else.
StrangersHeld ==
  /\ \A i \in DOMAIN log : log[i].effect # NoDate => sent[log[i].of].chat \in Allowed
  /\ \A c \in Strangers :
       /\ \A m, n \in outbox : sent[m.of].chat = c /\ sent[n.of].chat = c => m = n
       /\ c \notin rejected => \A m \in outbox : sent[m.of].chat # c
  /\ pc = "act" /\ Chat \in Strangers =>
       /\ tx.effect = NoDate
       /\ \/ todo = <<"tell">> /\ tx.out = {} /\ Chat \notin rejected
          \/ todo = <<>> /\ Chat \in rejected /\ tx.out = {}
          \/ todo = <<>> /\ Chat \notin rejected /\ \A m, n \in tx.out : m = n

\* How far the conversation has come with an update of a chat on the allowlist.
MidConversation ==
  pc = "act" /\ Chat \in Allowed =>
    LET u       == sent[cur]
        asked   == awaiting[Chat]
        ignored == u.kind = "badtext" \/ asked.date = NoDate
    IN  /\ tx.target = Target(u, asked)
        /\ tx.effect \in {NoDate, tx.target}
        /\ u.kind = "adjust" =>
             ~Pending("clear") /\ (Pending("set") \/ tx.state.date = u.date)
        /\ u.kind # "adjust" => ~Pending("set")
        /\ u.kind \in {"command", "confirm", "lock"} => Pending("clear") \/ tx.state = Idle
        /\ u.kind \in {"text", "badtext"} =>
             IF ignored /\ ~TimedOut(asked, now)
               THEN tx.state = asked /\ ~Pending("clear")
               ELSE Pending("clear") \/ tx.state = Idle
        /\ u.kind = "text" /\ (Pending("apply") \/ tx.effect # NoDate) =>
             asked.date # NoDate /\ ~TimedOut(asked, now)

\* No question is younger than the clock, or than an update taken later.
TimeRunsOn ==
  /\ \A c \in Chats : /\ awaiting[c].since <= clock
                      /\ pc # "idle" => awaiting[c].since <= now
  /\ pc # "idle" => now <= clock
  /\ pc = "act" => tx.state.since <= clock

\* What is still to come and what is done already make up the answer.
HalfDone ==
  pc = "act" =>
    /\ Chat \in Allowed => Pending("tell") \/ tx.out # {}
    /\ Chat \in Strangers =>
         /\ tx.state = awaiting[Chat]
         /\ Chat \notin rejected => Pending("tell") \/ tx.out # {}
    /\ Chat \in Allowed /\ sent[cur].kind \in {"command", "adjust", "badtext"} =>
         ~Pending("apply") /\ tx.effect = NoDate
    /\ Chat \in Allowed /\ sent[cur].kind = "adjust" => Pending("set") \/ now <= tx.state.since

\* An open question is the last one its chat was asked, and nothing closed it.
QuestionsStand ==
  \A c \in Allowed : awaiting[c].date # NoDate =>
    \E j \in DOMAIN log :
      LET q == sent[log[j].of]
      IN  /\ q.chat = c /\ q.kind = "adjust" /\ q.date = awaiting[c].date
          /\ log[j].state.since = awaiting[c].since
          /\ \A i \in DOMAIN log :
               i > j /\ sent[log[i].of].chat = c => sent[log[i].of].kind \notin Reopens

IInv ==
  /\ TypeOK /\ Len(todo) <= 4
  /\ EvidenceFirst
  /\ AtMostOnce
  /\ WebhookKeepsEvidence
  /\ StrangersHeld
  /\ MidConversation
  /\ QuestionsStand
  /\ TextAnswersQuestion
  /\ TimeRunsOn
  /\ HalfDone

=============================================================================
