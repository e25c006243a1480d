----------------------------- MODULE BotUpdates ------------------------------
(***************************************************************************)
(* What the bot promises, with no deliveries, transactions or failing      *)
(* calls underneath: an update is recorded once, and is then handled in    *)
(* one step or given up for good.  What it does follows from its kind,     *)
(* from what its chat is being asked and from the time it was taken.  Bot  *)
(* shows that the real processing, whose steps may fail anywhere, does     *)
(* this.                                                                   *)
(***************************************************************************)
EXTENDS Integers, Sequences

CONSTANTS Allowed, Strangers, Inputs, Timeout

NoDate == 0
NoTime == -1
Chats  == Allowed \cup Strangers
Idle   == [date |-> NoDate, since |-> NoTime]

VARIABLES
  clock,
  sent,      \* the updates there are; an update's id is its place
  recorded,  \* ids with an evidence row
  hand,      \* the update being handled, 0 if none
  taken,     \* when it was taken in hand
  awaiting,  \* the date a chat is asked about, and since when
  rejected,  \* strangers who have had their answer
  applied,   \* which update was applied to which date
  answered   \* ids with an answer on record

vars == <<clock, sent, recorded, hand, taken, awaiting, rejected, applied, answered>>

Init ==
  /\ clock = 0
  /\ sent = <<>>
  /\ recorded = {} /\ hand = 0 /\ taken = NoTime
  /\ awaiting = [c \in Chats |-> Idle]
  /\ rejected = {} /\ applied = {} /\ answered = {}

Send(u) ==
  /\ sent' = Append(sent, u)
  /\ UNCHANGED <<clock, recorded, hand, taken, awaiting, rejected, applied, answered>>

Tick ==
  /\ clock' = clock + 1
  /\ UNCHANGED <<sent, recorded, hand, taken, awaiting, rejected, applied, answered>>

-----------------------------------------------------------------------------
\* An update is taken once, after all that the chats are being asked.
Record(id, at) ==
  /\ hand = 0 /\ id \notin recorded
  /\ at <= clock /\ \A c \in Chats : awaiting[c].since <= at
  /\ recorded' = recorded \cup {id}
  /\ hand' = id /\ taken' = at
  /\ UNCHANGED <<clock, sent, awaiting, rejected, applied, answered>>

\* Once given up it is not taken again, and has left nothing in the database but its
\* evidence row.  Messages may have gone out to Telegram before: this specification
\* is of what is on record.
GiveUp ==
  /\ hand # 0
  /\ hand' = 0 /\ taken' = NoTime
  /\ UNCHANGED <<clock, sent, recorded, awaiting, rejected, applied, answered>>

Chat == sent[hand].chat

Of(kinds) == hand # 0 /\ Chat \in Allowed /\ sent[hand].kind \in kinds

\* The update is answered, applied to a date or to none, and its chat is asked
\* question from now on.
Handled(question, date) ==
  /\ awaiting' = [awaiting EXCEPT ![Chat] = question]
  /\ applied' = IF date = NoDate THEN applied
                                 ELSE applied \cup {[of |-> hand, date |-> date]}
  /\ answered' = answered \cup {hand}
  /\ hand' = 0 /\ taken' = NoTime
  /\ UNCHANGED <<clock, sent, recorded, rejected>>

-----------------------------------------------------------------------------
(***************************************************************************)
(* The conversation.                                                       *)
(***************************************************************************)
\* A stranger is told once.
Reject ==
  /\ hand # 0 /\ Chat \in Strangers
  /\ rejected' = rejected \cup {Chat}
  /\ answered' = IF Chat \in rejected THEN answered ELSE answered \cup {hand}
  /\ hand' = 0 /\ taken' = NoTime
  /\ UNCHANGED <<clock, sent, recorded, awaiting, applied>>

Command == Of({"command"}) /\ Handled(Idle, NoDate)

Ask ==
  /\ Of({"adjust"})
  /\ \E t \in taken .. clock : Handled([date |-> sent[hand].date, since |-> t], NoDate)

\* The day service may refuse.
Press ==
  /\ Of({"confirm", "lock"})
  /\ \E d \in {NoDate, sent[hand].date} : Handled(Idle, d)

Asked  == awaiting[Chat].date # NoDate
InTime == taken - awaiting[Chat].since <= Timeout

Reply ==
  /\ Of({"text"}) /\ Asked /\ InTime
  /\ \E d \in {NoDate, awaiting[Chat].date} : Handled(Idle, d)

\* A question stays open after an answer that cannot be read.
AskAgain == Of({"badtext"}) /\ Asked /\ InTime /\ Handled(awaiting[Chat], NoDate)

TooLate == Of({"text", "badtext"}) /\ Asked /\ ~InTime /\ Handled(Idle, NoDate)

Hint == Of({"text", "badtext"}) /\ ~Asked /\ Handled(awaiting[Chat], NoDate)

-----------------------------------------------------------------------------
Next ==
  \/ \E u \in Inputs : Send(u)
  \/ Tick
  \/ \E id \in DOMAIN sent : \E at \in 0 .. clock : Record(id, at)
  \/ GiveUp
  \/ Reject \/ Command \/ Ask \/ Press \/ Reply \/ AskAgain \/ TooLate \/ Hint

Spec == Init /\ [][Next]_vars

=============================================================================
