------------------------------ MODULE BotProofs -------------------------------
(***************************************************************************)
(* Theorems about Bot, for every set of chats, dates and inputs, in both   *)
(* modes, whatever fails.                                                  *)
(***************************************************************************)
EXTENDS Bot, SequenceTheorems, FiniteSetTheorems, TLAPS

USE BotAssumption

Steps == {"tell", "set", "clear", "apply"}

-----------------------------------------------------------------------------
(***************************************************************************)
(* The steps that are left.                                                *)
(***************************************************************************)

Has(t, step) == \E i \in DOMAIN t : t[i] = step

\* A step is pending if it is the next one or pending after it.
LEMMA HasTail ==
  ASSUME NEW t \in Seq(Steps), t # <<>>
  PROVE  /\ Tail(t) \in Seq(Steps) /\ Head(t) \in Steps
         /\ Len(t) \in Nat \ {0} /\ Len(Tail(t)) = Len(t) - 1
         /\ \A step : Has(t, step) <=> step = Head(t) \/ Has(Tail(t), step)
  <1>1. /\ Tail(t) \in Seq(Steps) /\ Head(t) \in Steps /\ Len(Tail(t)) = Len(t) - 1
        /\ \A i \in 1 .. Len(Tail(t)) : Tail(t)[i] = t[i + 1]
    BY HeadTailProperties
  <1>2. Head(t) = t[1]
    OBVIOUS
  <1>3. Len(t) \in Nat \ {0} /\ DOMAIN t = 1 .. Len(t) /\ DOMAIN Tail(t) = 1 .. Len(Tail(t))
    BY <1>1, LenProperties, EmptySeq
  <1>. HIDE DEF Steps
  <1>4. ASSUME NEW step PROVE Has(t, step) <=> step = Head(t) \/ Has(Tail(t), step)
    <2>1. ASSUME NEW i \in 1 .. Len(t), t[i] = step
          PROVE  step = Head(t) \/ Has(Tail(t), step)
      <3>1. CASE i = 1
        BY <1>2, <2>1, <3>1
      <3>2. CASE i # 1
        <4>1. i - 1 \in 1 .. Len(Tail(t)) /\ (i - 1) + 1 = i
          BY <1>1, <1>3, <2>1, <3>2
        <4>2. Tail(t)[i - 1] = step
          BY <1>1, <2>1, <4>1
        <4>. QED
          BY <1>3, <4>1, <4>2 DEF Has
      <3>. QED
        BY <3>1, <3>2
    <2>2. ASSUME step = Head(t) PROVE Has(t, step)
      <3>1. 1 \in 1 .. Len(t)
        BY <1>3
      <3>. QED
        BY <1>2, <1>3, <2>2, <3>1 DEF Has
    <2>3. ASSUME NEW i \in 1 .. Len(Tail(t)), Tail(t)[i] = step
          PROVE  Has(t, step)
      <3>1. i + 1 \in 1 .. Len(t) /\ t[i + 1] = step
        BY <1>1, <1>3, <2>3
      <3>. QED
        BY <1>3, <3>1 DEF Has
    <2>. QED
      BY <1>3, <2>1, <2>2, <2>3 DEF Has
  <1>. QED
    BY <1>1, <1>3, <1>4

LEMMA UpToFour ==
  ASSUME NEW n \in Nat \ {0}, n <= 4
  PROVE  n \in 1 .. 4
  OBVIOUS

\* What the conversation answers is a list of at most four steps.
LEMMA PlanType ==
  ASSUME NEW u \in Update, NEW state \in State, NEW at \in Time
  PROVE  /\ Plan(u, state, at) \in Seq(Steps)
         /\ Len(Plan(u, state, at)) <= 4
         /\ Target(u, state) \in Dates \cup {NoDate}
  <1>1. u.kind \in Kinds /\ u.date \in Dates \cup {NoDate} /\ state.date \in Dates \cup {NoDate}
    BY DEF Update, State
  <1>2. /\ <<>> \in Seq(Steps) /\ Len(<<>>) <= 4
        /\ <<"tell">> \in Seq(Steps) /\ Len(<<"tell">>) <= 4
        /\ <<"clear", "tell">> \in Seq(Steps) /\ Len(<<"clear", "tell">>) <= 4
        /\ <<"tell", "set", "tell">> \in Seq(Steps) /\ Len(<<"tell", "set", "tell">>) <= 4
        /\ <<"tell", "apply", "tell", "clear">> \in Seq(Steps)
        /\ Len(<<"tell", "apply", "tell", "clear">>) <= 4
        /\ <<"clear", "apply", "tell">> \in Seq(Steps) /\ Len(<<"clear", "apply", "tell">>) <= 4
    BY DEF Steps
  <1>3. Plan(u, state, at) \in
           { <<>>, <<"tell">>, <<"clear", "tell">>, <<"tell", "set", "tell">>,
             <<"tell", "apply", "tell", "clear">>, <<"clear", "apply", "tell">> }
    BY <1>1 DEF Plan, Kinds
  <1>. QED
    BY <1>1, <1>2, <1>3 DEF Target

-----------------------------------------------------------------------------
(***************************************************************************)
(* Types.                                                                  *)
(***************************************************************************)

Typed == TypeOK /\ Len(todo) <= 4 /\ (pc # "idle" => cur \in 1 .. Len(sent) /\ now \in Time)

LEMMA Ranges ==
  ASSUME TypeOK
  PROVE  /\ Len(sent) \in Nat /\ MaxUpdates \in Nat
         /\ \A i \in 1 .. Len(sent) : i \in Ids /\ sent[i] \in Update /\ sent[i].chat \in Chats
         /\ 0 \in Time /\ clock \in Time
         /\ todo \in Seq(Steps)
  <1>1. Len(sent) \in Nat /\ MaxUpdates \in Nat /\ Len(sent) <= MaxUpdates
    BY LenProperties DEF TypeOK
  <1>2. \A i \in 1 .. Len(sent) : i \in Ids /\ sent[i] \in Update
    BY <1>1, ElementOfSeq DEF TypeOK, Ids
  <1>3. \A u \in Update : u.chat \in Chats
    BY DEF Update
  <1>. QED
    BY <1>1, <1>2, <1>3 DEF TypeOK, Steps, Time

LEMMA NothingType ==
  /\ NoTx \in Tx /\ Idle \in State /\ <<>> \in Seq(Steps) /\ Len(<<>>) = 0
  /\ \A s \in State : \A d, e \in Dates \cup {NoDate} : \A o \in SUBSET Message :
       [state |-> s, target |-> d, effect |-> e, out |-> o] \in Tx
  BY DEF NoTx, Tx, Idle, State, NoDate, NoTime

\* The end of an update keeps the types, whatever it answers.
LEMMA EndTyped ==
  ASSUME Typed, NEW ok, End(ok), cur \in 1 .. Len(sent),
         inbox' \subseteq 1 .. Len(sent), outbox' \subseteq Message,
         awaiting' \in [Chats -> State], rejected' \subseteq Strangers, log' \in Seq(Entry)
  PROVE  Typed'
  <1>1. held' \subseteq 1 .. Len(sent) /\ batch' \subseteq 1 .. Len(sent)
        /\ offset' \in 0 .. MaxUpdates + 1 /\ alive' \in BOOLEAN
    <2>1. CASE mode = "webhook"
      BY <2>1 DEF Typed, TypeOK, End, Answered, loop
    <2>2. CASE mode # "webhook"
      <3>1. cur + 1 \in 0 .. MaxUpdates + 1
        BY Ranges DEF Typed, Ids
      <3>. QED
        BY <2>2, <3>1 DEF Typed, TypeOK, End, NextOffset
    <2>. QED
      BY <2>1, <2>2
  <1>2. /\ pc' = "idle" /\ cur' = 0 /\ now' = NoTime /\ todo' = <<>> /\ tx' = NoTx
        /\ UNCHANGED <<mode, clock, sent, crashes>>
    BY DEF End
  <1>3. TypeOK /\ 0 \in 0 .. Len(sent)
    BY Ranges DEF Typed
  <1>. QED
    BY <1>1, <1>2, <1>3, NothingType DEF Typed, TypeOK, Steps

LEMMA TypedInit == Init => Typed
  <1>. SUFFICES ASSUME Init PROVE Typed
    OBVIOUS
  <1>1. Len(<<>>) = 0 /\ <<>> \in Seq(Update) /\ <<>> \in Seq(Entry) /\ <<>> \in Seq(Steps)
    OBVIOUS
  <1>2. [c \in Chats |-> Idle] \in [Chats -> State]
    BY NothingType
  <1>. QED
    BY <1>1, <1>2, NothingType DEF Init, Typed, TypeOK, Steps, Time, NoTime

LEMMA TypedNext == Typed /\ [Next]_vars => Typed'
  <1>. SUFFICES ASSUME Typed, [Next]_vars PROVE Typed'
    OBVIOUS
  <1>0. TypeOK /\ (pc # "idle" => cur \in 1 .. Len(sent) /\ now \in Time)
    BY DEF Typed
  <1>1. ASSUME NEW u \in Inputs, Send(u) PROVE Typed'
    <2>1. u \in Update
      OBVIOUS
    <2>2. sent' \in Seq(Update) /\ Len(sent') = Len(sent) + 1
      BY <1>0, <1>1, <2>1, AppendProperties DEF Send, TypeOK
    <2>3. Len(sent') <= MaxUpdates /\ \A i \in 1 .. Len(sent) : i \in 1 .. Len(sent')
      BY <1>0, <1>1, <2>2, Ranges DEF Send
    <2>4. Len(sent) + 1 \in 1 .. Len(sent')
      BY <1>0, <2>2, Ranges
    <2>5. cur \in 0 .. Len(sent')
      BY <1>0, <2>2, Ranges DEF TypeOK
    <2>. QED
      BY <1>0, <1>1, <2>2, <2>3, <2>4, <2>5
         DEF Send, Typed, TypeOK, loop, database, handling
  <1>2. ASSUME Tick PROVE Typed'
    <2>1. clock' \in Time
      BY <1>0, <1>2 DEF Tick, TypeOK, Time
    <2>. QED
      BY <1>0, <1>2, <2>1 DEF Tick, Typed, TypeOK, telegram, loop, database, handling
  <1>3. ASSUME Crash PROVE Typed'
    <2>1. crashes' \in 0 .. MaxCrashes
      BY <1>0, <1>3 DEF Crash, TypeOK
    <2>2. 0 \in 0 .. Len(sent) /\ 0 \in 0 .. MaxUpdates + 1
      BY <1>0, Ranges
    <2>. QED
      BY <1>0, <1>3, <2>1, <2>2, NothingType
         DEF Crash, Typed, TypeOK, telegram, database, Steps
  <1>4. ASSUME NEW id \in held, Deliver(id) PROVE Typed'
    <2>1. id \in 1 .. Len(sent) /\ id \in 0 .. Len(sent)
      BY <1>0, Ranges DEF TypeOK
    <2>. QED
      BY <1>0, <1>4, <2>1 DEF Deliver, Typed, TypeOK, telegram, loop, database
  <1>5. ASSUME Fetch \/ FetchFails \/ FetchBreaks PROVE Typed'
    BY <1>0, <1>5 DEF Fetch, FetchFails, FetchBreaks, Asked, Polling, Typed, TypeOK,
                      telegram, loop, database, handling
  <1>6. ASSUME NEW id \in batch, Take(id) PROVE Typed'
    <2>1. id \in 1 .. Len(sent) /\ id \in 0 .. Len(sent)
      BY <1>0, Ranges DEF TypeOK
    <2>. QED
      BY <1>0, <1>6, <2>1 DEF Take, Typed, TypeOK, telegram, loop, database
  <1>7. ASSUME Record PROVE Typed'
    <2>1. cur \in 1 .. Len(sent) /\ now \in Time
      BY <1>0, <1>7 DEF Record
    <2>2. sent[cur] \in Update /\ awaiting[Chat] \in State
      BY <1>0, <2>1, Ranges DEF TypeOK, Chat
    <2>3. /\ todo' \in Seq(Steps) /\ Len(todo') <= 4
          /\ Target(sent[cur], awaiting[Chat]) \in Dates \cup {NoDate}
      BY <1>7, <2>1, <2>2, PlanType DEF Record
    <2>4. tx' \in Tx
      <3>1. tx' = [state |-> awaiting[Chat], target |-> Target(sent[cur], awaiting[Chat]),
                   effect |-> NoDate, out |-> {}]
        BY <1>7 DEF Record, NoTx
      <3>. QED
        BY <2>2, <2>3, <3>1, NothingType
    <2>5. inbox' \subseteq 1 .. Len(sent)
      BY <1>0, <1>7, <2>1 DEF Record, Recorded, TypeOK
    <2>. QED
      BY <1>0, <1>7, <2>1, <2>3, <2>4, <2>5
         DEF Record, Typed, TypeOK, Steps, telegram, loop
  <1>8. ASSUME Duplicate \/ RecordFails \/ Fails PROVE Typed'
    BY <1>0, <1>8, EndTyped DEF Duplicate, RecordFails, Fails, database, TypeOK
  <1>9. ASSUME pc = "act", todo # <<>>, todo' = Tail(todo), tx' \in Tx,
               UNCHANGED <<mode, clock, telegram, loop, crashes, database, pc, cur, now>>
        PROVE  Typed'
    <2>1. todo' \in Seq(Steps) /\ Len(todo') <= 4
      BY <1>0, <1>9, HasTail, Ranges DEF Typed
    <2>. QED
      BY <1>0, <1>9, <2>1 DEF Typed, TypeOK, Steps, telegram, loop, database
  <1>10. ASSUME Tell PROVE Typed'
    <2>1. todo \in Seq(Steps) /\ todo # <<>> /\ cur \in Ids /\ Len(todo) <= 4
      BY <1>0, <1>10, Ranges DEF Tell, Typed
    <2>2. Len(todo) \in 1 .. 4
      <3>1. Len(todo) \in Nat \ {0}
        BY <2>1, HasTail
      <3>. QED
        BY <2>1, <3>1, UpToFour
    <2>3. [of |-> cur, at |-> Len(todo)] \in Message
      BY <2>1, <2>2 DEF Message
    <2>4. tx' \in Tx
      BY <1>0, <1>10, <2>3 DEF Tell, TypeOK, Tx
    <2>. QED
      BY <1>9, <1>10, <2>4 DEF Tell
  <1>11. ASSUME SetAwaiting PROVE Typed'
    <2>1. tx' \in Tx
      BY <1>0, <1>11 DEF SetAwaiting, TypeOK, Tx, State
    <2>. QED
      BY <1>9, <1>11, <2>1 DEF SetAwaiting
  <1>12. ASSUME ClearAwaiting PROVE Typed'
    <2>1. tx' \in Tx
      BY <1>0, <1>12, NothingType DEF ClearAwaiting, TypeOK, Tx
    <2>. QED
      BY <1>9, <1>12, <2>1 DEF ClearAwaiting
  <1>13. ASSUME NEW accepted \in BOOLEAN, Apply(accepted) PROVE Typed'
    <2>1. tx' \in Tx
      BY <1>0, <1>13 DEF Apply, TypeOK, Tx
    <2>. QED
      BY <1>9, <1>13, <2>1 DEF Apply
  <1>14. ASSUME Commit PROVE Typed'
    <2>1. cur \in 1 .. Len(sent) /\ now \in Time /\ cur \in Ids /\ Chat \in Chats
      BY <1>0, <1>14, Ranges DEF Commit, Chat
    <2>2. tx \in Tx /\ tx.state \in State /\ tx.effect \in Dates \cup {NoDate}
          /\ tx.out \subseteq Message
      BY <1>0 DEF TypeOK, Tx
    <2>3. [of |-> cur, now |-> now, state |-> tx.state, effect |-> tx.effect] \in Entry
      BY <2>1, <2>2 DEF Entry
    <2>4. log' \in Seq(Entry)
      BY <1>0, <1>14, <2>3, AppendProperties DEF Commit, TypeOK
    <2>5. rejected' \subseteq Strangers
      BY <1>0, <1>14 DEF Commit, Remembered, TypeOK
    <2>6. awaiting' \in [Chats -> State] /\ outbox' \subseteq Message
          /\ inbox' \subseteq 1 .. Len(sent)
      BY <1>0, <1>14, <2>1, <2>2 DEF Commit, TypeOK
    <2>. QED
      BY <1>14, <2>1, <2>4, <2>5, <2>6, EndTyped DEF Commit
  <1>15. CASE UNCHANGED vars
    BY <1>0, <1>15 DEF Typed, TypeOK, vars
  <1>. QED
    BY <1>1, <1>2, <1>3, <1>4, <1>5, <1>6, <1>7, <1>8, <1>10, <1>11, <1>12, <1>13, <1>14, <1>15
       DEF Next, Receive, Process

-----------------------------------------------------------------------------
(***************************************************************************)
(* The inductive invariant.                                                *)
(***************************************************************************)

\* What IInv says beyond the types and the webhook.
Told == EvidenceFirst /\ AtMostOnce /\ StrangersHeld /\ MidConversation /\ QuestionsStand
        /\ TextAnswersQuestion

\* Nothing is said about anything while nothing changes but what Telegram holds.
LEMMA ToldKept ==
  ASSUME Told, UNCHANGED <<sent, database, pc, cur, handling>>
  PROVE  Told'
  BY DEF Told, database, handling, EvidenceFirst, AtMostOnce, StrangersHeld, MidConversation,
         QuestionsStand, TextAnswersQuestion, Chat, Pending

\* An update given up or passed over leaves the database as it was.
LEMMA ToldIdle ==
  ASSUME Told, UNCHANGED <<sent, database>>, pc' \in {"idle", "record"}, tx'.out = {},
         pc' = "record" => cur' \in 1 .. Len(sent) /\ now' \in Time
  PROVE  Told'
  BY DEF Told, database, EvidenceFirst, AtMostOnce, StrangersHeld, MidConversation,
         QuestionsStand, TextAnswersQuestion

\* A new update changes no old one.
LEMMA ToldSend ==
  ASSUME Typed, Told, NEW u \in Inputs, Send(u)
  PROVE  Told'
  <1>1. /\ sent \in Seq(Update) /\ u \in Update /\ sent' = Append(sent, u)
        /\ UNCHANGED <<inbox, outbox, awaiting, rejected, log, pc, cur, now, todo, tx>>
    BY DEF Send, Typed, TypeOK, database, handling
  <1>2. Len(sent') = Len(sent) + 1 /\ \A i \in 1 .. Len(sent) : sent'[i] = sent[i]
    BY <1>1, AppendProperties
  <1>3. /\ \A i \in DOMAIN log : log[i].of \in 1 .. Len(sent)
        /\ \A o \in outbox : o.of \in 1 .. Len(sent)
        /\ pc # "idle" => cur \in 1 .. Len(sent) /\ cur \in 1 .. Len(sent')
    <2>1. inbox \subseteq 1 .. Len(sent) /\ Len(sent) \in Nat
      BY Ranges DEF Typed, TypeOK
    <2>2. pc # "idle" => cur \in 1 .. Len(sent) /\ cur \in 1 .. Len(sent')
      BY <1>2, <2>1 DEF Told, EvidenceFirst
    <2>3. \A i \in DOMAIN log : log[i].of \in 1 .. Len(sent)
      BY <2>1 DEF Told, EvidenceFirst
    <2>4. \A o \in outbox : o.of \in 1 .. Len(sent)
      BY <2>1 DEF Told, EvidenceFirst
    <2>. QED
      BY <2>2, <2>3, <2>4
  <1>4. /\ \A i \in DOMAIN log : sent'[log[i].of] = sent[log[i].of]
        /\ \A o \in outbox : sent'[o.of] = sent[o.of]
        /\ pc # "idle" => sent'[cur] = sent[cur]
    BY <1>2, <1>3
  <1>0. EvidenceFirst /\ AtMostOnce /\ StrangersHeld /\ MidConversation /\ QuestionsStand
        /\ TextAnswersQuestion
    BY DEF Told
  <1>5. EvidenceFirst' /\ AtMostOnce'
    BY <1>0, <1>1, <1>3 DEF EvidenceFirst, AtMostOnce
  <1>6. StrangersHeld' /\ MidConversation'
    <2>1. ASSUME NEW c \in Strangers
          PROVE  /\ \A m, n \in outbox' : sent'[m.of].chat = c /\ sent'[n.of].chat = c => m = n
                 /\ c \notin rejected' => \A m \in outbox' : sent'[m.of].chat # c
      <3>1. outbox' = outbox /\ rejected' = rejected
        BY <1>1
      <3>2. /\ \A m, n \in outbox : sent[m.of].chat = c /\ sent[n.of].chat = c => m = n
            /\ c \notin rejected => \A m \in outbox : sent[m.of].chat # c
        BY <1>0 DEF StrangersHeld
      <3>. QED
        BY <1>4, <3>1, <3>2
    <2>2. \A i \in DOMAIN log' : log'[i].effect # NoDate => sent'[log'[i].of].chat \in Allowed
      <3>1. \A i \in DOMAIN log : log[i].effect # NoDate => sent[log[i].of].chat \in Allowed
        BY <1>0 DEF StrangersHeld
      <3>. QED
        BY <1>1, <1>4, <3>1
    <2>3. CASE pc = "act"
      <3>1. sent'[cur] = sent[cur]
        BY <1>4, <2>3
      <3>2. StrangersHeld'
        BY <1>0, <1>1, <2>1, <2>3, <2>2, <3>1 DEF StrangersHeld, Chat
      <3>3. MidConversation'
        BY <1>0, <1>1, <2>3, <3>1 DEF MidConversation, Chat, Pending
      <3>. QED
        BY <3>2, <3>3
    <2>4. CASE pc # "act"
      BY <1>1, <2>1, <2>4, <2>2 DEF StrangersHeld, MidConversation
    <2>. QED
      BY <2>3, <2>4
  <1>7. QuestionsStand'
    <2>. SUFFICES ASSUME NEW c \in Allowed, awaiting[c].date # NoDate
                  PROVE  \E j \in DOMAIN log :
                           LET q == sent'[log[j].of]
                           IN  /\ q.chat = c /\ q.kind = "adjust" /\ q.date = awaiting[c].date
                               /\ log[j].state.since = awaiting[c].since
                               /\ \A i \in DOMAIN log :
                                    i > j /\ sent'[log[i].of].chat = c =>
                                      sent'[log[i].of].kind \notin Reopens
      BY <1>1 DEF QuestionsStand
    <2>. QED
      BY <1>0, <1>4 DEF QuestionsStand
  <1>8. TextAnswersQuestion'
    <2>. SUFFICES ASSUME NEW k \in DOMAIN log, sent'[log[k].of].kind = "text",
                         log[k].effect # NoDate
                  PROVE  \E j \in 1 .. k - 1 :
                           LET q == sent'[log[j].of]
                           IN  /\ q.chat = sent'[log[k].of].chat /\ q.kind = "adjust"
                               /\ q.date = log[k].effect
                               /\ log[k].now - log[j].state.since <= Timeout
                               /\ \A i \in j + 1 .. k - 1 :
                                    sent'[log[i].of].chat = sent'[log[k].of].chat =>
                                      sent'[log[i].of].kind \notin Reopens
      BY <1>1 DEF TextAnswersQuestion
    <2>0. sent'[log[k].of] = sent[log[k].of]
      BY <1>4
    <2>1. \A i \in 1 .. k - 1 : i \in DOMAIN log
      BY LenProperties DEF Typed, TypeOK
    <2>2. k \in Nat
      BY LenProperties DEF Typed, TypeOK
    <2>3. PICK j \in 1 .. k - 1 :
             LET q == sent[log[j].of]
             IN  /\ q.chat = sent[log[k].of].chat /\ q.kind = "adjust"
                 /\ q.date = log[k].effect
                 /\ log[k].now - log[j].state.since <= Timeout
                 /\ \A i \in j + 1 .. k - 1 :
                      sent[log[i].of].chat = sent[log[k].of].chat =>
                        sent[log[i].of].kind \notin Reopens
      BY <1>0, <2>0 DEF TextAnswersQuestion
    <2>4. \A i \in j + 1 .. k - 1 : i \in 1 .. k - 1
      BY <2>2
    <2>. QED
      BY <1>4, <2>0, <2>1, <2>3, <2>4
  <1>. QED
    BY <1>5, <1>6, <1>7, <1>8 DEF Told

\* Which steps the answer to an update of the allowlist contains.
LEMMA HasPlan ==
  ASSUME NEW u \in Update, u.chat \notin Strangers, NEW state, NEW at,
         NEW P, P = Plan(u, state, at)
  PROVE  /\ u.kind = "adjust" => ~Has(P, "clear") /\ Has(P, "set")
         /\ u.kind # "adjust" => ~Has(P, "set")
         /\ u.kind \in {"command", "confirm", "lock"} => Has(P, "clear")
         /\ u.kind \in {"text", "badtext"} =>
              IF (u.kind = "badtext" \/ state.date = NoDate) /\ ~TimedOut(state, at)
                THEN ~Has(P, "clear") ELSE Has(P, "clear")
         /\ u.kind = "text" /\ Has(P, "apply") => state.date # NoDate /\ ~TimedOut(state, at)
         /\ u.kind \in {"command", "adjust", "badtext"} => ~Has(P, "apply")
         /\ Has(P, "tell")
  <1>1. u.kind \in Kinds
    BY DEF Update
  <1>2. CASE u.kind = "command"
    <2>1. P = <<"clear", "tell">>
      BY <1>2 DEF Plan
    <2>. QED
      BY <1>2, <2>1 DEF Has
  <1>3. CASE u.kind = "adjust"
    <2>1. P = <<"tell", "set", "tell">>
      BY <1>3 DEF Plan
    <2>. QED
      BY <1>3, <2>1 DEF Has
  <1>4. CASE u.kind \in {"confirm", "lock"}
    <2>1. P = <<"tell", "apply", "tell", "clear">>
      BY <1>4 DEF Plan
    <2>. QED
      BY <1>4, <2>1 DEF Has
  <1>5. CASE u.kind \in {"text", "badtext"} /\ TimedOut(state, at)
    <2>1. P = <<"clear", "tell">>
      BY <1>5 DEF Plan
    <2>. QED
      BY <1>5, <2>1 DEF Has
  <1>6. CASE /\ u.kind \in {"text", "badtext"} /\ ~TimedOut(state, at)
             /\ u.kind = "badtext" \/ state.date = NoDate
    <2>1. P = <<"tell">>
      BY <1>6 DEF Plan
    <2>. QED
      BY <1>6, <2>1 DEF Has
  <1>7. CASE u.kind = "text" /\ ~TimedOut(state, at) /\ state.date # NoDate
    <2>1. P = <<"clear", "apply", "tell">>
      BY <1>7 DEF Plan
    <2>. QED
      BY <1>7, <2>1 DEF Has
  <1>. QED
    BY <1>1, <1>2, <1>3, <1>4, <1>5, <1>6, <1>7 DEF Kinds

LEMMA ToldRecord ==
  ASSUME Typed, Told, Record
  PROVE  Told'
  <1>0. EvidenceFirst /\ AtMostOnce /\ StrangersHeld /\ QuestionsStand /\ TextAnswersQuestion
    BY DEF Told
  <1>1. /\ pc = "record" /\ pc' = "act" /\ inbox' = inbox \cup {cur} /\ cur \notin inbox
        /\ UNCHANGED <<sent, outbox, awaiting, rejected, log, cur, now>>
        /\ todo' = Plan(sent[cur], awaiting[Chat], now)
        /\ tx'.state = awaiting[Chat] /\ tx'.target = Target(sent[cur], awaiting[Chat])
        /\ tx'.effect = NoDate /\ tx'.out = {}
    BY DEF Record, Recorded, telegram, NoTx
  <1>2. cur \in 1 .. Len(sent) /\ sent[cur] \in Update /\ Chat = sent[cur].chat /\ Chat' = Chat
    BY <1>1, Ranges DEF Typed, Chat
  <1>3. EvidenceFirst' /\ AtMostOnce'
    BY <1>0, <1>1 DEF EvidenceFirst, AtMostOnce
  <1>4. QuestionsStand' /\ TextAnswersQuestion'
    BY <1>0, <1>1 DEF QuestionsStand, TextAnswersQuestion
  <1>5. StrangersHeld'
    <2>1. Chat \in Strangers => todo' = IF Chat \in rejected THEN <<>> ELSE <<"tell">>
      BY <1>1, <1>2 DEF Plan
    <2>. QED
      BY <1>0, <1>1, <1>2, <2>1 DEF StrangersHeld
  <1>6. MidConversation'
    <2>. SUFFICES ASSUME Chat \in Allowed PROVE MidConversation'
      BY <1>2 DEF MidConversation
    <2>1. sent[cur].chat \notin Strangers
      BY <1>2
    <2>2. \A step : Pending(step)' <=> Has(todo', step)
      BY DEF Pending, Has
    <2>3. TimedOut(awaiting[Chat], now)' <=> TimedOut(awaiting[Chat], now)
      BY <1>1, <1>2 DEF TimedOut
    <2>. DEFINE u == sent[cur]
                asked == awaiting[Chat]
    <2>4. /\ u.kind = "adjust" => ~Has(todo', "clear") /\ Has(todo', "set")
          /\ u.kind # "adjust" => ~Has(todo', "set")
          /\ u.kind \in {"command", "confirm", "lock"} => Has(todo', "clear")
          /\ u.kind \in {"text", "badtext"} =>
               IF (u.kind = "badtext" \/ asked.date = NoDate) /\ ~TimedOut(asked, now)
                 THEN ~Has(todo', "clear") ELSE Has(todo', "clear")
          /\ u.kind = "text" /\ Has(todo', "apply") =>
               asked.date # NoDate /\ ~TimedOut(asked, now)
      BY <1>1, <1>2, <2>1, HasPlan
    <2>5. u' = u /\ asked' = asked
      BY <1>1, <1>2
    <2>. HIDE DEF u, asked
    <2>. QED
      BY <1>1, <2>2, <2>3, <2>4, <2>5 DEF MidConversation, u, asked
  <1>. QED
    BY <1>3, <1>4, <1>5, <1>6 DEF Told

\* One step of an answer.
LEMMA ToldStep ==
  ASSUME Typed, Told,
         Tell \/ SetAwaiting \/ ClearAwaiting \/ \E accepted \in BOOLEAN : Apply(accepted)
  PROVE  Told'
  <1>0. EvidenceFirst /\ AtMostOnce /\ StrangersHeld /\ QuestionsStand /\ TextAnswersQuestion
        /\ MidConversation
    BY DEF Told
  <1>1. /\ pc = "act" /\ pc' = "act" /\ todo # <<>> /\ todo' = Tail(todo)
        /\ UNCHANGED <<sent, inbox, outbox, awaiting, rejected, log, cur, now>>
    BY DEF Tell, SetAwaiting, ClearAwaiting, Apply, telegram, database
  <1>2. tx \in Tx /\ todo \in Seq(Steps) /\ Chat' = Chat
    BY <1>1, Ranges DEF Typed, TypeOK, Chat
  <1>3. \A step : Pending(step) <=> step = Head(todo) \/ Pending(step)'
    <2>1. \A step : Has(todo, step) <=> step = Head(todo) \/ Has(Tail(todo), step)
      BY <1>1, <1>2, HasTail
    <2>. QED
      BY <1>1, <2>1 DEF Pending, Has
  <1>4. CASE Tell
    <2>1. /\ Head(todo) = "tell"
          /\ tx'.out = tx.out \cup {[of |-> cur, at |-> Len(todo)]}
          /\ tx'.state = tx.state /\ tx'.target = tx.target /\ tx'.effect = tx.effect
      BY <1>2, <1>4 DEF Tell, Tx
    <2>2. EvidenceFirst' /\ AtMostOnce'
      BY <1>0, <1>1, <2>1 DEF EvidenceFirst, AtMostOnce
    <2>3. StrangersHeld'
      <3>1. /\ \A c \in Strangers :
                  /\ \A m, n \in outbox' : sent'[m.of].chat = c /\ sent'[n.of].chat = c => m = n
                  /\ c \notin rejected' => \A m \in outbox' : sent'[m.of].chat # c
            /\ \A i \in DOMAIN log' :
                  log'[i].effect # NoDate => sent'[log'[i].of].chat \in Allowed
        BY <1>0, <1>1 DEF StrangersHeld
      <3>2. CASE Chat \in Strangers
        <4>1. todo = <<"tell">> /\ tx.out = {} /\ tx.effect = NoDate /\ Chat \notin rejected
          BY <1>0, <1>1, <3>2 DEF StrangersHeld
        <4>2. todo' = <<>>
          BY <1>1, <4>1
        <4>3. \A m, n \in tx'.out : m = n
          BY <2>1, <4>1
        <4>. QED
          BY <1>1, <1>2, <2>1, <3>1, <4>1, <4>2, <4>3 DEF StrangersHeld
      <3>3. CASE Chat \notin Strangers
        BY <1>2, <3>1, <3>3 DEF StrangersHeld
      <3>. QED
        BY <3>2, <3>3
    <2>4. MidConversation'
      <3>1. \A step \in {"set", "clear", "apply"} : Pending(step)' <=> Pending(step)
        BY <1>3, <2>1
      <3>. QED
        BY <1>0, <1>1, <1>2, <2>1, <3>1 DEF MidConversation, TimedOut, Target
    <2>5. QuestionsStand' /\ TextAnswersQuestion'
      BY <1>0, <1>1 DEF QuestionsStand, TextAnswersQuestion
    <2>. QED
      BY <2>2, <2>3, <2>4, <2>5 DEF Told
  <1>5. CASE ~Tell
    <2>1. /\ tx'.out = tx.out /\ tx'.target = tx.target
          /\ \/ /\ Head(todo) = "set"
                /\ tx'.state.date = tx.target /\ tx'.effect = tx.effect
             \/ /\ Head(todo) = "clear"
                /\ tx'.state = Idle /\ tx'.effect = tx.effect
             \/ /\ Head(todo) = "apply"
                /\ tx'.state = tx.state /\ tx'.effect \in {tx.effect, tx.target}
      BY <1>2, <1>5 DEF SetAwaiting, ClearAwaiting, Apply, Tx
    <2>2. EvidenceFirst' /\ AtMostOnce'
      BY <1>0, <1>1, <2>1 DEF EvidenceFirst, AtMostOnce
    <2>3. Chat \notin Strangers
      <3>1. ASSUME Chat \in Strangers PROVE FALSE
        <4>1. todo = <<"tell">>
          BY <1>0, <1>1, <3>1 DEF StrangersHeld
        <4>2. Head(todo) = "tell"
          BY <4>1
        <4>. QED
          BY <2>1, <4>2
      <3>. QED
        BY <3>1
    <2>4. StrangersHeld'
      BY <1>0, <1>1, <1>2, <2>3 DEF StrangersHeld
    <2>5. MidConversation'
      <3>. SUFFICES ASSUME Chat \in Allowed PROVE MidConversation'
        BY <1>2 DEF MidConversation
      <3>. DEFINE u == sent[cur]
                  asked == awaiting[Chat]
                  ignored == u.kind = "badtext" \/ asked.date = NoDate
      <3>1. u' = u /\ asked' = asked /\ (TimedOut(asked, now)' <=> TimedOut(asked, now))
        BY <1>1, <1>2 DEF TimedOut
      <3>2. /\ tx.target = Target(u, asked)
            /\ tx.effect \in {NoDate, tx.target}
            /\ u.kind = "adjust" =>
                 ~Pending("clear") /\ (Pending("set") \/ tx.state.date = u.date)
            /\ u.kind # "adjust" => ~Pending("set")
            /\ u.kind \in {"command", "confirm", "lock"} => Pending("clear") \/ tx.state = Idle
            /\ u.kind \in {"text", "badtext"} =>
                 IF ignored /\ ~TimedOut(asked, now)
                   THEN tx.state = asked /\ ~Pending("clear")
                   ELSE Pending("clear") \/ tx.state = Idle
            /\ u.kind = "text" /\ (Pending("apply") \/ tx.effect # NoDate) =>
                 asked.date # NoDate /\ ~TimedOut(asked, now)
        BY <1>0, <1>1 DEF MidConversation
      <3>3. u.kind = "adjust" => tx.target = u.date
        BY <3>2 DEF Target
      <3>. HIDE DEF u, asked
      <3>4. /\ tx'.target = Target(u, asked)
            /\ tx'.effect \in {NoDate, tx'.target}
            /\ u.kind = "adjust" =>
                 ~Pending("clear")' /\ (Pending("set")' \/ tx'.state.date = u.date)
            /\ u.kind # "adjust" => ~Pending("set")'
            /\ u.kind \in {"command", "confirm", "lock"} =>
                 Pending("clear")' \/ tx'.state = Idle
            /\ u.kind \in {"text", "badtext"} =>
                 IF ignored /\ ~TimedOut(asked, now)
                   THEN tx'.state = asked /\ ~Pending("clear")'
                   ELSE Pending("clear")' \/ tx'.state = Idle
            /\ u.kind = "text" /\ (Pending("apply")' \/ tx'.effect # NoDate) =>
                 asked.date # NoDate /\ ~TimedOut(asked, now)
        BY <1>3, <2>1, <3>2, <3>3
      <3>. QED
        BY <3>1, <3>4 DEF MidConversation, u, asked, Target
    <2>6. QuestionsStand' /\ TextAnswersQuestion'
      BY <1>0, <1>1 DEF QuestionsStand, TextAnswersQuestion
    <2>. QED
      BY <2>2, <2>4, <2>5, <2>6 DEF Told
  <1>. QED
    BY <1>4, <1>5

\* The commit of an answer.
LEMMA ToldCommit ==
  ASSUME Typed, Told, Commit
  PROVE  Told'
  <1>0. EvidenceFirst /\ AtMostOnce /\ StrangersHeld /\ QuestionsStand /\ TextAnswersQuestion
        /\ MidConversation
    BY DEF Told
  <1>. DEFINE entry == [of |-> cur, now |-> now, state |-> tx.state, effect |-> tx.effect]
              n == Len(log)
  <1>1. /\ pc = "act" /\ pc' = "idle" /\ tx' = NoTx /\ todo = <<>> /\ todo' = <<>>
        /\ UNCHANGED <<sent, inbox>>
        /\ outbox' = outbox \cup tx.out
        /\ awaiting' = [awaiting EXCEPT ![Chat] = tx.state]
        /\ rejected' = Remembered(Chat) /\ log' = Append(log, entry)
    BY DEF Commit, End
  <1>2. /\ cur \in 1 .. Len(sent) /\ sent[cur] \in Update /\ Chat = sent[cur].chat
        /\ Chat \in Chats /\ tx \in Tx /\ now \in Time
        /\ log \in Seq(Entry) /\ awaiting \in [Chats -> State]
    BY <1>1, Ranges DEF Typed, TypeOK, Chat
  <1>3. entry \in Entry
    <2>1. cur \in Ids /\ tx.state \in State /\ tx.effect \in Dates \cup {NoDate}
      BY <1>2, Ranges DEF Typed, Tx
    <2>. QED
      BY <1>2, <2>1 DEF Entry
  <1>4. /\ n \in Nat /\ DOMAIN log = 1 .. n /\ DOMAIN log' = 1 .. n + 1
        /\ \A i \in 1 .. n : log'[i] = log[i]
        /\ log'[n + 1] = entry
    <2>1. n \in Nat /\ DOMAIN log = 1 .. n
      BY <1>2, LenProperties
    <2>2. /\ Len(log') = n + 1 /\ log' \in Seq(Entry)
          /\ \A i \in 1 .. n : log'[i] = log[i]
          /\ log'[n + 1] = entry
      BY <1>1, <1>2, <1>3, AppendProperties
    <2>3. DOMAIN log' = 1 .. n + 1
      BY <2>2, LenProperties
    <2>. QED
      BY <2>1, <2>2, <2>3
  <1>5. /\ entry.of = cur /\ entry.now = now /\ entry.state = tx.state
        /\ entry.effect = tx.effect
    OBVIOUS
  <1>. HIDE DEF entry, n
  <1>6. ASSUME NEW k \in 1 .. n + 1
        PROVE  k \in 1 .. n \/ k = n + 1
    BY <1>4
  <1>7. \A step : ~Pending(step)
    BY <1>1 DEF Pending
  <1>8. EvidenceFirst'
    <2>1. cur \in inbox /\ \A o \in tx.out : o.of = cur
      BY <1>0, <1>1 DEF EvidenceFirst
    <2>2. \A i \in DOMAIN log' : log'[i].of \in inbox
      BY <1>0, <1>4, <1>5, <1>6, <2>1 DEF EvidenceFirst
    <2>3. \A o \in outbox' : o.of \in inbox
      BY <1>0, <1>1, <2>1 DEF EvidenceFirst
    <2>. QED
      BY <1>1, <2>2, <2>3 DEF EvidenceFirst, NoTx
  <1>9. AtMostOnce'
    <2>1. \A i \in 1 .. n : log[i].of # cur
      BY <1>0, <1>1, <1>4 DEF AtMostOnce
    <2>2. ASSUME NEW i \in 1 .. n + 1, NEW j \in 1 .. n + 1, log'[i].of = log'[j].of
          PROVE  i = j
      <3>1. CASE i \in 1 .. n /\ j \in 1 .. n
        BY <1>0, <1>4, <2>2, <3>1 DEF AtMostOnce
      <3>2. CASE i = n + 1 /\ j \in 1 .. n
        BY <1>4, <1>5, <2>1, <2>2, <3>2
      <3>3. CASE i \in 1 .. n /\ j = n + 1
        BY <1>4, <1>5, <2>1, <2>2, <3>3
      <3>. QED
        BY <1>6, <3>1, <3>2, <3>3
    <2>. QED
      BY <1>1, <1>4, <2>2 DEF AtMostOnce
  <1>10. StrangersHeld'
    <2>0. ASSUME NEW i \in 1 .. n + 1, log'[i].effect # NoDate
          PROVE  sent[log'[i].of].chat \in Allowed
      <3>1. CASE i \in 1 .. n
        BY <1>0, <1>4, <2>0, <3>1 DEF StrangersHeld
      <3>2. CASE i = n + 1
        <4>1. log'[i].of = cur /\ tx.effect # NoDate
          BY <1>4, <1>5, <2>0, <3>2
        <4>2. Chat \notin Strangers
          BY <1>0, <1>1, <4>1 DEF StrangersHeld
        <4>. QED
          BY <1>2, <4>1, <4>2 DEF Chats
      <3>. QED
        BY <1>6, <3>1, <3>2
    <2>. SUFFICES ASSUME NEW c \in Strangers
                  PROVE  /\ \A m, o \in outbox' :
                              sent[m.of].chat = c /\ sent[o.of].chat = c => m = o
                         /\ c \notin rejected' => \A m \in outbox' : sent[m.of].chat # c
      BY <1>1, <1>4, <2>0 DEF StrangersHeld
    <2>1. /\ \A m, o \in outbox : sent[m.of].chat = c /\ sent[o.of].chat = c => m = o
          /\ c \notin rejected => \A m \in outbox : sent[m.of].chat # c
      BY <1>0 DEF StrangersHeld
    <2>2. \A m \in tx.out : sent[m.of].chat = Chat
      BY <1>0, <1>2 DEF EvidenceFirst
    <2>3. CASE c # Chat
      <3>1. c \notin rejected' => c \notin rejected
        BY <1>1 DEF Remembered
      <3>. QED
        BY <1>1, <2>1, <2>2, <2>3, <3>1
    <2>4. CASE c = Chat
      <3>1. \/ Chat \in rejected /\ tx.out = {}
            \/ Chat \notin rejected /\ \A m, o \in tx.out : m = o
        BY <1>0, <1>1, <2>4 DEF StrangersHeld
      <3>2. c \in rejected'
        BY <1>1, <2>4 DEF Remembered
      <3>. QED
        BY <1>1, <2>1, <2>4, <3>1, <3>2
    <2>. QED
      BY <2>3, <2>4
  <1>. DEFINE u == sent[cur]
              asked == awaiting[Chat]
  <1>11. ASSUME Chat \in Allowed
         PROVE  /\ tx.effect \in {NoDate, Target(u, asked)}
                /\ u.kind = "adjust" => tx.state.date = u.date
                /\ u.kind \in {"command", "confirm", "lock"} => tx.state = Idle
                /\ u.kind \in {"text", "badtext"} =>
                     IF (u.kind = "badtext" \/ asked.date = NoDate) /\ ~TimedOut(asked, now)
                       THEN tx.state = asked ELSE tx.state = Idle
                /\ u.kind = "text" /\ tx.effect # NoDate =>
                     asked.date # NoDate /\ ~TimedOut(asked, now)
    BY <1>0, <1>1, <1>7, <1>11 DEF MidConversation
  <1>12. u.kind \in Kinds /\ u.chat = Chat /\ asked \in State
    BY <1>2 DEF Update
  <1>. HIDE DEF u, asked
  <1>13. QuestionsStand'
    <2>. SUFFICES ASSUME NEW c \in Allowed, awaiting'[c].date # NoDate
                  PROVE  \E j \in 1 .. n + 1 :
                           LET q == sent[log'[j].of]
                           IN  /\ q.chat = c /\ q.kind = "adjust"
                               /\ q.date = awaiting'[c].date
                               /\ log'[j].state.since = awaiting'[c].since
                               /\ \A i \in 1 .. n + 1 :
                                    i > j /\ sent[log'[i].of].chat = c =>
                                      sent[log'[i].of].kind \notin Reopens
      BY <1>1, <1>4 DEF QuestionsStand
    <2>1. c \in Chats
      BY DEF Chats
    <2>2. CASE c = Chat /\ u.kind = "adjust"
      <3>1. awaiting'[c] = tx.state /\ tx.state.date = u.date
        BY <1>1, <1>2, <1>11, <2>1, <2>2
      <3>2. n + 1 \in 1 .. n + 1 /\ \A i \in 1 .. n + 1 : ~(i > n + 1)
        BY <1>4
      <3>3. sent[log'[n + 1].of] = u /\ log'[n + 1].state = tx.state
        BY <1>4, <1>5 DEF u
      <3>. QED
        BY <1>12, <2>2, <3>1, <3>2, <3>3
    <2>3. CASE c # Chat \/ u.kind # "adjust"
      <3>1. awaiting'[c] = awaiting[c] /\ (c = Chat => u.kind = "badtext")
        <4>1. CASE c # Chat
          BY <1>1, <1>2, <2>1, <4>1
        <4>2. CASE c = Chat
          <5>1. awaiting'[c] = tx.state
            BY <1>1, <1>2, <2>1, <4>2
          <5>2. tx.state # Idle
            BY <5>1 DEF Idle
          <5>3. u.kind \in {"text", "badtext"} /\ tx.state = asked
            BY <1>11, <1>12, <2>3, <4>2, <5>2 DEF Kinds
          <5>4. asked.date # NoDate
            BY <5>1, <5>3
          <5>5. u.kind = "badtext"
            BY <1>11, <4>2, <5>2, <5>3, <5>4
          <5>. QED
            BY <4>2, <5>1, <5>3, <5>5 DEF asked
        <4>. QED
          BY <4>1, <4>2
      <3>2. PICK j \in 1 .. n :
               LET q == sent[log[j].of]
               IN  /\ q.chat = c /\ q.kind = "adjust" /\ q.date = awaiting[c].date
                   /\ log[j].state.since = awaiting[c].since
                   /\ \A i \in 1 .. n :
                        i > j /\ sent[log[i].of].chat = c => sent[log[i].of].kind \notin Reopens
        BY <1>0, <1>4, <3>1 DEF QuestionsStand
      <3>3. j \in 1 .. n + 1 /\ log'[j] = log[j]
        BY <1>4
      <3>4. sent[log'[n + 1].of] = u
        BY <1>4, <1>5 DEF u
      <3>5. ASSUME NEW i \in 1 .. n + 1, i > j, sent[log'[i].of].chat = c
            PROVE  sent[log'[i].of].kind \notin Reopens
        <4>1. CASE i \in 1 .. n
          BY <1>4, <3>2, <3>5, <4>1
        <4>2. CASE i = n + 1
          BY <1>12, <3>1, <3>4, <3>5, <4>2 DEF Reopens
        <4>. QED
          BY <1>6, <4>1, <4>2
      <3>. QED
        BY <3>1, <3>2, <3>3, <3>5
    <2>. QED
      BY <2>2, <2>3
  <1>14. TextAnswersQuestion'
    <2>. SUFFICES ASSUME NEW k \in 1 .. n + 1, sent[log'[k].of].kind = "text",
                         log'[k].effect # NoDate
                  PROVE  \E j \in 1 .. k - 1 :
                           LET q == sent[log'[j].of]
                           IN  /\ q.chat = sent[log'[k].of].chat /\ q.kind = "adjust"
                               /\ q.date = log'[k].effect
                               /\ log'[k].now - log'[j].state.since <= Timeout
                               /\ \A i \in j + 1 .. k - 1 :
                                    sent[log'[i].of].chat = sent[log'[k].of].chat =>
                                      sent[log'[i].of].kind \notin Reopens
      BY <1>1, <1>4 DEF TextAnswersQuestion
    <2>1. k \in Nat /\ \A i \in 1 .. k - 1 : i \in 1 .. n /\ log'[i] = log[i]
      BY <1>4
    <2>2. CASE k \in 1 .. n
      <3>1. log'[k] = log[k]
        BY <1>4, <2>2
      <3>2. PICK j \in 1 .. k - 1 :
               LET q == sent[log[j].of]
               IN  /\ q.chat = sent[log[k].of].chat /\ q.kind = "adjust"
                   /\ q.date = log[k].effect
                   /\ log[k].now - log[j].state.since <= Timeout
                   /\ \A i \in j + 1 .. k - 1 :
                        sent[log[i].of].chat = sent[log[k].of].chat =>
                          sent[log[i].of].kind \notin Reopens
        BY <1>0, <1>4, <2>2, <3>1 DEF TextAnswersQuestion
      <3>3. \A i \in j + 1 .. k - 1 : i \in 1 .. k - 1
        BY <2>1
      <3>. QED
        BY <2>1, <3>1, <3>2, <3>3
    <2>3. CASE k = n + 1
      <3>1. sent[log'[k].of] = u /\ log'[k].now = now /\ log'[k].effect = tx.effect
        BY <1>4, <1>5, <2>3 DEF u
      <3>2. Chat \in Allowed
        <4>1. ASSUME Chat \in Strangers PROVE FALSE
          <5>1. tx.effect = NoDate
            BY <1>0, <1>1, <4>1 DEF StrangersHeld
          <5>. QED
            BY <3>1, <5>1
        <4>. QED
          BY <1>2, <4>1 DEF Chats
      <3>3. /\ asked.date # NoDate /\ ~TimedOut(asked, now) /\ tx.effect = asked.date
        BY <1>11, <3>1, <3>2 DEF Target
      <3>4. now - asked.since <= Timeout
        <4>1. now \in Int /\ asked.since \in Int /\ Timeout \in Int
          BY <1>2, <1>12 DEF Time, NoTime, State
        <4>. QED
          BY <3>3, <4>1 DEF TimedOut
      <3>5. PICK j \in 1 .. n :
               LET q == sent[log[j].of]
               IN  /\ q.chat = Chat /\ q.kind = "adjust" /\ q.date = asked.date
                   /\ log[j].state.since = asked.since
                   /\ \A i \in 1 .. n :
                        i > j /\ sent[log[i].of].chat = Chat => sent[log[i].of].kind \notin Reopens
        BY <1>0, <1>4, <3>2, <3>3 DEF QuestionsStand, asked
      <3>6. j \in 1 .. k - 1 /\ \A i \in j + 1 .. k - 1 : i \in 1 .. n /\ i > j
        BY <1>4, <2>3
      <3>. QED
        BY <1>12, <2>1, <3>1, <3>3, <3>4, <3>5, <3>6
    <2>. QED
      BY <1>6, <2>2, <2>3
  <1>15. MidConversation'
    BY <1>1 DEF MidConversation
  <1>. QED
    BY <1>8, <1>9, <1>10, <1>13, <1>14, <1>15 DEF Told

-----------------------------------------------------------------------------
(***************************************************************************)
(* By webhook nothing is acknowledged before it is recorded.               *)
(***************************************************************************)

LEMMA Acknowledged ==
  ASSUME Typed, Told, WebhookKeepsEvidence, [Next]_vars
  PROVE  WebhookKeepsEvidence'
  <1>1. mode' = mode /\ inbox \subseteq inbox'
    BY DEF Next, Receive, Process, Send, Tick, Crash, Deliver, Fetch, FetchFails, FetchBreaks,
           Take, Record, Recorded, Duplicate, RecordFails, Tell, SetAwaiting, ClearAwaiting,
           Apply, Commit, Fails, End, database, vars
  <1>. SUFFICES ASSUME mode = "webhook" PROVE 1 .. Len(sent') \subseteq held' \cup inbox'
    BY <1>1 DEF WebhookKeepsEvidence
  <1>2. 1 .. Len(sent) \subseteq held \cup inbox
    BY DEF WebhookKeepsEvidence
  <1>3. ASSUME sent' = sent, held \subseteq held' PROVE 1 .. Len(sent') \subseteq held' \cup inbox'
    BY <1>1, <1>2, <1>3
  <1>4. ASSUME sent' = sent, held \ {cur} \subseteq held', cur \in inbox
        PROVE  1 .. Len(sent') \subseteq held' \cup inbox'
    BY <1>1, <1>2, <1>4
  <1>5. ASSUME NEW u \in Inputs, Send(u) PROVE 1 .. Len(sent') \subseteq held' \cup inbox'
    <2>1. u \in Update /\ sent \in Seq(Update) /\ sent' = Append(sent, u)
          /\ held' = held \cup {Len(sent) + 1}
      BY <1>5 DEF Send, Typed, TypeOK
    <2>2. Len(sent') = Len(sent) + 1 /\ Len(sent) \in Nat
      BY <2>1, AppendProperties, LenProperties
    <2>3. \A i \in 1 .. Len(sent') : i \in 1 .. Len(sent) \/ i = Len(sent) + 1
      BY <2>2
    <2>. QED
      BY <1>1, <1>2, <2>1, <2>3
  <1>6. ASSUME Tick \/ Crash \/ FetchBreaks \/ (\E id \in held : Deliver(id)) \/ (\E id \in batch : Take(id))
               \/ Record \/ Tell \/ SetAwaiting \/ ClearAwaiting \/ Apply(TRUE) \/ Apply(FALSE)
               \/ UNCHANGED vars
        PROVE  1 .. Len(sent') \subseteq held' \cup inbox'
    <2>1. UNCHANGED <<sent, held>>
      BY <1>6 DEF Tick, Crash, FetchBreaks, Deliver, Take, Record, Tell, SetAwaiting,
                  ClearAwaiting, Apply, telegram, vars
    <2>. QED
      BY <1>3, <2>1
  <1>7. ~Fetch /\ ~FetchFails
    BY DEF Fetch, FetchFails, Polling
  <1>8. ASSUME RecordFails \/ Fails PROVE 1 .. Len(sent') \subseteq held' \cup inbox'
    BY <1>3, <1>8 DEF RecordFails, Fails, End, Answered
  <1>9. ASSUME Duplicate \/ Commit PROVE 1 .. Len(sent') \subseteq held' \cup inbox'
    <2>1. cur \in inbox
      BY <1>9 DEF Duplicate, Commit, Told, EvidenceFirst
    <2>2. sent' = sent /\ held \ {cur} \subseteq held'
      BY <1>9 DEF Duplicate, Commit, End, Answered
    <2>. QED
      BY <1>4, <2>1, <2>2
  <1>. QED
    BY <1>5, <1>6, <1>7, <1>8, <1>9 DEF Next, Receive, Process

-----------------------------------------------------------------------------
(***************************************************************************)
(* Time, and what is done and to come of an answer.                        *)
(***************************************************************************)

LEMMA TimeRunsOnNext ==
  ASSUME Typed, TimeRunsOn, [Next]_vars
  PROVE  TimeRunsOn'
  <1>0. /\ clock \in Int /\ awaiting \in [Chats -> State] /\ tx \in Tx
        /\ \A c \in Chats : awaiting[c].since \in Int
        /\ pc # "idle" => now \in Int /\ cur \in 1 .. Len(sent)
        /\ tx.state.since \in Int
        /\ Idle.since = NoTime /\ 0 <= clock
    BY DEF Typed, TypeOK, Time, State, Tx, Idle, NoTime
  <1>1. ASSUME UNCHANGED <<clock, awaiting, pc, now, tx>> PROVE TimeRunsOn'
    BY <1>1 DEF TimeRunsOn
  <1>2. ASSUME Tick PROVE TimeRunsOn'
    <2>1. clock' = clock + 1 /\ UNCHANGED <<awaiting, pc, now, tx>>
      BY <1>2 DEF Tick, database, handling
    <2>. QED
      BY <1>0, <2>1 DEF TimeRunsOn
  <1>3. ASSUME pc' = "idle", UNCHANGED <<clock, awaiting>> PROVE TimeRunsOn'
    BY <1>3 DEF TimeRunsOn
  <1>4. ASSUME pc' = "record", now' = clock, UNCHANGED <<clock, awaiting>> PROVE TimeRunsOn'
    BY <1>0, <1>4 DEF TimeRunsOn
  <1>5. ASSUME pc # "idle", tx'.state.since <= clock, UNCHANGED <<clock, awaiting, now>>
        PROVE  TimeRunsOn'
    BY <1>5 DEF TimeRunsOn
  <1>6. ASSUME Record PROVE TimeRunsOn'
    <2>1. /\ pc # "idle" /\ UNCHANGED <<clock, awaiting, now>>
          /\ tx'.state = awaiting[Chat] /\ Chat \in Chats
      BY <1>0, <1>6, Ranges DEF Record, NoTx, Chat, Typed
    <2>. QED
      BY <1>5, <2>1 DEF TimeRunsOn
  <1>7. ASSUME Tell \/ SetAwaiting \/ ClearAwaiting \/ Apply(TRUE) \/ Apply(FALSE)
        PROVE  TimeRunsOn'
    <2>1. /\ pc = "act" /\ UNCHANGED <<clock, awaiting, now>>
          /\ \/ tx'.state = tx.state
             \/ tx'.state = Idle
             \/ tx'.state.since = clock
      BY <1>0, <1>7 DEF Tell, SetAwaiting, ClearAwaiting, Apply, Tx, State, database
    <2>2. tx'.state.since <= clock
      BY <1>0, <2>1 DEF TimeRunsOn, NoTime
    <2>. QED
      BY <1>5, <2>1, <2>2
  <1>8. ASSUME Commit PROVE TimeRunsOn'
    <2>1. /\ pc = "act" /\ pc' = "idle" /\ clock' = clock
          /\ awaiting' = [awaiting EXCEPT ![Chat] = tx.state]
      BY <1>8 DEF Commit, End
    <2>2. \A c \in Chats : awaiting'[c] = awaiting[c] \/ awaiting'[c] = tx.state
      BY <1>0, <2>1
    <2>. QED
      BY <2>1, <2>2 DEF TimeRunsOn
  <1>9. ASSUME Crash \/ Duplicate \/ RecordFails \/ Fails PROVE TimeRunsOn'
    <2>1. pc' = "idle" /\ UNCHANGED <<clock, awaiting>>
      BY <1>9 DEF Crash, Duplicate, RecordFails, Fails, End, database
    <2>. QED
      BY <1>3, <2>1
  <1>10. ASSUME (\E id \in held : Deliver(id)) \/ (\E id \in batch : Take(id))
         PROVE  TimeRunsOn'
    <2>1. pc' = "record" /\ now' = clock /\ UNCHANGED <<clock, awaiting>>
      BY <1>10 DEF Deliver, Take, database
    <2>. QED
      BY <1>4, <2>1
  <1>11. ASSUME \/ \E u \in Inputs : Send(u)
                \/ Fetch \/ FetchFails \/ FetchBreaks \/ UNCHANGED vars
         PROVE  TimeRunsOn'
    <2>1. UNCHANGED <<clock, awaiting, pc, now, tx>>
      BY <1>11 DEF Send, Fetch, FetchFails, FetchBreaks, database, handling, vars
    <2>. QED
      BY <1>1, <2>1
  <1>. QED
    BY <1>2, <1>6, <1>7, <1>8, <1>9, <1>10, <1>11 DEF Next, Receive, Process

LEMMA HalfDoneNext ==
  ASSUME Typed, Told, HalfDone, TimeRunsOn, [Next]_vars
  PROVE  HalfDone'
  <1>1. ASSUME pc' # "act" PROVE HalfDone'
    BY <1>1 DEF HalfDone
  <1>2. ASSUME UNCHANGED <<rejected, awaiting, pc, cur, now, todo, tx>>,
               pc = "act" => sent'[cur] = sent[cur]
        PROVE  HalfDone'
    BY <1>2 DEF HalfDone, Chat, Pending
  <1>3. ASSUME NEW u \in Inputs, Send(u) PROVE HalfDone'
    <2>1. pc = "act" => sent'[cur] = sent[cur]
      BY <1>3, AppendProperties DEF Send, Typed, TypeOK
    <2>. QED
      BY <1>2, <1>3, <2>1 DEF Send, database, handling
  <1>4. ASSUME Tick \/ Fetch \/ FetchFails \/ FetchBreaks \/ UNCHANGED vars PROVE HalfDone'
    <2>1. UNCHANGED <<sent, rejected, awaiting, pc, cur, now, todo, tx>>
      BY <1>4 DEF Tick, Fetch, FetchFails, FetchBreaks, telegram, database, handling, vars
    <2>. QED
      BY <1>2, <2>1
  <1>5. ASSUME \/ Crash \/ Duplicate \/ RecordFails \/ Fails \/ Commit
               \/ (\E id \in held : Deliver(id)) \/ (\E id \in batch : Take(id))
        PROVE  HalfDone'
    <2>1. pc' # "act"
      BY <1>5 DEF Crash, Duplicate, RecordFails, Fails, Commit, End, Deliver, Take
    <2>. QED
      BY <1>1, <2>1
  <1>6. ASSUME Record PROVE HalfDone'
    <2>1. /\ pc' = "act" /\ UNCHANGED <<sent, awaiting, rejected, cur, now>>
          /\ todo' = Plan(sent[cur], awaiting[Chat], now)
          /\ tx'.state = awaiting[Chat] /\ tx'.effect = NoDate
      BY <1>6 DEF Record, NoTx, telegram
    <2>2. sent[cur] \in Update /\ Chat = sent[cur].chat /\ Chat' = Chat
      BY <1>6, <2>1, Ranges DEF Record, Typed, Chat
    <2>3. \A step : Pending(step)' <=> Has(todo', step)
      BY DEF Pending, Has
    <2>4. ASSUME Chat \in Allowed
          PROVE  /\ Has(todo', "tell")
                 /\ sent[cur].kind \in {"command", "adjust", "badtext"} => ~Has(todo', "apply")
                 /\ sent[cur].kind = "adjust" => Has(todo', "set")
      <3>1. sent[cur].chat \notin Strangers
        BY <2>2, <2>4
      <3>. QED
        BY <2>1, <2>2, <3>1, HasPlan
    <2>5. ASSUME Chat \in Strangers, Chat \notin rejected PROVE Has(todo', "tell")
      <3>1. todo' = <<"tell">>
        BY <2>1, <2>2, <2>5 DEF Plan
      <3>. QED
        BY <3>1 DEF Has
    <2>. QED
      BY <2>1, <2>2, <2>3, <2>4, <2>5 DEF HalfDone
  <1>7. ASSUME Tell \/ SetAwaiting \/ ClearAwaiting \/ Apply(TRUE) \/ Apply(FALSE)
        PROVE  HalfDone'
    <2>1. /\ pc = "act" /\ todo # <<>> /\ todo' = Tail(todo)
          /\ UNCHANGED <<sent, clock, awaiting, rejected, cur, now>>
      BY <1>7 DEF Tell, SetAwaiting, ClearAwaiting, Apply, telegram, database
    <2>2. /\ tx \in Tx /\ todo \in Seq(Steps) /\ Chat' = Chat /\ now <= clock
      BY <2>1, Ranges DEF Typed, TypeOK, Chat, TimeRunsOn
    <2>3. \A step : Pending(step) <=> step = Head(todo) \/ Pending(step)'
      <3>1. \A step : Has(todo, step) <=> step = Head(todo) \/ Has(Tail(todo), step)
        BY <2>1, <2>2, HasTail
      <3>. QED
        BY <2>1, <3>1 DEF Pending, Has
    <2>4. \/ /\ Head(todo) = "tell" /\ tx'.out # {}
             /\ tx'.state = tx.state /\ tx'.effect = tx.effect
          \/ /\ Head(todo) = "set" /\ tx'.state.since = clock
             /\ tx'.effect = tx.effect /\ tx'.out = tx.out
          \/ /\ Head(todo) = "clear" /\ tx'.effect = tx.effect /\ tx'.out = tx.out
          \/ /\ Head(todo) = "apply" /\ tx'.state = tx.state /\ tx'.out = tx.out
      <3>1. CASE Tell
        BY <2>2, <3>1 DEF Tell, Tx
      <3>2. CASE SetAwaiting
        BY <2>2, <3>2 DEF SetAwaiting, Tx
      <3>3. CASE ClearAwaiting
        BY <2>2, <3>3 DEF ClearAwaiting, Tx
      <3>4. ASSUME NEW accepted \in BOOLEAN, Apply(accepted)
            PROVE  Head(todo) = "apply" /\ tx'.state = tx.state /\ tx'.out = tx.out
        BY <2>2, <3>4 DEF Apply, Tx
      <3>. QED
        BY <1>7, <3>1, <3>2, <3>3, <3>4
    <2>5. ASSUME Chat \in Strangers PROVE Head(todo) = "tell"
      <3>1. todo = <<"tell">>
        BY <2>1, <2>5 DEF Told, StrangersHeld
      <3>. QED
        BY <3>1
    <2>6. ASSUME Chat \in Allowed, sent[cur].kind = "adjust" PROVE Head(todo) # "clear"
      <3>1. ~Pending("clear")
        BY <2>1, <2>6 DEF Told, MidConversation
      <3>. QED
        BY <2>3, <3>1
    <2>. QED
      BY <2>1, <2>2, <2>3, <2>4, <2>5, <2>6 DEF HalfDone
  <1>. QED
    BY <1>3, <1>4, <1>5, <1>6, <1>7 DEF Next, Receive, Process

-----------------------------------------------------------------------------
(***************************************************************************)
(* The theorems.                                                           *)
(***************************************************************************)

LEMMA IInvIs == IInv <=> Typed /\ Told /\ WebhookKeepsEvidence /\ TimeRunsOn /\ HalfDone
  BY DEF IInv, Typed, Told, EvidenceFirst

LEMMA IInvInit == Init => IInv
  <1>. SUFFICES ASSUME Init PROVE IInv
    OBVIOUS
  <1>1. Typed
    BY TypedInit
  <1>2. DOMAIN log = {} /\ Len(sent) = 0 /\ DOMAIN todo = {}
    BY DEF Init
  <1>3. tx.out = {} /\ pc = "idle" /\ outbox = {} /\ \A c \in Chats : awaiting[c].date = NoDate
    BY DEF Init, NoTx, Idle
  <1>4. Told
    <2>1. EvidenceFirst /\ AtMostOnce /\ MidConversation /\ TextAnswersQuestion
      BY <1>2, <1>3 DEF EvidenceFirst, AtMostOnce, MidConversation, TextAnswersQuestion
    <2>2. StrangersHeld
      BY <1>2, <1>3 DEF StrangersHeld
    <2>3. QuestionsStand
      BY <1>3 DEF QuestionsStand, Chats
    <2>. QED
      BY <2>1, <2>2, <2>3 DEF Told
  <1>5. WebhookKeepsEvidence
    BY <1>2 DEF WebhookKeepsEvidence
  <1>6. TimeRunsOn /\ HalfDone
    <2>1. pc = "idle" /\ clock = 0 /\ \A c \in Chats : awaiting[c].since = NoTime
      BY DEF Init, Idle
    <2>. QED
      BY <2>1 DEF TimeRunsOn, HalfDone, NoTime
  <1>. QED
    BY <1>1, <1>4, <1>5, <1>6, IInvIs

LEMMA IInvNext == IInv /\ [Next]_vars => IInv'
  <1>. SUFFICES ASSUME IInv, [Next]_vars PROVE IInv'
    OBVIOUS
  <1>1. Typed /\ Told /\ WebhookKeepsEvidence /\ TimeRunsOn /\ HalfDone
    BY IInvIs
  <1>2. Typed' /\ WebhookKeepsEvidence' /\ TimeRunsOn' /\ HalfDone'
    BY <1>1, TypedNext, Acknowledged, TimeRunsOnNext, HalfDoneNext
  <1>3. ASSUME NEW u \in Inputs, Send(u) PROVE Told'
    BY <1>1, <1>3, ToldSend
  <1>4. ASSUME Tick \/ Fetch \/ FetchFails \/ FetchBreaks \/ UNCHANGED vars PROVE Told'
    <2>1. UNCHANGED <<sent, database, pc, cur, handling>>
      BY <1>4 DEF Tick, Fetch, FetchFails, FetchBreaks, telegram, database, handling, vars
    <2>. QED
      BY <1>1, <2>1, ToldKept
  <1>5. ASSUME Crash \/ Duplicate \/ RecordFails \/ Fails PROVE Told'
    <2>1. ASSUME Crash PROVE UNCHANGED <<sent, database>> /\ pc' = "idle" /\ tx'.out = {}
      BY <2>1 DEF Crash, NoTx, telegram
    <2>2. ASSUME Duplicate \/ RecordFails \/ Fails
          PROVE  UNCHANGED <<sent, database>> /\ pc' = "idle" /\ tx'.out = {}
      <3>1. (\E ok : End(ok)) /\ UNCHANGED database
        BY <2>2 DEF Duplicate, RecordFails, Fails
      <3>. QED
        BY <3>1 DEF End, NoTx
    <2>3. UNCHANGED <<sent, database>> /\ pc' = "idle" /\ tx'.out = {}
      BY <1>5, <2>1, <2>2
    <2>. QED
      BY <1>1, <2>3, ToldIdle
  <1>6. ASSUME (\E id \in held : Deliver(id)) \/ (\E id \in batch : Take(id)) PROVE Told'
    <2>1. UNCHANGED <<sent, database, tx>> /\ pc = "idle" /\ pc' = "record"
      BY <1>6 DEF Deliver, Take, telegram
    <2>2. cur' \in 1 .. Len(sent) /\ now' \in Time
      BY <1>1, <1>6 DEF Deliver, Take, Typed, TypeOK
    <2>3. tx'.out = {}
      BY <1>1, <2>1 DEF Told, EvidenceFirst
    <2>. QED
      BY <1>1, <2>1, <2>2, <2>3, ToldIdle
  <1>7. ASSUME Record PROVE Told'
    BY <1>1, <1>7, ToldRecord
  <1>8. ASSUME Tell \/ SetAwaiting \/ ClearAwaiting \/ Apply(TRUE) \/ Apply(FALSE) PROVE Told'
    BY <1>1, <1>8, ToldStep
  <1>9. ASSUME Commit PROVE Told'
    BY <1>1, <1>9, ToldCommit
  <1>10. Told'
    BY <1>3, <1>4, <1>5, <1>6, <1>7, <1>8, <1>9 DEF Next, Receive, Process
  <1>. QED
    BY <1>2, <1>10 DEF IInv, Typed, Told

\* The inductive invariant: how far the update in hand has come, what is
\* committed of it, and which question stands, at every step and through every
\* failure (process_update, handle_event).
THEOREM Invariance == Spec => []IInv
  BY IInvInit, IInvNext, PTL DEF Spec

\* Redelivered, retried or repeated, an update takes effect at most once
\* (record_inbound).
THEOREM EffectAtMostOnce == Spec => []AtMostOnce
  <1>1. IInv => AtMostOnce
    BY DEF IInv
  <1>. QED
    BY <1>1, Invariance, PTL

\* By webhook an update that Telegram will not deliver again is recorded
\* (telegram_webhook).
THEOREM EvidenceKept == Spec => []WebhookKeepsEvidence
  <1>1. IInv => WebhookKeepsEvidence
    BY DEF IInv
  <1>. QED
    BY <1>1, Invariance, PTL

\* A typed correction goes to the date its chat was last asked about, in time
\* (handle_event).
THEOREM TextsAnswerQuestions == Spec => []TextAnswersQuestion
  <1>1. IInv => TextAnswersQuestion
    BY DEF IInv
  <1>. QED
    BY <1>1, Invariance, PTL

\* No stranger gets a second answer that is on record, or any effect
\* (process_update).
THEOREM OneAnswerPerStranger == Spec => []StrangersAnsweredOnce
  <1>1. ASSUME IInv PROVE StrangersAnsweredOnce
    <2>1. /\ \A i \in DOMAIN log : log[i].effect # NoDate => sent[log[i].of].chat \in Allowed
          /\ \A c \in Strangers :
               \A m, o \in outbox : sent[m.of].chat = c /\ sent[o.of].chat = c => m = o
      BY <1>1 DEF IInv, StrangersHeld
    <2>2. ASSUME NEW c \in Strangers
          PROVE  Cardinality({ o \in outbox : sent[o.of].chat = c }) <= 1
      <3>. DEFINE answers == { o \in outbox : sent[o.of].chat = c }
      <3>1. \A m, o \in answers : m = o
        BY <2>1
      <3>. HIDE DEF answers
      <3>2. CASE answers = {}
        <4>1. Cardinality(answers) = 0
          BY <3>2, FS_EmptySet
        <4>. QED
          BY <4>1 DEF answers
      <3>3. CASE answers # {}
        <4>1. PICK o \in answers : answers = {o}
          BY <3>1, <3>3
        <4>2. Cardinality(answers) = 1
          BY <4>1, FS_Singleton
        <4>. QED
          BY <4>2 DEF answers
      <3>. QED
        BY <3>2, <3>3
    <2>. QED
      BY <2>1, <2>2 DEF StrangersAnsweredOnce
  <1>. QED
    BY <1>1, Invariance, PTL

-----------------------------------------------------------------------------
(***************************************************************************)
(* The bot implements atomic updates.                                      *)
(***************************************************************************)

UpdateVars == <<clock, sent, inbox, InHand, TakenAt, awaiting, rejected, AppliedTo, AnswersTo>>

\* What a commit makes of what was in hand.
LEMMA CommitMapped ==
  ASSUME Typed, EvidenceFirst, Commit
  PROVE  /\ InHand = cur /\ cur # 0 /\ TakenAt = now /\ InHand' = 0 /\ TakenAt' = NoTime
         /\ awaiting' = [awaiting EXCEPT ![Chat] = tx.state]
         /\ AppliedTo' = IF tx.effect = NoDate THEN AppliedTo
                         ELSE AppliedTo \cup {[of |-> cur, date |-> tx.effect]}
         /\ AnswersTo' = IF tx.out = {} THEN AnswersTo ELSE AnswersTo \cup {cur}
         /\ rejected' = IF Chat \in Strangers THEN rejected \cup {Chat} ELSE rejected
         /\ UNCHANGED <<clock, sent, inbox>>
  <1>1. /\ pc = "act" /\ todo = <<>> /\ pc' = "idle"
        /\ outbox' = outbox \cup tx.out
        /\ awaiting' = [awaiting EXCEPT ![Chat] = tx.state]
        /\ rejected' = IF Chat \in Strangers THEN rejected \cup {Chat} ELSE rejected
        /\ log' = Append(log, [of |-> cur, now |-> now, state |-> tx.state, effect |-> tx.effect])
        /\ UNCHANGED <<clock, sent, inbox>>
    BY DEF Commit, End, Remembered
  <1>2. cur \in 1 .. Len(sent) /\ log \in Seq(Entry) /\ Len(sent) \in Nat
    BY <1>1, Ranges DEF Typed, TypeOK
  <1>3. cur # 0 /\ InHand = cur /\ TakenAt = now /\ InHand' = 0 /\ TakenAt' = NoTime
    BY <1>1, <1>2 DEF InHand, TakenAt
  <1>4. AnswersTo' = IF tx.out = {} THEN AnswersTo ELSE AnswersTo \cup {cur}
    <2>1. \A o \in tx.out : o.of = cur
      BY DEF EvidenceFirst
    <2>. QED
      BY <1>1, <2>1 DEF AnswersTo
  <1>5. AppliedTo' = IF tx.effect = NoDate THEN AppliedTo
                    ELSE AppliedTo \cup {[of |-> cur, date |-> tx.effect]}
    <2>. DEFINE e == [of |-> cur, now |-> now, state |-> tx.state, effect |-> tx.effect]
                n == Len(log)
    <2>1. /\ n \in Nat /\ DOMAIN log = 1 .. n
          /\ DOMAIN log' = 1 .. n + 1
          /\ \A i \in 1 .. n : log'[i] = log[i]
          /\ log'[n + 1] = e
      BY <1>1, <1>2, LenProperties
    <2>2. e.of = cur /\ e.effect = tx.effect
      OBVIOUS
    <2>. HIDE DEF e, n
    <2>3. ASSUME NEW a
          PROVE  a \in AppliedTo' <=>
                   \/ a \in AppliedTo
                   \/ tx.effect # NoDate /\ a = [of |-> cur, date |-> tx.effect]
      <3>1. a \in AppliedTo' <=> \E i \in 1 .. n + 1 :
              log'[i].effect # NoDate /\ a = [of |-> log'[i].of, date |-> log'[i].effect]
        BY <2>1 DEF AppliedTo
      <3>2. a \in AppliedTo <=> \E i \in 1 .. n :
              log[i].effect # NoDate /\ a = [of |-> log[i].of, date |-> log[i].effect]
        BY <2>1 DEF AppliedTo
      <3>3. \A i : i \in 1 .. n + 1 <=> i \in 1 .. n \/ i = n + 1
        BY <2>1
      <3>. QED
        BY <2>1, <2>2, <3>1, <3>2, <3>3
    <2>. QED
      BY <2>3
  <1>. QED
    BY <1>1, <1>3, <1>4, <1>5

LEMMA CommitImplements ==
  ASSUME IInv, Commit
  PROVE  Updates!Next
  <1>0. /\ Typed /\ EvidenceFirst /\ StrangersHeld /\ MidConversation /\ HalfDone /\ TimeRunsOn
        /\ pc = "act" /\ todo = <<>>
    BY IInvIs DEF Told, Commit
  <1>1. /\ InHand = cur /\ cur # 0 /\ TakenAt = now /\ InHand' = 0 /\ TakenAt' = NoTime
        /\ awaiting' = [awaiting EXCEPT ![Chat] = tx.state]
        /\ AppliedTo' = IF tx.effect = NoDate THEN AppliedTo
                        ELSE AppliedTo \cup {[of |-> cur, date |-> tx.effect]}
        /\ AnswersTo' = IF tx.out = {} THEN AnswersTo ELSE AnswersTo \cup {cur}
        /\ rejected' = IF Chat \in Strangers THEN rejected \cup {Chat} ELSE rejected
        /\ UNCHANGED <<clock, sent, inbox>>
    BY <1>0, CommitMapped
  <1>2. /\ sent[cur] \in Update /\ Chat = sent[cur].chat /\ Chat \in Chats
        /\ awaiting \in [Chats -> State] /\ Updates!Chat = Chat
        /\ tx.state.since \in Int /\ now \in Int /\ clock \in Int
    <2>1. TypeOK /\ cur \in 1 .. Len(sent) /\ now \in Time
      BY <1>0 DEF Typed
    <2>2. sent[cur] \in Update /\ Chat = sent[cur].chat /\ Chat \in Chats
      BY <2>1, Ranges DEF Chat
    <2>3. Updates!Chat = Chat
      BY <1>1 DEF Updates!Chat, Chat
    <2>4. awaiting \in [Chats -> State] /\ tx.state.since \in Int
      BY <2>1 DEF TypeOK, Tx, State, Time, NoTime
    <2>5. now \in Int /\ clock \in Int
      BY <2>1 DEF TypeOK, Time
    <2>. QED
      BY <2>2, <2>3, <2>4, <2>5
  <1>3. \A step : ~Pending(step)
    BY <1>0 DEF Pending
  <1>4. CASE Chat \in Strangers
    <2>1. tx.state = awaiting[Chat] /\ tx.effect = NoDate
          /\ (tx.out = {} <=> Chat \in rejected)
      BY <1>0, <1>3, <1>4 DEF HalfDone, StrangersHeld
    <2>2. awaiting' = awaiting
      BY <1>1, <1>2, <2>1
    <2>3. Updates!Reject
      BY <1>1, <1>2, <1>4, <2>1, <2>2
         DEF Updates!Reject, InHand, TakenAt, AppliedTo, AnswersTo, Updates!NoTime, NoTime
    <2>. QED
      BY <2>3 DEF Updates!Next
  <1>5. CASE Chat \in Allowed
    <2>. DEFINE u == sent[cur]
                asked == awaiting[Chat]
    <2>1. tx.out # {}
      BY <1>0, <1>3, <1>5 DEF HalfDone
    <2>2. Updates!Handled(tx.state, tx.effect)
      BY <1>1, <1>2, <1>5, <2>1
         DEF Updates!Handled, InHand, TakenAt, AppliedTo, AnswersTo, Updates!NoTime, NoTime,
             Updates!NoDate, NoDate
    <2>3. \A kinds : Updates!Of(kinds) <=> u.kind \in kinds
      BY <1>1, <1>2, <1>5 DEF Updates!Of, InHand
    <2>4. Updates!Idle = Idle /\ Updates!NoDate = NoDate
      BY DEF Updates!Idle, Idle, Updates!NoDate, NoDate, Updates!NoTime, NoTime
    <2>5. /\ Updates!Asked <=> asked.date # NoDate
          /\ Updates!Asked => (Updates!InTime <=> ~TimedOut(asked, now))
      <3>1. asked.since \in Int /\ Timeout \in Int /\ now \in Int
        BY <1>2 DEF State, Time, NoTime
      <3>2. Updates!Asked <=> asked.date # NoDate
        BY <1>2, <2>4 DEF Updates!Asked
      <3>3. Updates!InTime <=> now - asked.since <= Timeout
        BY <1>1, <1>2 DEF Updates!InTime
      <3>. HIDE DEF asked
      <3>. QED
        BY <3>1, <3>2, <3>3 DEF TimedOut
    <2>6. /\ tx.target = Target(u, asked)
          /\ tx.effect \in {NoDate, tx.target}
          /\ u.kind = "adjust" => tx.state.date = u.date
          /\ u.kind \in {"command", "confirm", "lock"} => tx.state = Idle
          /\ u.kind \in {"text", "badtext"} =>
               IF (u.kind = "badtext" \/ asked.date = NoDate) /\ ~TimedOut(asked, now)
                 THEN tx.state = asked ELSE tx.state = Idle
          /\ u.kind = "text" /\ tx.effect # NoDate => asked.date # NoDate /\ ~TimedOut(asked, now)
      BY <1>0, <1>3, <1>5 DEF MidConversation
    <2>7. /\ u.kind \in {"command", "adjust", "badtext"} => tx.effect = NoDate
          /\ u.kind = "adjust" => now <= tx.state.since
          /\ tx.state.since <= clock
      BY <1>0, <1>3, <1>5 DEF HalfDone, TimeRunsOn
    <2>8. u.kind \in Kinds /\ tx.state \in State
      BY <1>0, <1>2 DEF Update, Typed, TypeOK, Tx
    <2>9. TimedOut(asked, now) => asked.date # NoDate
      BY DEF TimedOut
    <2>10. sent[InHand] = u /\ awaiting[Updates!Chat] = asked
      BY <1>1, <1>2
    <2>. HIDE DEF u, asked
    <2>11. CASE u.kind = "command"
      <3>1. Updates!Command
        BY <2>2, <2>3, <2>4, <2>6, <2>7, <2>11 DEF Updates!Command
      <3>. QED
        BY <3>1 DEF Updates!Next
    <2>12. CASE u.kind = "adjust"
      <3>1. tx.state = [date |-> u.date, since |-> tx.state.since]
        BY <2>6, <2>8, <2>12 DEF State
      <3>2. tx.state.since \in now .. clock
        BY <1>2, <2>7, <2>12
      <3>3. Updates!Handled([date |-> u.date, since |-> tx.state.since], Updates!NoDate)
        BY <2>2, <2>4, <2>7, <2>12, <3>1, Zenon
      <3>4. Updates!Ask
        BY <1>1, <2>3, <2>10, <2>12, <3>2, <3>3 DEF Updates!Ask
      <3>. QED
        BY <3>4 DEF Updates!Next
    <2>13. CASE u.kind \in {"confirm", "lock"}
      <3>1. tx.effect \in {NoDate, u.date} /\ tx.state = Idle
        BY <2>6, <2>13 DEF Target
      <3>2. Updates!Press
        BY <2>2, <2>3, <2>4, <2>10, <2>13, <3>1 DEF Updates!Press
      <3>. QED
        BY <3>2 DEF Updates!Next
    <2>14. CASE u.kind \in {"text", "badtext"} /\ asked.date = NoDate
      <3>1. tx.state = asked /\ tx.effect = NoDate
        BY <2>6, <2>7, <2>9, <2>14
      <3>2. Updates!Hint
        BY <2>2, <2>3, <2>4, <2>5, <2>10, <2>14, <3>1 DEF Updates!Hint
      <3>. QED
        BY <3>2 DEF Updates!Next
    <2>15. CASE u.kind \in {"text", "badtext"} /\ TimedOut(asked, now)
      <3>1. tx.state = Idle /\ tx.effect = NoDate
        BY <2>6, <2>7, <2>15
      <3>2. Updates!TooLate
        BY <2>2, <2>3, <2>4, <2>5, <2>9, <2>15, <3>1 DEF Updates!TooLate
      <3>. QED
        BY <3>2 DEF Updates!Next
    <2>16. CASE u.kind = "badtext" /\ asked.date # NoDate /\ ~TimedOut(asked, now)
      <3>1. tx.state = asked /\ tx.effect = NoDate
        BY <2>6, <2>7, <2>16
      <3>2. Updates!AskAgain
        BY <2>2, <2>3, <2>4, <2>5, <2>10, <2>16, <3>1 DEF Updates!AskAgain
      <3>. QED
        BY <3>2 DEF Updates!Next
    <2>17. CASE u.kind = "text" /\ asked.date # NoDate /\ ~TimedOut(asked, now)
      <3>1. tx.state = Idle /\ tx.effect \in {NoDate, asked.date}
        BY <2>6, <2>17 DEF Target
      <3>2. Updates!Reply
        BY <2>2, <2>3, <2>4, <2>5, <2>10, <2>17, <3>1 DEF Updates!Reply
      <3>. QED
        BY <3>2 DEF Updates!Next
    <2>. QED
      BY <2>8, <2>11, <2>12, <2>13, <2>14, <2>15, <2>16, <2>17 DEF Kinds
  <1>. QED
    BY <1>2, <1>4, <1>5 DEF Chats

\* Whatever is delivered twice, fails half-way or is cut short, each update is
\* handled in one step as the conversation says, or not at all (process_update,
\* handle_event).
THEOREM Implementation == Spec => ImplementsBotUpdates
  <1>1. Init => Updates!Init
    <2>. SUFFICES ASSUME Init PROVE Updates!Init
      OBVIOUS
    <2>1. /\ clock = 0 /\ sent = <<>> /\ inbox = {} /\ rejected = {}
          /\ awaiting = [c \in Chats |-> Idle]
          /\ InHand = 0 /\ TakenAt = NoTime
      BY DEF Init, InHand, TakenAt
    <2>2. AppliedTo = {} /\ AnswersTo = {}
      BY DEF Init, AppliedTo, AnswersTo
    <2>. QED
      BY <2>1, <2>2 DEF Updates!Init, Updates!Idle, Updates!NoDate, Updates!NoTime, Updates!Chats,
                        Idle, NoDate, NoTime, Chats, InHand, TakenAt, AppliedTo, AnswersTo
  <1>2. IInv /\ [Next]_vars => [Updates!Next]_(Updates!vars)
    <2>. SUFFICES ASSUME IInv, [Next]_vars PROVE Updates!Next \/ UNCHANGED UpdateVars
      BY DEF UpdateVars, Updates!vars
    <2>0. Typed /\ EvidenceFirst /\ TimeRunsOn
      BY IInvIs DEF Told
    <2>1. ASSUME UNCHANGED <<outbox, log>> PROVE UNCHANGED <<AppliedTo, AnswersTo>>
      BY <2>1 DEF AppliedTo, AnswersTo
    <2>2. ASSUME UNCHANGED <<pc, cur, now>> PROVE UNCHANGED <<InHand, TakenAt>>
      BY <2>2 DEF InHand, TakenAt
    <2>3. ASSUME pc # "act", pc' # "act" PROVE UNCHANGED <<InHand, TakenAt>>
      BY <2>3 DEF InHand, TakenAt
    <2>4. ASSUME NEW u \in Inputs, Send(u) PROVE Updates!Next
      <3>1. /\ sent' = Append(sent, u) /\ UNCHANGED <<clock, inbox, awaiting, rejected>>
            /\ UNCHANGED <<InHand, TakenAt, AppliedTo, AnswersTo>>
        BY <2>1, <2>2, <2>4 DEF Send, database, handling
      <3>2. Updates!Send(u)
        BY <3>1 DEF Updates!Send, InHand, TakenAt, AppliedTo, AnswersTo
      <3>. QED
        BY <3>2 DEF Updates!Next
    <2>5. ASSUME Tick PROVE Updates!Next
      <3>1. /\ clock' = clock + 1 /\ UNCHANGED <<sent, inbox, awaiting, rejected>>
            /\ UNCHANGED <<InHand, TakenAt, AppliedTo, AnswersTo>>
        BY <2>1, <2>2, <2>5 DEF Tick, telegram, database, handling
      <3>2. Updates!Tick
        BY <3>1 DEF Updates!Tick, InHand, TakenAt, AppliedTo, AnswersTo
      <3>. QED
        BY <3>2 DEF Updates!Next
    <2>6. ASSUME Crash \/ Duplicate \/ RecordFails \/ Fails
          PROVE  Updates!Next \/ UNCHANGED UpdateVars
      <3>1. /\ pc' = "idle" /\ UNCHANGED <<clock, sent, inbox, outbox, awaiting, rejected, log>>
        BY <2>6 DEF Crash, Duplicate, RecordFails, Fails, End, telegram, database
      <3>2. CASE pc = "act"
        <4>1. InHand # 0 /\ InHand' = 0 /\ TakenAt' = NoTime
          BY <2>0, <3>1, <3>2, Ranges DEF InHand, TakenAt, Typed
        <4>2. Updates!GiveUp
          BY <2>1, <3>1, <4>1
             DEF Updates!GiveUp, InHand, TakenAt, AppliedTo, AnswersTo, Updates!NoTime, NoTime
        <4>. QED
          BY <4>2 DEF Updates!Next
      <3>3. CASE pc # "act"
        BY <2>1, <2>3, <3>1, <3>3 DEF UpdateVars
      <3>. QED
        BY <3>2, <3>3
    <2>7. ASSUME (\E id \in held : Deliver(id)) \/ (\E id \in batch : Take(id))
          PROVE  UNCHANGED UpdateVars
      <3>1. /\ pc # "act" /\ pc' # "act"
            /\ UNCHANGED <<clock, sent, inbox, outbox, awaiting, rejected, log>>
        BY <2>7 DEF Deliver, Take, telegram, database
      <3>. QED
        BY <2>1, <2>3, <3>1 DEF UpdateVars
    <2>8. ASSUME \/ Fetch \/ FetchFails \/ FetchBreaks \/ UNCHANGED vars
                 \/ Tell \/ SetAwaiting \/ ClearAwaiting \/ Apply(TRUE) \/ Apply(FALSE)
          PROVE  UNCHANGED UpdateVars
      <3>1. UNCHANGED <<clock, sent, inbox, outbox, awaiting, rejected, log, pc, cur, now>>
        BY <2>8 DEF Fetch, FetchFails, FetchBreaks, Tell, SetAwaiting, ClearAwaiting, Apply,
                    telegram, database, handling, vars
      <3>. QED
        BY <2>1, <2>2, <3>1 DEF UpdateVars
    <2>9. ASSUME Record PROVE Updates!Next
      <3>1. /\ pc = "record" /\ pc' = "act" /\ cur \notin inbox /\ inbox' = inbox \cup {cur}
            /\ UNCHANGED <<clock, sent, outbox, awaiting, rejected, log, cur, now>>
        BY <2>9 DEF Record, Recorded, telegram
      <3>2. InHand = 0 /\ InHand' = cur /\ TakenAt' = now
        BY <3>1 DEF InHand, TakenAt
      <3>3. now <= clock /\ \A c \in Chats : awaiting[c].since <= now
        BY <2>0, <3>1 DEF TimeRunsOn
      <3>4. Updates!Record(cur, now)
        BY <2>1, <3>1, <3>2, <3>3
           DEF Updates!Record, InHand, TakenAt, AppliedTo, AnswersTo, Updates!Chats, Chats
      <3>5. cur \in DOMAIN sent /\ now \in 0 .. clock
        <4>1. cur \in 1 .. Len(sent) /\ now \in Time /\ clock \in Time /\ sent \in Seq(Update)
          BY <2>0, <3>1 DEF Typed, TypeOK
        <4>. QED
          BY <3>3, <4>1 DEF Time
      <3>. QED
        BY <3>4, <3>5 DEF Updates!Next
    <2>10. ASSUME Commit PROVE Updates!Next
      BY <2>10, CommitImplements
    <2>. QED
      BY <2>4, <2>5, <2>6, <2>7, <2>8, <2>9, <2>10 DEF Next, Receive, Process
  <1>. QED
    BY <1>1, <1>2, Invariance, PTL DEF Spec, ImplementsBotUpdates, Updates!Spec

=============================================================================
