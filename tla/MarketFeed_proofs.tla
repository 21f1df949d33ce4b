-------------------------- MODULE MarketFeed_proofs --------------------------
(***************************************************************************)
(* Subscriptions for any number of instruments, commands and drops: no     *)
(* data type is emitted without one, for calls in any order (EmitCorrect), *)
(* and sets, flags, handler and gateway agree when nothing is under way,   *)
(* for calls in the order they were made (AgreedCorrect).                  *)
(***************************************************************************)
EXTENDS MarketFeed, SequenceTheorems, TLAPS

\* What OnlySubscribed needs to be inductive: the shape of the sets and flags.
EmitInv ==
  /\ subscribed \in [Kinds -> SUBSET Instruments]
  /\ outputs \in [Instruments -> SUBSET BookKinds]
  /\ OnlySubscribed

\* _update_bidask_outputs_for never sets a flag without a subscription.
LEMMA UpdateSound ==
  ASSUME EmitInv, NEW x, Update(subscribed', x),
         subscribed' \in [Kinds -> SUBSET Instruments],
         \A i \in Instruments : i # x => \A k \in BookKinds : i \in subscribed[k] => i \in subscribed'[k]
  PROVE  EmitInv'
<1>1. \A i \in Instruments : outputs'[i] = IF i = x THEN OutputsFor(subscribed', x) ELSE outputs[i]
  BY DEF EmitInv, Update
<1>2. OutputsFor(subscribed', x) = {k \in BookKinds : x \in subscribed'[k]}
  BY DEF OutputsFor
<1>3. outputs' \in [Instruments -> SUBSET BookKinds]
  BY <1>2 DEF EmitInv, Update
<1>4. ASSUME NEW i \in Instruments, NEW k \in outputs'[i]
      PROVE  i \in subscribed'[k]
  BY <1>1, <1>2, <1>4 DEF EmitInv, OnlySubscribed
<1>5. QED
  BY <1>3, <1>4 DEF EmitInv, OnlySubscribed

LEMMA SubscribeSound ==
  ASSUME EmitInv, NEW k \in Kinds, NEW i \in Instruments, Subscribe(k, i)
  PROVE  EmitInv'
<1>1. subscribed' \in [Kinds -> SUBSET Instruments]
  BY DEF Subscribe, EmitInv
<1>2. \A l \in Kinds : subscribed[l] \subseteq subscribed'[l]
  BY DEF Subscribe, EmitInv
<1>3. CASE UNCHANGED outputs
  BY <1>1, <1>2, <1>3 DEF EmitInv, OnlySubscribed, Kinds
<1>4. CASE Update(subscribed', i)
  BY <1>1, <1>2, <1>4, UpdateSound DEF Kinds
<1>5. QED
  BY <1>3, <1>4 DEF Subscribe

LEMMA UnsubscribeSound ==
  ASSUME EmitInv, NEW k \in Kinds, NEW i \in Instruments, Unsubscribe(k, i)
  PROVE  EmitInv'
<1>1. subscribed' \in [Kinds -> SUBSET Instruments]
  BY DEF Unsubscribe, EmitInv
<1>2. \A l \in Kinds : subscribed'[l] = IF l = k THEN subscribed[l] \ {i} ELSE subscribed[l]
  BY DEF Unsubscribe, EmitInv
<1>3. CASE k = "trades"
  <2>1. outputs' = outputs /\ \A l \in BookKinds : subscribed'[l] = subscribed[l]
    BY <1>2, <1>3 DEF Unsubscribe, Kinds, BookKinds
  <2>2. QED
    BY <1>1, <2>1 DEF EmitInv, OnlySubscribed
<1>4. CASE k # "trades"
  <2>1. Update(subscribed', i)
    BY <1>4 DEF Unsubscribe
  <2>2. \A j \in Instruments : j # i => \A l \in BookKinds : j \in subscribed[l] => j \in subscribed'[l]
    BY <1>2 DEF Kinds
  <2>3. QED
    BY <1>1, <2>1, <2>2, UpdateSound
<1>5. QED
  BY <1>3, <1>4

LEMMA ResumeSound ==
  ASSUME EmitInv, NEW n, Resume(n)
  PROVE  EmitInv'
<1>1. subscribed' = subscribed
  BY DEF Resume
<1>2. CASE UNCHANGED outputs
  BY <1>1, <1>2 DEF EmitInv, OnlySubscribed
<1>3. CASE Update(subscribed, calls[n].topic[2])
  BY <1>1, <1>3, UpdateSound DEF EmitInv, Update
<1>4. QED
  BY <1>2, <1>3 DEF Resume

\* "The adapter only parses and delivers the data types with active
\* subscriptions" (_update_bidask_outputs_for, set_bidask_outputs).
THEOREM EmitCorrect == Spec => []OnlySubscribed
<1>1. Init => EmitInv
  BY DEF Init, EmitInv, OnlySubscribed
<1>2. EmitInv /\ [Next]_vars => EmitInv'
  <2> SUFFICES ASSUME EmitInv, [Next]_vars PROVE EmitInv'
    OBVIOUS
  <2>1. CASE Commands
    BY <2>1, SubscribeSound, UnsubscribeSound DEF Commands
  <2>2. CASE Tasks
    <3>1. PICK n \in 1 .. Len(calls) : SendCall(n) \/ Resume(n)
      BY <2>2 DEF Tasks
    <3>2. CASE SendCall(n)
      BY <3>2 DEF SendCall, EmitInv, OnlySubscribed
    <3>3. QED
      BY <3>1, <3>2, ResumeSound
  <2>3. CASE HandleCommand \/ HandleReconnected \/ Drop \/ Reconnect \/ UNCHANGED vars
    BY <2>3 DEF HandleCommand, HandleReconnected, Drop, Reconnect, vars, EmitInv, OnlySubscribed
  <2>4. QED
    BY <2>1, <2>2, <2>3 DEF Next
<1>3. EmitInv => OnlySubscribed
  BY DEF EmitInv
<1>4. QED
  BY <1>1, <1>2, <1>3, PTL DEF Spec

-----------------------------------------------------------------------------
(* The four copies agree                                                     *)

Last(s, n) == \A m \in 1 .. Len(s) : m > n => s[m].topic # s[n].topic

\* Among the calls s, is one on the topic t not sent? Is one among the commands s?
Pending(s, t) == \E n \in 1 .. Len(s) : ~s[n].sent /\ s[n].topic = t
Queued(s, t)  == \E n \in 1 .. Len(s) : s[n].topic = t

\* The latest word on a topic, wherever it is on its way, is what is wanted.
WordInv ==
  /\ \A m, n \in 1 .. Len(calls) : m < n /\ ~calls[m].sent => ~calls[n].sent
  /\ \A n \in 1 .. Len(calls) :
       ~calls[n].sent /\ Last(calls, n)
         => (calls[n].action = "subscribe" <=> calls[n].topic \in Wanted)
  /\ \A n \in 1 .. Len(channel) :
       ~Pending(calls, channel[n].topic) /\ Last(channel, n)
         => (channel[n].action = "subscribe" <=> channel[n].topic \in Wanted)
  /\ \A t \in Topics : ~Pending(calls, t) /\ ~Queued(channel, t) => (t \in tracked <=> t \in Wanted)

\* The gateway streams no more than the handler tracks, and all of it unless a
\* connection is being lost or resumed.
StreamInv ==
  /\ streamed \subseteq tracked
  /\ link /\ ~sentinel => streamed = tracked
  /\ ~link => streamed = {}

\* A flag that is missing is set by a call that is still awaited.
FlagInv ==
  \A i \in Instruments, k \in BookKinds :
    i \in subscribed[k] /\ k \notin outputs[i] =>
      \E n \in 1 .. Len(calls) : calls[n].action = "subscribe" /\ calls[n].topic = <<"bidask", i>>


-----------------------------------------------------------------------------
(* What the steps do to the calls and commands                               *)

LEMMA CallFields ==
  ASSUME TypeOK
  PROVE  /\ Len(calls) \in Nat /\ Len(channel) \in Nat
         /\ \A n \in 1 .. Len(calls) : calls[n] \in Call
         /\ \A n \in 1 .. Len(channel) : channel[n] \in Command
  BY ElementOfSeq, LenProperties DEF TypeOK

LEMMA Awaited ==
  ASSUME TypeOK, NEW a \in Actions, NEW t \in Topics, Await(a, t)
  PROVE  /\ calls' \in Seq(Call) /\ Len(calls') = Len(calls) + 1
         /\ \A n \in 1 .. Len(calls) : calls'[n] = calls[n]
         /\ calls'[Len(calls) + 1] = [action |-> a, topic |-> t, sent |-> FALSE]
<1>1. [action |-> a, topic |-> t, sent |-> FALSE] \in Call
  BY DEF Call
<1>. QED  BY <1>1, AppendProperties DEF Await, TypeOK

LEMMA SentCall ==
  ASSUME TypeOK, NEW n \in 1 .. Len(calls), SendCall(n)
  PROVE  /\ calls' \in Seq(Call) /\ Len(calls') = Len(calls)
         /\ \A m \in 1 .. Len(calls) :
              /\ calls'[m].action = calls[m].action /\ calls'[m].topic = calls[m].topic
              /\ calls'[m].sent = (m = n \/ calls[m].sent)
         /\ channel' \in Seq(Command) /\ Len(channel') = Len(channel) + 1
         /\ \A m \in 1 .. Len(channel) : channel'[m] = channel[m]
         /\ channel'[Len(channel) + 1] = [action |-> calls[n].action, topic |-> calls[n].topic]
<1>. DEFINE c == [calls[n] EXCEPT !.sent = TRUE]
<1>1. calls[n] \in Call
  BY CallFields
<1>2. /\ c \in Call /\ c.action = calls[n].action /\ c.topic = calls[n].topic /\ c.sent = TRUE
      /\ calls[n].action \in Actions /\ calls[n].topic \in Topics
  BY <1>1 DEF Call
<1>3. calls' = [calls EXCEPT ![n] = c]
  BY DEF SendCall
<1>. HIDE DEF c
<1>4. /\ calls' \in Seq(Call) /\ Len(calls') = Len(calls)
      /\ \A m \in 1 .. Len(calls) : calls'[m] = IF m = n THEN c ELSE calls[m]
  BY <1>2, <1>3, ExceptSeq DEF TypeOK
<1>5. \A m \in 1 .. Len(calls) : calls'[m].sent = (m = n \/ calls[m].sent)
  <2>. SUFFICES ASSUME NEW m \in 1 .. Len(calls)
                PROVE  calls'[m].sent = (m = n \/ calls[m].sent)
    OBVIOUS
  <2>1. calls[m].sent \in BOOLEAN
    BY CallFields DEF Call
  <2>2. CASE m = n
    BY <1>2, <1>4, <2>2
  <2>3. CASE m # n
    BY <1>4, <2>1, <2>3
  <2>. QED  BY <2>2, <2>3
<1>6. [action |-> calls[n].action, topic |-> calls[n].topic] \in Command
  BY <1>2 DEF Command
<1>7. /\ channel' \in Seq(Command) /\ Len(channel') = Len(channel) + 1
      /\ \A m \in 1 .. Len(channel) : channel'[m] = channel[m]
      /\ channel'[Len(channel) + 1] = [action |-> calls[n].action, topic |-> calls[n].topic]
  BY <1>6, AppendProperties DEF SendCall, TypeOK
<1>. QED  BY <1>2, <1>4, <1>5, <1>7

LEMMA Resumed ==
  ASSUME TypeOK, NEW n \in 1 .. Len(calls), Resume(n)
  PROVE  /\ calls' \in Seq(Call) /\ Len(calls') = Len(calls) - 1
         /\ \A m \in 1 .. Len(calls) - 1 : calls'[m] = IF m < n THEN calls[m] ELSE calls[m + 1]
<1>. DEFINE before == SubSeq(calls, 1, n - 1)
            after  == SubSeq(calls, n + 1, Len(calls))
<1>1. Len(calls) \in Nat /\ \A m \in 1 .. Len(calls) : calls[m] \in Call
  BY CallFields
<1>2. /\ before \in Seq(Call) /\ Len(before) = n - 1
      /\ \A m \in 1 .. n - 1 : before[m] = calls[m]
  BY <1>1, SubSeqProperties
<1>3. /\ after \in Seq(Call) /\ Len(after) = Len(calls) - n
      /\ \A m \in 1 .. Len(calls) - n : after[m] = calls[n + m]
  <2>1. /\ after \in Seq(Call)
        /\ Len(after) = IF n + 1 <= Len(calls) THEN Len(calls) - (n + 1) + 1 ELSE 0
        /\ \A m \in 1 .. Len(calls) - (n + 1) + 1 : after[m] = calls[n + 1 + m - 1]
    BY <1>1, SubSeqProperties
  <2>2. Len(after) = Len(calls) - n
    BY <1>1, <2>1
  <2>3. ASSUME NEW m \in 1 .. Len(calls) - n
        PROVE  after[m] = calls[n + m]
    <3>1. m \in 1 .. Len(calls) - (n + 1) + 1 /\ n + 1 + m - 1 = n + m
      BY <1>1
    <3>2. after[m] = calls[n + 1 + m - 1]
      BY <2>1, <3>1
    <3>. QED  BY <3>1, <3>2
  <2>. QED  BY <2>1, <2>2, <2>3
<1>4. calls' = before \o after
  BY DEF Resume
<1>. HIDE DEF before, after
<1>5. /\ calls' \in Seq(Call) /\ Len(calls') = Len(before) + Len(after)
      /\ \A m \in 1 .. Len(before) + Len(after) :
           calls'[m] = IF m <= Len(before) THEN before[m] ELSE after[m - Len(before)]
  BY <1>2, <1>3, <1>4, ConcatProperties
<1>6. ASSUME NEW m \in 1 .. Len(calls) - 1
      PROVE  calls'[m] = IF m < n THEN calls[m] ELSE calls[m + 1]
  <2>1. calls'[m] = IF m <= n - 1 THEN before[m] ELSE after[m - (n - 1)]
    <3>1. m \in 1 .. Len(before) + Len(after) /\ Len(before) = n - 1
      BY <1>1, <1>2, <1>3
    <3>. QED  BY <1>5, <3>1
  <2>2. CASE m < n
    BY <1>1, <1>2, <2>1, <2>2
  <2>3. CASE ~(m < n)
    <3>1. m - (n - 1) \in 1 .. Len(calls) - n /\ n + (m - (n - 1)) = m + 1
      BY <1>1, <2>3
    <3>2. after[m - (n - 1)] = calls[m + 1]
      BY <1>3, <3>1
    <3>. QED  BY <2>1, <2>3, <3>2
  <2>. QED  BY <2>2, <2>3
<1>. QED  BY <1>1, <1>2, <1>3, <1>5, <1>6

LEMMA Taken ==
  ASSUME TypeOK, HandleCommand
  PROVE  /\ channel' \in Seq(Command) /\ Len(channel') = Len(channel) - 1 /\ Len(channel) > 0
         /\ Head(channel) = channel[1] /\ channel[1] \in Command
         /\ \A n \in 1 .. Len(channel) - 1 : channel'[n] = channel[n + 1]
<1>1. channel \in Seq(Command) /\ channel # <<>>
  BY DEF TypeOK, HandleCommand
<1>2. Len(channel) \in Nat \ {0}
  BY <1>1, EmptySeq
<1>3. /\ channel' \in Seq(Command) /\ Len(channel') = Len(channel) - 1
      /\ \A n \in 1 .. Len(channel') : channel'[n] = channel[n + 1]
  BY <1>1, HeadTailProperties DEF HandleCommand
<1>. QED  BY <1>1, <1>2, <1>3, CallFields

LEMMA TopicOf ==
  ASSUME NEW k \in Kinds, NEW i \in Instruments
  PROVE  /\ Topic(k, i) \in Topics
         /\ k = "trades" => Topic(k, i) = <<"tick", i>>
         /\ k # "trades" => Topic(k, i) = <<"bidask", i>>
  BY DEF Topic, Topics

LEMMA TypeStep == TypeOK /\ [Next]_vars => TypeOK'
<1>. SUFFICES ASSUME TypeOK, [Next]_vars PROVE TypeOK'
  OBVIOUS
<1>1. ASSUME NEW k \in Kinds, NEW i \in Instruments, Subscribe(k, i) \/ Unsubscribe(k, i)
      PROVE  TypeOK'
  <2>1. subscribed' \in [Kinds -> SUBSET Instruments] /\ used' \in [{"commands", "drops"} -> Nat]
    BY <1>1 DEF Subscribe, Unsubscribe, Spend, TypeOK
  <2>2. outputs' \in [Instruments -> SUBSET BookKinds]
    <3>1. outputs' = outputs \/ Update(subscribed', i)
      BY <1>1 DEF Subscribe, Unsubscribe
    <3>2. OutputsFor(subscribed', i) \in SUBSET BookKinds
      BY DEF OutputsFor
    <3>. QED  BY <3>1, <3>2 DEF Update, TypeOK
  <2>3. calls' \in Seq(Call)
    <3>1. calls' = calls \/ \E a \in Actions : Await(a, Topic(k, i))
      BY <1>1 DEF Subscribe, Unsubscribe, Actions
    <3>. QED  BY <3>1, TopicOf, Awaited DEF TypeOK
  <2>. QED  BY <1>1, <2>1, <2>2, <2>3 DEF Subscribe, Unsubscribe, TypeOK
<1>2. ASSUME NEW n \in 1 .. Len(calls), SendCall(n)
      PROVE  TypeOK'
  BY <1>2, SentCall DEF SendCall, TypeOK
<1>3. ASSUME NEW n \in 1 .. Len(calls), Resume(n)
      PROVE  TypeOK'
  <2>1. outputs' \in [Instruments -> SUBSET BookKinds]
    <3>1. outputs' = outputs \/ \E x : Update(subscribed, x)
      BY <1>3 DEF Resume
    <3>. QED  BY <3>1 DEF Update, OutputsFor, TypeOK
  <2>2. calls' \in Seq(Call)
    BY <1>3, Resumed
  <2>. QED  BY <1>3, <2>1, <2>2 DEF Resume, TypeOK
<1>4. CASE HandleCommand
  <2>1. tracked' \in SUBSET Topics /\ streamed' \in SUBSET Topics
    <3>1. Head(channel).topic \in Topics
      BY <1>4, Taken DEF Command
    <3>. QED  BY <1>4, <3>1 DEF HandleCommand, Tracked, Streamed, TypeOK
  <2>2. channel' \in Seq(Command)
    BY <1>4, Taken
  <2>3. UNCHANGED <<subscribed, outputs, calls, link, sentinel, used>>
    BY <1>4 DEF HandleCommand
  <2>. QED  BY <2>1, <2>2, <2>3 DEF TypeOK
<1>5. CASE HandleReconnected
  BY <1>5 DEF HandleReconnected, ResubscribeAll, TypeOK
<1>6. CASE Drop
  <2>1. used' \in [{"commands", "drops"} -> Nat]
    <3>1. used["drops"] + 1 \in Nat
      BY DEF TypeOK
    <3>. QED  BY <1>6, <3>1 DEF Drop, Spend, TypeOK
  <2>. QED  BY <1>6, <2>1 DEF Drop, TypeOK
<1>7. CASE Reconnect \/ UNCHANGED vars
  BY <1>7 DEF Reconnect, vars, TypeOK
<1>. QED  BY <1>1, <1>2, <1>3, <1>4, <1>5, <1>6, <1>7 DEF Next, Commands, Tasks

-----------------------------------------------------------------------------
(* The latest word                                                           *)

\* What is wanted, topic by topic.
WantedIs ==
  \A i \in Instruments :
    /\ <<"tick", i>> \in Wanted <=> i \in subscribed["trades"]
    /\ <<"bidask", i>> \in Wanted <=> HasBidAsk(subscribed, i)

LEMMA WantedTopics == WantedIs
<1>. SUFFICES ASSUME NEW i \in Instruments
              PROVE  /\ <<"tick", i>> \in Wanted <=> i \in subscribed["trades"]
                     /\ <<"bidask", i>> \in Wanted <=> HasBidAsk(subscribed, i)
  BY DEF WantedIs
<1>1. \A t : t \in Wanted <=> \E k \in Kinds : \E j \in subscribed[k] : t = Topic(k, j)
  BY DEF Wanted
<1>2. \A k \in Kinds : \A j : Topic(k, j) = <<"tick", i>> <=> (k = "trades" /\ j = i)
  BY DEF Topic, Kinds, BookKinds
<1>3. \A k \in Kinds : \A j : Topic(k, j) = <<"bidask", i>> <=> (k # "trades" /\ j = i)
  BY DEF Topic, Kinds, BookKinds
<1>4. "trades" \in Kinds /\ \A k : k \in BookKinds <=> k \in Kinds /\ k # "trades"
  BY DEF Kinds, BookKinds
<1>5. <<"tick", i>> \in Wanted <=> i \in subscribed["trades"]
  BY <1>1, <1>2, <1>4
<1>6. <<"bidask", i>> \in Wanted <=> HasBidAsk(subscribed, i)
  BY <1>1, <1>3, <1>4 DEF HasBidAsk
<1>. QED  BY <1>5, <1>6

LEMMA WordKept ==
  ASSUME WordInv, UNCHANGED <<calls, channel, tracked>>, \A t \in Topics : t \in Wanted' <=> t \in Wanted,
         TypeOK
  PROVE  WordInv'
<1>1. \A t : Pending(calls', t) <=> Pending(calls, t)
  BY DEF Pending
<1>2. \A t : Queued(channel', t) <=> Queued(channel, t)
  BY DEF Queued
<1>3. /\ \A n \in 1 .. Len(calls) : calls[n].topic \in Topics
      /\ \A n \in 1 .. Len(channel) : channel[n].topic \in Topics
  BY CallFields DEF Call, Command
<1>. QED  BY <1>1, <1>2, <1>3 DEF WordInv, Last

\* A command that awaits a call: its word is the latest on its topic.
LEMMA WordAwait ==
  ASSUME TypeOK, WordInv, NEW a \in Actions, NEW t \in Topics, Await(a, t),
         UNCHANGED <<channel, tracked>>,
         \A s \in Topics : s # t => (s \in Wanted' <=> s \in Wanted),
         a = "subscribe" <=> t \in Wanted'
  PROVE  WordInv'
<1>1. /\ Len(calls) \in Nat /\ Len(calls') = Len(calls) + 1
      /\ \A n \in 1 .. Len(calls) : calls'[n] = calls[n] /\ calls[n].topic \in Topics
      /\ calls'[Len(calls) + 1].action = a /\ calls'[Len(calls) + 1].topic = t
      /\ ~calls'[Len(calls) + 1].sent
  <2>1. /\ Len(calls) \in Nat /\ Len(calls') = Len(calls) + 1
        /\ \A n \in 1 .. Len(calls) : calls'[n] = calls[n]
        /\ calls'[Len(calls) + 1] = [action |-> a, topic |-> t, sent |-> FALSE]
    BY Awaited, CallFields
  <2>2. \A n \in 1 .. Len(calls) : calls[n].topic \in Topics
    BY CallFields DEF Call
  <2>. QED  BY <2>1, <2>2
<1>2. Pending(calls', t)
  BY <1>1 DEF Pending
<1>3. \A s : s # t => (Pending(calls', s) <=> Pending(calls, s))
  BY <1>1 DEF Pending
<1>4. \A s : Queued(channel', s) <=> Queued(channel, s)
  BY DEF Queued
<1>5. ASSUME NEW m \in 1 .. Len(calls'), NEW n \in 1 .. Len(calls'), m < n, ~calls'[m].sent
      PROVE  ~calls'[n].sent
  <2>1. m \in 1 .. Len(calls) /\ ~calls[m].sent
    BY <1>1, <1>5
  <2>2. CASE n = Len(calls) + 1
    BY <1>1, <2>2
  <2>3. CASE n # Len(calls) + 1
    <3>1. n \in 1 .. Len(calls)
      BY <1>1, <2>3
    <3>. QED  BY <1>1, <1>5, <2>1, <3>1 DEF WordInv
  <2>. QED  BY <2>2, <2>3
<1>6. ASSUME NEW n \in 1 .. Len(calls'), ~calls'[n].sent, Last(calls', n)
      PROVE  calls'[n].action = "subscribe" <=> calls'[n].topic \in Wanted'
  <2>1. CASE n = Len(calls) + 1
    BY <1>1, <2>1
  <2>2. CASE n # Len(calls) + 1
    <3>1. n \in 1 .. Len(calls) /\ calls'[n] = calls[n] /\ Len(calls) + 1 > n
      BY <1>1, <2>2
    <3>2. calls[n].topic # t
      BY <1>1, <1>6, <3>1 DEF Last
    <3>3. Last(calls, n)
      BY <1>1, <1>6, <3>1 DEF Last
    <3>. QED  BY <1>1, <1>6, <3>1, <3>2, <3>3 DEF WordInv
  <2>. QED  BY <2>1, <2>2
<1>7. ASSUME NEW n \in 1 .. Len(channel'), ~Pending(calls', channel'[n].topic), Last(channel', n)
      PROVE  channel'[n].action = "subscribe" <=> channel'[n].topic \in Wanted'
  <2>1. channel[n].topic # t /\ ~Pending(calls, channel[n].topic) /\ channel[n].topic \in Topics
    BY <1>2, <1>3, <1>7, CallFields DEF Command
  <2>. QED  BY <1>7, <2>1 DEF WordInv
<1>8. \A s \in Topics : ~Pending(calls', s) /\ ~Queued(channel', s) => (s \in tracked' <=> s \in Wanted')
  BY <1>2, <1>3, <1>4 DEF WordInv
<1>. QED  BY <1>5, <1>6, <1>7, <1>8 DEF WordInv

\* The call sent first is the first that was made: its command takes its place.
LEMMA WordSend ==
  ASSUME TypeOK, InOrder, WordInv, NEW n \in 1 .. Len(calls), SendCall(n),
         \A s \in Topics : s \in Wanted' <=> s \in Wanted
  PROVE  WordInv'
<1>. DEFINE t == calls[n].topic
<1>1. /\ Len(calls) \in Nat /\ Len(calls') = Len(calls) /\ tracked' = tracked
      /\ \A m \in 1 .. Len(calls) :
           /\ calls'[m].action = calls[m].action /\ calls'[m].topic = calls[m].topic
           /\ calls'[m].sent <=> (m = n \/ calls[m].sent)
           /\ calls[m].topic \in Topics
  BY SentCall, CallFields DEF Call, SendCall
<1>2. /\ Len(channel) \in Nat /\ Len(channel') = Len(channel) + 1
      /\ \A m \in 1 .. Len(channel) : channel'[m] = channel[m]
      /\ channel'[Len(channel) + 1].action = calls[n].action
      /\ channel'[Len(channel) + 1].topic = t
  <2>1. channel'[Len(channel) + 1] = [action |-> calls[n].action, topic |-> calls[n].topic]
    BY SentCall
  <2>2. /\ Len(channel) \in Nat /\ Len(channel') = Len(channel) + 1
        /\ \A m \in 1 .. Len(channel) : channel'[m] = channel[m]
    BY SentCall, CallFields
  <2>. QED  BY <2>1, <2>2
<1>3. ~calls[n].sent /\ \A m \in 1 .. Len(calls) : m < n => calls[m].sent
  BY DEF SendCall
<1>4. \A l, m \in 1 .. Len(calls') : l < m /\ ~calls'[l].sent => ~calls'[m].sent
  BY <1>1, <1>3 DEF WordInv
<1>5. ASSUME NEW m \in 1 .. Len(calls'), ~calls'[m].sent, Last(calls', m)
      PROVE  calls'[m].action = "subscribe" <=> calls'[m].topic \in Wanted'
  <2>1. ~calls[m].sent /\ Last(calls, m)
    BY <1>1, <1>5 DEF Last
  <2>. QED  BY <1>1, <2>1 DEF WordInv
<1>6. \A s : s # t => (Pending(calls', s) <=> Pending(calls, s))
  BY <1>1 DEF Pending
<1>7. ~Pending(calls', t) => Last(calls, n)
  <2>. SUFFICES ASSUME NEW m \in 1 .. Len(calls), m > n, calls[m].topic = t
                PROVE  Pending(calls', t)
    BY DEF Last
  <2>1. ~calls[m].sent /\ m # n
    BY <1>3 DEF WordInv
  <2>2. ~calls'[m].sent /\ calls'[m].topic = t /\ m \in 1 .. Len(calls')
    BY <1>1, <2>1
  <2>. QED  BY <2>2 DEF Pending
<1>8. ASSUME NEW m \in 1 .. Len(channel'), ~Pending(calls', channel'[m].topic), Last(channel', m)
      PROVE  channel'[m].action = "subscribe" <=> channel'[m].topic \in Wanted'
  <2>1. CASE m = Len(channel) + 1
    BY <1>1, <1>2, <1>3, <1>7, <1>8, <2>1 DEF WordInv
  <2>2. CASE m # Len(channel) + 1
    <3>1. m \in 1 .. Len(channel) /\ channel'[m] = channel[m] /\ Len(channel) + 1 > m
      BY <1>2, <2>2
    <3>2. channel[m].topic # t /\ Last(channel, m)
      BY <1>2, <1>8, <3>1 DEF Last
    <3>3. ~Pending(calls, channel[m].topic) /\ channel[m].topic \in Topics
      BY <1>6, <1>8, <3>1, <3>2, CallFields DEF Command
    <3>. QED  BY <3>1, <3>2, <3>3 DEF WordInv
  <2>. QED  BY <2>1, <2>2
<1>9. ASSUME NEW s \in Topics, ~Pending(calls', s), ~Queued(channel', s)
      PROVE  s \in tracked' <=> s \in Wanted'
  <2>1. s # t /\ ~Queued(channel, s)
    BY <1>2, <1>9 DEF Queued
  <2>. QED  BY <1>1, <1>6, <1>9, <2>1 DEF WordInv
<1>. QED  BY <1>4, <1>5, <1>8, <1>9 DEF WordInv

LEMMA WordResume ==
  ASSUME TypeOK, WordInv, NEW n \in 1 .. Len(calls), Resume(n),
         \A s \in Topics : s \in Wanted' <=> s \in Wanted
  PROVE  WordInv'
<1>1. /\ Len(calls) \in Nat /\ Len(calls') = Len(calls) - 1
      /\ \A m \in 1 .. Len(calls) - 1 : calls'[m] = IF m < n THEN calls[m] ELSE calls[m + 1]
      /\ UNCHANGED <<channel, tracked>> /\ calls[n].sent
      /\ \A m \in 1 .. Len(calls) : calls[m].topic \in Topics
  BY Resumed, CallFields DEF Resume, Call
\* What is not sent comes after the call that returns.
<1>2. \A m \in 1 .. Len(calls) : ~calls[m].sent => m > n
  BY <1>1 DEF WordInv
<1>3. \A m \in 1 .. Len(calls) - 1 : ~calls'[m].sent => m >= n /\ calls'[m] = calls[m + 1]
  BY <1>1, <1>2
<1>4. \A s : Pending(calls', s) <=> Pending(calls, s)
  <2>. SUFFICES ASSUME NEW s
                PROVE  Pending(calls', s) <=> Pending(calls, s)
    OBVIOUS
  <2>1. ASSUME Pending(calls', s)
        PROVE  Pending(calls, s)
    <3>1. PICK m \in 1 .. Len(calls') : ~calls'[m].sent /\ calls'[m].topic = s
      BY <2>1 DEF Pending
    <3>2. m + 1 \in 1 .. Len(calls) /\ calls'[m] = calls[m + 1]
      BY <1>1, <1>3, <3>1
    <3>. QED  BY <3>1, <3>2 DEF Pending
  <2>2. ASSUME Pending(calls, s)
        PROVE  Pending(calls', s)
    <3>1. PICK m \in 1 .. Len(calls) : ~calls[m].sent /\ calls[m].topic = s
      BY <2>2 DEF Pending
    <3>2. /\ m - 1 \in 1 .. Len(calls') /\ m - 1 \in 1 .. Len(calls) - 1
          /\ ~(m - 1 < n) /\ (m - 1) + 1 = m
      BY <1>1, <1>2, <3>1
    <3>3. calls'[m - 1] = calls[m]
      BY <1>1, <3>2
    <3>. QED  BY <3>1, <3>2, <3>3 DEF Pending
  <2>. QED  BY <2>1, <2>2
<1>5. ASSUME NEW l \in 1 .. Len(calls'), NEW m \in 1 .. Len(calls'), l < m, ~calls'[l].sent
      PROVE  ~calls'[m].sent
  <2>1. calls'[l] = calls[l + 1] /\ l >= n
    BY <1>1, <1>3, <1>5
  <2>2. calls'[m] = calls[m + 1] /\ l + 1 \in 1 .. Len(calls) /\ m + 1 \in 1 .. Len(calls)
    BY <1>1, <1>5, <2>1
  <2>. QED  BY <1>5, <2>1, <2>2 DEF WordInv
<1>6. ASSUME NEW m \in 1 .. Len(calls'), ~calls'[m].sent, Last(calls', m)
      PROVE  calls'[m].action = "subscribe" <=> calls'[m].topic \in Wanted'
  <2>1. calls'[m] = calls[m + 1] /\ m >= n /\ m + 1 \in 1 .. Len(calls)
    BY <1>1, <1>3, <1>6
  <2>2. ASSUME NEW l \in 1 .. Len(calls), l > m + 1
        PROVE  calls[l].topic # calls[m + 1].topic
    <3>1. /\ l - 1 \in 1 .. Len(calls') /\ l - 1 \in 1 .. Len(calls) - 1
          /\ ~(l - 1 < n) /\ (l - 1) + 1 = l /\ l - 1 > m
      BY <1>1, <2>1, <2>2
    <3>2. calls'[l - 1] = calls[l]
      BY <1>1, <3>1
    <3>. QED  BY <1>6, <2>1, <3>1, <3>2 DEF Last
  <2>3. Last(calls, m + 1)
    BY <2>2 DEF Last
  <2>. QED  BY <1>1, <1>6, <2>1, <2>3 DEF WordInv
<1>7. ASSUME NEW m \in 1 .. Len(channel'), ~Pending(calls', channel'[m].topic), Last(channel', m)
      PROVE  channel'[m].action = "subscribe" <=> channel'[m].topic \in Wanted'
  <2>1. ~Pending(calls, channel[m].topic) /\ Last(channel, m) /\ channel[m].topic \in Topics
    BY <1>1, <1>4, <1>7, CallFields DEF Command
  <2>. QED  BY <1>1, <2>1 DEF WordInv
<1>8. \A s \in Topics : ~Pending(calls', s) /\ ~Queued(channel', s) => (s \in tracked' <=> s \in Wanted')
  BY <1>1, <1>4 DEF WordInv, Queued
<1>. QED  BY <1>5, <1>6, <1>7, <1>8 DEF WordInv

\* The handler hears the oldest command; later words on its topic still stand.
LEMMA WordHandle ==
  ASSUME TypeOK, WordInv, HandleCommand, \A s \in Topics : s \in Wanted' <=> s \in Wanted
  PROVE  WordInv'
<1>1. /\ Len(channel) \in Nat /\ Len(channel') = Len(channel) - 1 /\ Len(channel) > 0
      /\ \A n \in 1 .. Len(channel) - 1 : channel'[n] = channel[n + 1]
      /\ \A n \in 1 .. Len(channel) : channel[n].topic \in Topics
      /\ \A n \in 1 .. Len(calls) : calls[n].topic \in Topics
      /\ calls' = calls
  BY Taken, CallFields DEF HandleCommand, Command, Call
<1>2. tracked' = IF channel[1].action = "subscribe" THEN tracked \cup {channel[1].topic}
                                                   ELSE tracked \ {channel[1].topic}
  BY Taken DEF HandleCommand, Tracked
<1>3. \A s : Pending(calls', s) <=> Pending(calls, s)
  BY <1>1 DEF Pending
<1>4. \A n \in 1 .. Len(calls') : ~calls'[n].sent /\ Last(calls', n)
        => (calls'[n].action = "subscribe" <=> calls'[n].topic \in Wanted')
  BY <1>1 DEF WordInv
<1>5. ASSUME NEW n \in 1 .. Len(channel'), ~Pending(calls', channel'[n].topic), Last(channel', n)
      PROVE  channel'[n].action = "subscribe" <=> channel'[n].topic \in Wanted'
  <2>1. channel'[n] = channel[n + 1] /\ n + 1 \in 1 .. Len(channel)
    BY <1>1
  <2>2. ASSUME NEW m \in 1 .. Len(channel), m > n + 1
        PROVE  channel[m].topic # channel[n + 1].topic
    <3>1. /\ m - 1 \in 1 .. Len(channel') /\ m - 1 \in 1 .. Len(channel) - 1
          /\ (m - 1) + 1 = m /\ m - 1 > n
      BY <1>1, <2>2
    <3>2. channel'[m - 1] = channel[m]
      BY <1>1, <3>1
    <3>. QED  BY <1>5, <2>1, <3>1, <3>2 DEF Last
  <2>3. Last(channel, n + 1)
    BY <2>2 DEF Last
  <2>. QED  BY <1>1, <1>3, <1>5, <2>1, <2>3 DEF WordInv
<1>6. ASSUME NEW s \in Topics, ~Pending(calls', s), ~Queued(channel', s)
      PROVE  s \in tracked' <=> s \in Wanted'
  <2>1. ~Pending(calls, s)
    BY <1>3, <1>6
  <2>2. ASSUME NEW n \in 1 .. Len(channel), n # 1
        PROVE  channel[n].topic # s
    <3>1. n - 1 \in 1 .. Len(channel') /\ n - 1 \in 1 .. Len(channel) - 1 /\ (n - 1) + 1 = n
      BY <1>1, <2>2
    <3>2. channel'[n - 1] = channel[n]
      BY <1>1, <3>1
    <3>. QED  BY <1>6, <3>1, <3>2 DEF Queued
  <2>3. CASE channel[1].topic = s
    <3>1. Last(channel, 1) /\ 1 \in 1 .. Len(channel)
      BY <1>1, <2>2, <2>3 DEF Last
    <3>2. channel[1].action = "subscribe" <=> s \in Wanted
      BY <2>1, <2>3, <3>1 DEF WordInv
    <3>. QED  BY <1>2, <2>3, <3>2
  <2>4. CASE channel[1].topic # s
    <3>1. ~Queued(channel, s)
      BY <2>2, <2>4 DEF Queued
    <3>. QED  BY <1>2, <2>1, <2>4, <3>1 DEF WordInv
  <2>. QED  BY <2>3, <2>4
<1>. QED  BY <1>1, <1>4, <1>5, <1>6 DEF WordInv

LEMMA WordStep ==
  ASSUME InOrder, TypeOK, TypeOK', WordInv, [Next]_vars
  PROVE  WordInv'
<1>1. ASSUME NEW k \in Kinds, NEW i \in Instruments, Subscribe(k, i) \/ Unsubscribe(k, i)
      PROVE  WordInv'
  <2>. DEFINE t == Topic(k, i)
  <2>1. /\ t \in Topics /\ UNCHANGED <<channel, tracked>>
        /\ \A l \in Kinds : l # k => subscribed'[l] = subscribed[l]
        /\ \A j \in Instruments : j # i => (j \in subscribed'[k] <=> j \in subscribed[k])
    BY <1>1, TopicOf DEF Subscribe, Unsubscribe, TypeOK
  <2>2. \A j \in Instruments :
          /\ <<"tick", j>> \in Wanted <=> j \in subscribed["trades"]
          /\ <<"bidask", j>> \in Wanted <=> HasBidAsk(subscribed, j)
          /\ <<"tick", j>> \in Wanted' <=> j \in subscribed'["trades"]
          /\ <<"bidask", j>> \in Wanted' <=> HasBidAsk(subscribed', j)
    <3>1. WantedIs /\ WantedIs'
      BY WantedTopics, PTL
    <3>. QED  BY <3>1 DEF WantedIs, HasBidAsk
  <2>3. \A s \in Topics : s # t => (s \in Wanted' <=> s \in Wanted)
    <3>. SUFFICES ASSUME NEW s \in Topics, s # t
                  PROVE  s \in Wanted' <=> s \in Wanted
      OBVIOUS
    <3>1. PICK j \in Instruments : s = <<"tick", j>> \/ s = <<"bidask", j>>
      BY DEF Topics
    <3>2. CASE s = <<"tick", j>>
      <4>1. k # "trades" \/ j # i
        BY <3>2 DEF Topic
      <4>2. j \in subscribed'["trades"] <=> j \in subscribed["trades"]
        BY <2>1, <4>1 DEF Kinds
      <4>. QED  BY <2>2, <3>2, <4>2
    <3>3. CASE s = <<"bidask", j>>
      <4>1. k = "trades" \/ j # i
        BY <3>3 DEF Topic
      <4>2. \A l \in BookKinds : j \in subscribed'[l] <=> j \in subscribed[l]
        BY <2>1, <4>1 DEF Kinds, BookKinds
      <4>3. HasBidAsk(subscribed', j) <=> HasBidAsk(subscribed, j)
        BY <4>2 DEF HasBidAsk
      <4>. QED  BY <2>2, <3>3, <4>3
    <3>. QED  BY <3>1, <3>2, <3>3
  <2>4. CASE Subscribe(k, i)
    <3>1. t \in Wanted'
      <4>1. i \in subscribed'[k]
        BY <2>4 DEF Subscribe, TypeOK
      <4>. QED  BY <2>2, <4>1 DEF Topic, HasBidAsk, Kinds
    <3>2. CASE Await("subscribe", t)
      BY <2>1, <2>3, <3>1, <3>2, WordAwait DEF Actions
    <3>3. CASE k # "trades" /\ HasBidAsk(subscribed, i) /\ UNCHANGED calls
      <4>1. t \in Wanted
        BY <2>2, <3>3 DEF Topic
      <4>. QED  BY <2>1, <2>3, <3>1, <3>3, <4>1, WordKept
    <3>. QED  BY <2>4, <3>2, <3>3 DEF Subscribe
  <2>5. CASE Unsubscribe(k, i)
    <3>1. i \notin subscribed'[k] /\ i \in subscribed[k]
      BY <2>5 DEF Unsubscribe, TypeOK
    <3>2. CASE k = "trades" \/ ~HasBidAsk(subscribed', i)
      <4>1. t \notin Wanted'
        BY <2>2, <3>1, <3>2 DEF Topic
      <4>2. Await("unsubscribe", t)
        BY <2>5, <3>2 DEF Unsubscribe
      <4>. QED  BY <2>1, <2>3, <4>1, <4>2, WordAwait DEF Actions
    <3>3. CASE k # "trades" /\ HasBidAsk(subscribed', i)
      <4>1. t \in Wanted' /\ t \in Wanted
        BY <2>2, <3>1, <3>3 DEF Topic, HasBidAsk, Kinds
      <4>2. UNCHANGED calls
        BY <2>5, <3>3 DEF Unsubscribe
      <4>. QED  BY <2>1, <2>3, <4>1, <4>2, WordKept
    <3>. QED  BY <3>2, <3>3
  <2>. QED  BY <1>1, <2>4, <2>5
<1>2. ASSUME UNCHANGED subscribed
      PROVE  Wanted' = Wanted
  BY <1>2 DEF Wanted
<1>3. ASSUME NEW n \in 1 .. Len(calls), SendCall(n)
      PROVE  WordInv'
  BY <1>2, <1>3, WordSend DEF SendCall
<1>4. ASSUME NEW n \in 1 .. Len(calls), Resume(n)
      PROVE  WordInv'
  BY <1>2, <1>4, WordResume DEF Resume
<1>5. CASE HandleCommand
  BY <1>2, <1>5, WordHandle DEF HandleCommand
<1>6. CASE HandleReconnected \/ Drop \/ Reconnect \/ UNCHANGED vars
  BY <1>2, <1>6, WordKept DEF HandleReconnected, Drop, Reconnect, vars
<1>. QED  BY <1>1, <1>3, <1>4, <1>5, <1>6 DEF Next, Commands, Tasks

LEMMA StreamStep ==
  ASSUME TypeOK, StreamInv, [Next]_vars
  PROVE  StreamInv'
<1>1. CASE UNCHANGED <<tracked, streamed, link, sentinel>>
  BY <1>1 DEF StreamInv
<1>2. CASE HandleCommand
  BY <1>2, Taken DEF HandleCommand, Tracked, Streamed, Command, Actions, StreamInv
<1>3. CASE HandleReconnected
  BY <1>3 DEF HandleReconnected, ResubscribeAll, StreamInv
<1>4. CASE Drop \/ Reconnect
  BY <1>4 DEF Drop, Reconnect, StreamInv
<1>. QED
  BY <1>1, <1>2, <1>3, <1>4 DEF Next, Commands, Tasks, Subscribe, Unsubscribe, SendCall, Resume, vars

\* The flags of an instrument are only ever written whole.
LEMMA FlagStep ==
  ASSUME TypeOK, FlagInv, [Next]_vars
  PROVE  FlagInv'
<1>. DEFINE Told(s, i) == \E n \in 1 .. Len(s) : s[n].action = "subscribe" /\ s[n].topic = <<"bidask", i>>
<1>1. FlagInv <=> \A i \in Instruments, k \in BookKinds :
                    i \in subscribed[k] /\ k \notin outputs[i] => Told(calls, i)
  BY DEF FlagInv
<1>2. FlagInv' <=> \A i \in Instruments, k \in BookKinds :
                     i \in subscribed'[k] /\ k \notin outputs'[i] => Told(calls', i)
  BY DEF FlagInv
<1>3. ASSUME NEW x, Update(subscribed', x)
      PROVE  /\ \A i \in Instruments : i # x => outputs'[i] = outputs[i]
             /\ x \in Instruments => \A k \in BookKinds : x \in subscribed'[k] => k \in outputs'[x]
  BY <1>3 DEF Update, OutputsFor, TypeOK
<1>4. ASSUME NEW k \in Kinds, NEW i \in Instruments, Subscribe(k, i) \/ Unsubscribe(k, i)
      PROVE  FlagInv'
  <2>1. ASSUME NEW j \in Instruments, Told(calls, j)
        PROVE  Told(calls', j)
    <3>1. calls' = calls \/ \E a \in Actions : Await(a, Topic(k, i))
      BY <1>4 DEF Subscribe, Unsubscribe, Actions
    <3>2. /\ Len(calls) \in Nat /\ Len(calls') \in {Len(calls), Len(calls) + 1}
          /\ \A n \in 1 .. Len(calls) : calls'[n] = calls[n]
      BY <3>1, TopicOf, Awaited, CallFields
    <3>. QED  BY <2>1, <3>2
  <2>2. \A j \in Instruments, l \in BookKinds : j # i => (j \in subscribed'[l] <=> j \in subscribed[l])
    BY <1>4 DEF Subscribe, Unsubscribe, TypeOK, Kinds
  <2>3. CASE Update(subscribed', i)
    <3>. HIDE DEF Told
    <3>. QED  BY <1>1, <1>2, <1>3, <2>1, <2>2, <2>3
  <2>4. CASE UNCHANGED outputs
    <3>1. CASE k = "trades"
      <4>1. \A j \in Instruments, l \in BookKinds : j \in subscribed'[l] <=> j \in subscribed[l]
        BY <1>4, <3>1 DEF Subscribe, Unsubscribe, TypeOK, Kinds, BookKinds
      <4>. HIDE DEF Told
      <4>. QED  BY <1>1, <1>2, <2>1, <2>4, <4>1
    <3>2. CASE k # "trades" /\ ~Update(subscribed', i)
      <4>1. Await("subscribe", <<"bidask", i>>)
        BY <1>4, <3>2, TopicOf DEF Subscribe, Unsubscribe
      <4>2. Told(calls', i)
        <5>1. /\ Len(calls) \in Nat /\ Len(calls') = Len(calls) + 1
              /\ calls'[Len(calls) + 1] = [action |-> "subscribe", topic |-> <<"bidask", i>>, sent |-> FALSE]
          BY <4>1, Awaited, CallFields DEF Actions, Topics
        <5>. QED  BY <5>1
      <4>. HIDE DEF Told
      <4>. QED  BY <1>1, <1>2, <2>1, <2>2, <2>4, <4>2
    <3>. QED  BY <2>3, <3>1, <3>2
  <2>. QED  BY <1>4, <2>3, <2>4 DEF Subscribe, Unsubscribe
<1>5. ASSUME NEW n \in 1 .. Len(calls), SendCall(n)
      PROVE  FlagInv'
  <2>1. \A j : Told(calls', j) <=> Told(calls, j)
    BY <1>5, SentCall
  <2>. HIDE DEF Told
  <2>. QED  BY <1>1, <1>2, <1>5, <2>1 DEF SendCall
<1>6. ASSUME NEW n \in 1 .. Len(calls), Resume(n)
      PROVE  FlagInv'
  <2>1. /\ Len(calls) \in Nat /\ Len(calls') = Len(calls) - 1
        /\ \A m \in 1 .. Len(calls) - 1 : calls'[m] = IF m < n THEN calls[m] ELSE calls[m + 1]
    BY <1>6, Resumed, CallFields
  <2>2. ASSUME NEW j, Told(calls, j), ~(calls[n].action = "subscribe" /\ calls[n].topic = <<"bidask", j>>)
        PROVE  Told(calls', j)
    <3>1. PICK m \in 1 .. Len(calls) : calls[m].action = "subscribe" /\ calls[m].topic = <<"bidask", j>>
      BY <2>2
    <3>2. CASE m < n
      <4>1. m \in 1 .. Len(calls') /\ m \in 1 .. Len(calls) - 1
        BY <2>1, <3>2
      <4>. QED  BY <2>1, <3>1, <3>2, <4>1
    <3>3. CASE m > n
      <4>1. /\ m - 1 \in 1 .. Len(calls') /\ m - 1 \in 1 .. Len(calls) - 1
            /\ ~(m - 1 < n) /\ (m - 1) + 1 = m
        BY <2>1, <3>3
      <4>2. calls'[m - 1] = calls[m]
        BY <2>1, <4>1
      <4>. QED  BY <3>1, <4>1, <4>2
    <3>. QED  BY <2>2, <3>1, <3>2, <3>3
  <2>3. subscribed' = subscribed
    BY <1>6 DEF Resume
  <2>4. CASE calls[n].action = "subscribe" /\ calls[n].topic[1] = "bidask"
    <3>1. Update(subscribed', calls[n].topic[2])
      BY <1>6, <2>3, <2>4 DEF Resume
    <3>2. \A j \in Instruments : j # calls[n].topic[2] => calls[n].topic # <<"bidask", j>>
      OBVIOUS
    <3>. HIDE DEF Told
    <3>. QED  BY <1>1, <1>2, <1>3, <2>2, <2>3, <3>1, <3>2
  <2>5. CASE ~(calls[n].action = "subscribe" /\ calls[n].topic[1] = "bidask")
    <3>1. UNCHANGED outputs
      BY <1>6, <2>5 DEF Resume
    <3>2. \A j : ~(calls[n].action = "subscribe" /\ calls[n].topic = <<"bidask", j>>)
      BY <2>5
    <3>. HIDE DEF Told
    <3>. QED  BY <1>1, <1>2, <2>2, <2>3, <3>1, <3>2
  <2>. QED  BY <2>4, <2>5
<1>7. CASE HandleCommand \/ HandleReconnected \/ Drop \/ Reconnect \/ UNCHANGED vars
  BY <1>7 DEF HandleCommand, HandleReconnected, Drop, Reconnect, vars, FlagInv
<1>. QED  BY <1>4, <1>5, <1>6, <1>7 DEF Next, Commands, Tasks

-----------------------------------------------------------------------------
(* The theorems *)

LEMMA TypeInit == Init => TypeOK
<1>. SUFFICES ASSUME Init PROVE TypeOK
  OBVIOUS
<1>1. calls \in Seq(Call) /\ channel \in Seq(Command)
  BY EmptySeq DEF Init
<1>2. used \in [{"commands", "drops"} -> Nat]
  BY DEF Init
<1>. QED  BY <1>1, <1>2 DEF Init, TypeOK

\* Sets, flags, calls, commands and topics are what their names say.
THEOREM TypeCorrect == Spec => []TypeOK
  BY TypeInit, TypeStep, PTL DEF Spec

\* When nothing is under way, sets, flags, handler and gateway agree, for any
\* number of instruments, commands and drops, provided that awaited calls reach
\* the channel in the order they were made (_subscribe_*, _unsubscribe_*,
\* resubscribe_all).
THEOREM AgreedCorrect ==
  ASSUME InOrder
  PROVE  Spec => []Agreed
<1>1. Init => WordInv /\ StreamInv /\ FlagInv
  <2>. SUFFICES ASSUME Init PROVE WordInv /\ StreamInv /\ FlagInv
    OBVIOUS
  <2>1. Len(calls) = 0 /\ Len(channel) = 0 /\ Wanted = {} /\ tracked = {}
    BY DEF Init, Wanted
  <2>2. WordInv
    BY <2>1 DEF WordInv
  <2>. QED  BY <2>2 DEF Init, StreamInv, FlagInv, Kinds
<1>2. TypeOK /\ TypeOK' /\ WordInv /\ StreamInv /\ FlagInv /\ [Next]_vars
        => WordInv' /\ StreamInv' /\ FlagInv'
  BY WordStep, StreamStep, FlagStep
<1>3. TypeOK /\ OnlySubscribed /\ WordInv /\ StreamInv /\ FlagInv => Agreed
  <2>. SUFFICES ASSUME TypeOK, OnlySubscribed, WordInv, StreamInv, FlagInv, Quiet
                PROVE  /\ streamed = Wanted /\ tracked = Wanted
                       /\ \A i \in Instruments : outputs[i] = {k \in BookKinds : i \in subscribed[k]}
    BY DEF Agreed
  <2>1. Len(calls) = 0 /\ Len(channel) = 0 /\ link /\ ~sentinel
    BY DEF Quiet
  <2>2. \A t : ~Pending(calls, t) /\ ~Queued(channel, t)
    BY <2>1 DEF Pending, Queued
  <2>3. Wanted \subseteq Topics /\ tracked \subseteq Topics
    <3>1. ASSUME NEW t \in Wanted
          PROVE  t \in Topics
      <4>1. PICK k \in Kinds : \E i \in subscribed[k] : t = Topic(k, i)
        BY <3>1 DEF Wanted
      <4>2. PICK i \in Instruments : t = Topic(k, i)
        BY <4>1 DEF TypeOK
      <4>. QED  BY <4>2, TopicOf
    <3>. QED  BY <3>1 DEF TypeOK
  <2>4. \A t \in Topics : t \in tracked <=> t \in Wanted
    BY <2>2 DEF WordInv
  <2>5. tracked = Wanted
    BY <2>3, <2>4
  <2>6. ASSUME NEW i \in Instruments
        PROVE  outputs[i] = {k \in BookKinds : i \in subscribed[k]}
    <3>1. \A k \in BookKinds : i \in subscribed[k] => k \in outputs[i]
      BY <2>1 DEF FlagInv
    <3>. QED  BY <3>1 DEF TypeOK, OnlySubscribed
  <2>. QED  BY <2>1, <2>5, <2>6 DEF StreamInv
<1>. QED  BY <1>1, <1>2, <1>3, TypeCorrect, EmitCorrect, PTL DEF Spec
=============================================================================
