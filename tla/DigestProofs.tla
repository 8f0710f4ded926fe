---------------------------- MODULE DigestProofs ----------------------------
(***************************************************************************)
(* Proofs about the services around a run in Digest: the subscriptions and *)
(* their calls, the messages of the bot, and the brief and its             *)
(* notification; for all constants, sources, messages and faults.          *)
(***************************************************************************)
EXTENDS Digest, FiniteSetTheorems, SequenceTheorems, TLAPS

-----------------------------------------------------------------------------
(* Steps.                                                                  *)

\* What the steps of a run between the extraction and the webhooks leave alone.
LEMMA RunOnlySteps ==
    ASSUME StartRun \/ Resolve \/ StoreCanonical \/ StoreEvents \/ Select \/ WriteBrief \/ Speak
           \/ WriteOne \/ WriteRow \/ OutputsFail \/ PrepareCards \/ TellOne \/ RunFails
    PROVE  UNCHANGED <<hookVars, inboundVars, now, restarts>>
<1>1. CASE StartRun \/ Resolve \/ StoreCanonical \/ StoreEvents
  BY <1>1 DEF StartRun, Resolve, StoreCanonical, StoreEvents, RunOnly
<1>2. CASE Select \/ WriteBrief \/ Speak
  BY <1>2 DEF Select, WriteBrief, Speak, RunOnly
<1>3. CASE WriteOne \/ WriteRow \/ OutputsFail
  BY <1>3 DEF WriteOne, WriteRow, OutputsFail, RunOnly
<1>4. CASE PrepareCards \/ TellOne \/ RunFails
  BY <1>4 DEF PrepareCards, TellOne, RunFails, RunOnly
<1>5. QED
  BY <1>1, <1>2, <1>3, <1>4

\* What the steps of the others leave alone of a run.
LEMMA OtherSteps ==
    ASSUME Telegram \/ SendsUpdate \/ Pushed \/ OffsetNotSaved
           \/ BeginHooking \/ EndHooking \/ Reconfigure \/ TimePasses
    PROVE  UNCHANGED <<storyVars, outputVars, runVars, announced, restarts>>
<1>1. CASE Telegram \/ SendsUpdate \/ Pushed \/ OffsetNotSaved
  BY <1>1 DEF Telegram, SendsUpdate, Pushed, OffsetNotSaved, NoRun
<1>2. CASE BeginHooking \/ EndHooking \/ Reconfigure \/ TimePasses
  BY <1>2 DEF BeginHooking, EndHooking, Reconfigure, TimePasses, NoRun
<1>3. QED
  BY <1>1, <1>2

-----------------------------------------------------------------------------
(* Webhooks.                                                               *)

HookStep ==
    \/ UNCHANGED hookVars
    \/ \E w \in Hookers : LoadSubs(w)
    \/ \E w \in Hookers, id \in Subscriptions : Subscribe(w, id) \/ Unsubscribe(w, id)
    \/ ListSubs
    \/ \E id \in toCall, fails \in BOOLEAN : Call(id, fails)
    \/ EndCalls /\ UNCHANGED <<subs, hookLock, loaded, asked>>
    \/ CrashHooks

\* Every step is one of Webhooks or leaves its variables alone.
LEMMA HookSteps ==
    ASSUME [Next]_vars
    PROVE  HookStep
<1>1. CASE UNCHANGED vars
  BY <1>1 DEF vars, HookStep, hookVars
<1>2. CASE StartRun \/ OutputsFail \/ RunFails
  BY <1>2, RunOnlySteps DEF HookStep
<1>3. CASE RunStep
  <2>1. CASE Notified
    BY <2>1 DEF Notified, HookStep
  <2>2. CASE Publish
    BY <2>2 DEF Publish, HookStep
  <2>3. CASE CallOne
    BY <2>3 DEF CallOne, HookStep
  <2>4. CASE EndRun
    BY <2>4 DEF EndRun, HookStep
  <2>5. QED
    BY <1>3, <2>1, <2>2, <2>3, <2>4, RunOnlySteps DEF RunStep, HookStep
<1>4. CASE Telegram \/ SendsUpdate \/ Pushed \/ OffsetNotSaved
  BY <1>4 DEF Telegram, SendsUpdate, Pushed, OffsetNotSaved, HookStep
<1>5. CASE BeginHooking \/ EndHooking \/ Reconfigure \/ TimePasses
  BY <1>5 DEF BeginHooking, EndHooking, Reconfigure, TimePasses, HookStep
<1>6. CASE Crash
  BY <1>6 DEF Crash, HookStep
<1>7. QED
  BY <1>1, <1>2, <1>3, <1>4, <1>5, <1>6 DEF Next

\* A worker that has loaded the subscriptions holds the lock, and what it loaded
\* is still the file.
HookInv ==
    /\ asked = subs
    /\ \A w \in DOMAIN loaded : w \in Hookers /\ hookLock = w /\ loaded[w] = subs
    /\ toCall \cup called = listed

\* Every step of Webhooks keeps the loaded lists up to date.
LEMMA HookNext == HookInv /\ [Next]_vars => HookInv'
<1> SUFFICES ASSUME HookInv, HookStep
             PROVE  HookInv'
  BY HookSteps
<1> USE WebhooksAssumption DEF HookInv
<1>1. CASE UNCHANGED hookVars
  BY <1>1 DEF hookVars
<1>2. ASSUME NEW w \in Hookers, LoadSubs(w)
      PROVE  HookInv'
  BY <1>2 DEF LoadSubs
<1>3. ASSUME NEW w \in Hookers, NEW id \in Subscriptions, Subscribe(w, id)
      PROVE  HookInv'
  BY <1>3 DEF Subscribe, ReleaseHooks
<1>4. ASSUME NEW w \in Hookers, NEW id \in Subscriptions, Unsubscribe(w, id)
      PROVE  HookInv'
  BY <1>4 DEF Unsubscribe, ReleaseHooks
<1>5. CASE ListSubs
  BY <1>5 DEF ListSubs
<1>6. ASSUME NEW id \in toCall, NEW fails \in BOOLEAN, Call(id, fails)
      PROVE  HookInv'
  BY <1>6 DEF Call
<1>7. CASE EndCalls /\ UNCHANGED <<subs, hookLock, loaded, asked>>
  BY <1>7 DEF EndCalls
<1>8. CASE CrashHooks
  BY <1>8 DEF CrashHooks, EndCalls, NoLoads
<1>9. QED
  BY <1>1, <1>2, <1>3, <1>4, <1>5, <1>6, <1>7, <1>8 DEF HookStep

\* Initially nobody has subscribed.
LEMMA HookInit == Init => HookInv
BY DEF Init, WebhooksInit, HookInv, NoLoads

\* An acknowledged subscription stays in the file until it is removed, whatever
\* workers subscribe and unsubscribe at the same time (webhooks.py:62).
THEOREM SubscriptionsKept == Spec => []SubscriptionsAreKept
<1>1. HookInv => SubscriptionsAreKept
  BY DEF HookInv, SubscriptionsAreKept
<1>2. QED
  BY <1>1, HookInit, HookNext, PTL DEF Spec

\* A publication calls exactly those that were subscribed when it listed them
\* (webhooks.py:82).
THEOREM ListedCalled == Spec => []ListedAreCalled
<1>1. HookInv => ListedAreCalled
  BY DEF HookInv, ListedAreCalled
<1>2. QED
  BY <1>1, HookInit, HookNext, PTL DEF Spec

-----------------------------------------------------------------------------
(* The messages of the bot.                                                *)

BotVars == <<sent, confirmed, offset, saved, incoming, upTo, attempts>>

BotStep ==
    \/ UNCHANGED <<BotVars, restarts>>
    \/ UNCHANGED restarts /\ (Send \/ Poll)
    \/ UNCHANGED restarts /\ \E fails \in BOOLEAN : Handle(fails) \/ SaveOffset(fails)
    \/ CrashTelegram /\ restarts' = restarts + 1

\* Every step is one of the bot's or leaves its variables alone.
LEMMA BotSteps ==
    ASSUME [Next]_vars
    PROVE  BotStep
<1> USE DEF BotVars, inboundVars, telegramVars, inboxVars
<1>1. CASE UNCHANGED vars
  BY <1>1 DEF vars, BotStep
<1>2. CASE StartRun \/ OutputsFail \/ RunFails
  BY <1>2, RunOnlySteps DEF BotStep
<1>3. CASE RunStep
  <2>1. CASE Notified
    BY <2>1 DEF Notified, MarkBriefed, BotStep
  <2>2. CASE Publish \/ CallOne \/ EndRun
    BY <2>2 DEF Publish, CallOne, EndRun, BotStep
  <2>3. QED
    BY <1>3, <2>1, <2>2, RunOnlySteps DEF RunStep, BotStep
<1>4. CASE Telegram \/ SendsUpdate \/ OffsetNotSaved
  BY <1>4 DEF Telegram, SendsUpdate, OffsetNotSaved, BotStep
<1>5. CASE Pushed
  BY <1>5 DEF Pushed, Push, BotStep
<1>6. CASE BeginHooking \/ EndHooking \/ Reconfigure \/ TimePasses
  BY <1>6 DEF BeginHooking, EndHooking, Reconfigure, TimePasses, BotStep
<1>7. CASE Crash
  BY <1>7 DEF Crash, BotStep
<1>8. QED
  BY <1>1, <1>2, <1>3, <1>4, <1>5, <1>6, <1>7 DEF Next

\* The first update that the poll in progress, or the last one, has not handled.
Frontier == upTo - Len(incoming)

BotTypeOK ==
    /\ sent \in 0..Len(Updates)
    /\ confirmed \in 0..(sent + 1) /\ offset \in 0..(sent + 1)
    /\ saved \in 0..(sent + 1) /\ upTo \in 0..(sent + 1)
    /\ incoming \in Seq(1..sent)
    /\ attempts \in [1..Len(Updates) -> Nat]
    /\ restarts \in Nat

\* The updates of a poll are consecutive and end before the offset that will be
\* saved; what is behind the frontier or an offset was handled, and what is
\* ahead of it not since the last restart.
BotInv ==
    /\ BotTypeOK
    /\ \A i \in 1..Len(incoming) : incoming[i] = Frontier + i - 1
    /\ \A n \in 1..sent :
          (n < confirmed \/ n < offset \/ n < saved \/ n < Frontier) => attempts[n] > 0
    /\ \A n \in 1..Len(Updates) : attempts[n] <= restarts + (IF n < Frontier THEN 1 ELSE 0)

\* Every step of the bot keeps the frontier between what was handled and what
\* was not.
LEMMA BotNext == BotInv /\ [Next]_vars => BotInv'
<1> SUFFICES ASSUME BotInv, BotStep
             PROVE  BotInv'
  BY BotSteps
<1>0. /\ Updates \in Seq(Messages) /\ Len(Updates) \in Nat /\ DOMAIN Updates = 1..Len(Updates)
      /\ Len(incoming) \in Nat /\ DOMAIN incoming = 1..Len(incoming)
      /\ Frontier \in Int
  BY InboundAssumption, LenProperties DEF BotInv, BotTypeOK, Frontier
<1>1. CASE UNCHANGED <<BotVars, restarts>>
  BY <1>1 DEF BotInv, BotTypeOK, BotVars, Frontier
<1>2. CASE UNCHANGED restarts /\ Send
  <2>1. incoming \in Seq(1..(sent + 1))
    BY <1>0, SeqMonotonic DEF BotInv, BotTypeOK
  <2>2. QED
    BY <1>0, <1>2, <2>1 DEF BotInv, BotTypeOK, Frontier, Send, telegramVars
<1>3. CASE UNCHANGED restarts /\ Poll
  <2>1. /\ From \in 1..sent /\ From >= offset
        /\ \A n \in 1..sent : n < From => n < confirmed \/ n < offset
        /\ confirmed' \in 0..(sent + 1) /\ (confirmed' = confirmed \/ confirmed' = offset)
    BY <1>3, <1>0 DEF Poll, From, FirstLeft, BotInv, BotTypeOK
  <2>2. /\ incoming' \in Seq(1..sent)
        /\ Len(incoming') = sent - From + 1
        /\ \A i \in 1..Len(incoming') : incoming'[i] = From + i - 1
    BY <1>3, <1>0, <2>1 DEF Poll, BotInv, BotTypeOK
  <2>3. Frontier' = From /\ Frontier = offset
    BY <1>3, <1>0, <2>1, <2>2 DEF Poll, Frontier, BotInv, BotTypeOK
  <2>4. UNCHANGED <<sent, offset, saved, attempts, restarts>> /\ upTo' = sent + 1
    BY <1>3 DEF Poll
  <2>5. BotTypeOK'
    BY <1>0, <2>1, <2>2, <2>4 DEF BotInv, BotTypeOK
  <2>6. \A i \in 1..Len(incoming') : incoming'[i] = Frontier' + i - 1
    BY <2>2, <2>3
  <2>7. \A n \in 1..sent :
           (n < confirmed' \/ n < offset \/ n < saved \/ n < From) => attempts[n] > 0
    BY <2>1 DEF BotInv, BotTypeOK
  <2>8. \A n \in 1..Len(Updates) : attempts[n] <= restarts + (IF n < From THEN 1 ELSE 0)
    BY <1>0, <2>1, <2>3 DEF BotInv, BotTypeOK
  <2>9. QED
    BY <2>3, <2>4, <2>5, <2>6, <2>7, <2>8 DEF BotInv
<1>4. ASSUME NEW fails \in BOOLEAN, UNCHANGED restarts, Handle(fails)
      PROVE  BotInv'
  <2>0. incoming # <<>> /\ incoming \in Seq(1..sent) /\ sent \in 0..Len(Updates)
    BY <1>4 DEF Handle, BotInv, BotTypeOK
  <2>10. /\ Len(incoming) > 0 /\ Head(incoming) = incoming[1] /\ Head(incoming) \in 1..sent
         /\ Tail(incoming) \in Seq(1..sent) /\ Len(Tail(incoming)) = Len(incoming) - 1
         /\ \A i \in 1..Len(Tail(incoming)) : Tail(incoming)[i] = incoming[i + 1]
    BY <1>0, <2>0
  <2>1. Head(incoming) = Frontier /\ Frontier \in 1..sent
    BY <1>0, <2>10 DEF BotInv
  <2>2. /\ UNCHANGED <<sent, confirmed, offset, saved, upTo, restarts>>
        /\ incoming' = Tail(incoming)
        /\ attempts' = [attempts EXCEPT ![Frontier] = @ + 1]
    BY <1>4, <2>1 DEF Handle
  <2>3. Frontier' = Frontier + 1
    BY <1>0, <2>10, <2>2 DEF Frontier, BotInv, BotTypeOK
  <2>4. \A n \in 1..Len(Updates) :
           attempts'[n] = IF n = Frontier THEN attempts[n] + 1 ELSE attempts[n]
    BY <1>0, <2>1, <2>2 DEF BotInv, BotTypeOK
  <2>11. attempts' \in [1..Len(Updates) -> Nat]
    BY <1>0, <2>0, <2>1, <2>2 DEF BotInv, BotTypeOK
  <2>12. BotTypeOK'
    BY <2>10, <2>2, <2>11 DEF BotInv, BotTypeOK
  <2>5. \A i \in 1..Len(incoming') : incoming'[i] = Frontier' + i - 1
    <3> SUFFICES ASSUME NEW i \in 1..Len(Tail(incoming))
                 PROVE  Tail(incoming)[i] = Frontier + i
      BY <1>0, <2>2, <2>3
    <3>1. incoming[i + 1] = Frontier + (i + 1) - 1
      BY <1>0, <2>10 DEF BotInv
    <3>2. QED
      BY <1>0, <2>10, <3>1
  <2>6. \A n \in 1..sent : (n < confirmed \/ n < offset \/ n < saved \/ n < Frontier + 1)
           => attempts'[n] > 0
    <3> SUFFICES ASSUME NEW n \in 1..sent, n < confirmed \/ n < offset \/ n < saved \/ n < Frontier + 1
                 PROVE  attempts'[n] > 0
      OBVIOUS
    <3>1. n \in 1..Len(Updates) /\ attempts[n] \in Nat
      <4>1. Len(Updates) \in Nat /\ sent \in 0..Len(Updates) /\ attempts \in [1..Len(Updates) -> Nat]
        BY <1>0 DEF BotInv, BotTypeOK
      <4>2. QED
        BY <4>1
    <3>2. CASE n = Frontier
      BY <2>4, <3>1, <3>2
    <3>3. CASE n # Frontier
      BY <1>0, <2>1, <2>4, <3>1, <3>3 DEF BotInv
    <3>4. QED
      BY <3>2, <3>3
  <2>7. \A n \in 1..Len(Updates) : attempts'[n] <= restarts + (IF n < Frontier + 1 THEN 1 ELSE 0)
    <3> SUFFICES ASSUME NEW n \in 1..Len(Updates)
                 PROVE  attempts'[n] <= restarts + (IF n < Frontier + 1 THEN 1 ELSE 0)
      OBVIOUS
    <3>1. attempts[n] \in Nat /\ restarts \in Nat
      BY DEF BotInv, BotTypeOK
    <3>2. attempts[n] <= restarts + (IF n < Frontier THEN 1 ELSE 0)
      BY DEF BotInv
    <3>3. QED
      BY <1>0, <2>1, <2>4, <3>1, <3>2
  <2>8. QED
    BY <2>2, <2>3, <2>12, <2>5, <2>6, <2>7 DEF BotInv
<1>5. ASSUME NEW fails \in BOOLEAN, UNCHANGED restarts, SaveOffset(fails)
      PROVE  BotInv'
  BY <1>0, <1>5 DEF SaveOffset, BotInv, BotTypeOK, Frontier, inboxVars
<1>6. CASE CrashTelegram /\ restarts' = restarts + 1
  <2>1. /\ saved' \in {0, saved, upTo} /\ (saved' = upTo => saved' = saved \/ Frontier = upTo)
        /\ offset' = saved' /\ upTo' = saved' /\ incoming' = <<>>
        /\ UNCHANGED <<sent, confirmed, attempts>>
    BY <1>6, <1>0 DEF CrashTelegram, Frontier, BotInv, BotTypeOK
  <2>2. Frontier' = saved' /\ Len(incoming') = 0
    <3>1. saved' \in Int /\ upTo' = saved'
      BY <2>1 DEF BotInv, BotTypeOK
    <3>2. Len(incoming') = 0
      BY <2>1
    <3>3. Frontier' = upTo' - Len(incoming')
      BY DEF Frontier
    <3>4. \A k \in Int : k - 0 = k
      OBVIOUS
    <3>5. QED
      BY <3>1, <3>2, <3>3, <3>4
  <2>3. BotTypeOK'
    BY <1>6, <2>1, <2>2 DEF BotInv, BotTypeOK
  <2>4. \A n \in 1..sent : (n < confirmed \/ n < saved') => attempts[n] > 0
    BY <2>1 DEF BotInv
  <2>5. \A n \in 1..Len(Updates) : attempts[n] <= restarts + 1 + (IF n < saved' THEN 1 ELSE 0)
    <3> SUFFICES ASSUME NEW n \in 1..Len(Updates)
                 PROVE  attempts[n] <= restarts + 1 + (IF n < saved' THEN 1 ELSE 0)
      OBVIOUS
    <3>1. attempts[n] \in Nat /\ restarts \in Nat
      BY DEF BotInv, BotTypeOK
    <3>2. attempts[n] <= restarts + (IF n < Frontier THEN 1 ELSE 0)
      BY DEF BotInv
    <3>3. QED
      BY <3>1, <3>2
  <2>6. QED
    BY <1>6, <2>1, <2>2, <2>3, <2>4, <2>5 DEF BotInv
<1>7. QED
  BY <1>1, <1>2, <1>3, <1>4, <1>5, <1>6 DEF BotStep

\* Initially nobody has sent anything.
LEMMA BotInit == Init => BotInv
<1> SUFFICES ASSUME Init
             PROVE  BotInv
  OBVIOUS
<1>1. Len(Updates) \in Nat /\ DOMAIN Updates = 1..Len(Updates)
  BY InboundAssumption, LenProperties
<1>2. QED
  BY <1>1 DEF Init, InboundInit, BotInv, BotTypeOK, Frontier

\* No update is deleted from the bot API or passed by the offset before somebody
\* tried to handle it, whatever raises and whenever the process dies
\* (telegram_service.py:124).
THEOREM NoneIsSkipped == Spec => []NoUpdateIsSkipped
<1>1. BotInv => NoUpdateIsSkipped
  BY DEF BotInv, NoUpdateIsSkipped
<1>2. QED
  BY <1>1, BotInit, BotNext, PTL DEF Spec

\* An update is handled at most once between two restarts.
THEOREM OnceBetweenRestarts == Spec => []RepeatsNeedRestarts
<1>1. BotInv => RepeatsNeedRestarts
  BY InboundAssumption, LenProperties DEF BotInv, BotTypeOK, RepeatsNeedRestarts
<1>2. QED
  BY <1>1, BotInit, BotNext, PTL DEF Spec

-----------------------------------------------------------------------------
(* The stages of a run.                                                    *)

QuietStep ==
    \/ WriteOne \/ WriteRow \/ OutputsFail \/ Publish \/ CallOne
    \/ SendsUpdate \/ OffsetNotSaved \/ BeginHooking \/ EndHooking \/ TimePasses
    \/ UNCHANGED vars

\* What the steps of the outputs, of the webhooks and of the users leave alone.
LEMMA QuietSteps ==
    ASSUME QuietStep
    PROVE  /\ UNCHANGED <<storyVars, deliveryVars, run, selection, announced, tracked, briefed>>
           /\ \/ stage' = stage
              \/ stage \in Writing /\ stage' = After(stage)
              \/ stage \in Writing \cup {"rows"} /\ stage' = "cards"
              \/ stage = "publish" /\ stage' = "call"
<1> USE DEF inboundVars, inboxVars
<1>1. CASE WriteOne \/ WriteRow \/ OutputsFail
  BY <1>1 DEF WriteOne, WriteRow, OutputsFail, NoStory, NoDelivery, RunOnly
<1>2. CASE Publish \/ CallOne
  BY <1>2 DEF Publish, CallOne, NoStory, NoDelivery, runVars
<1>3. CASE SendsUpdate \/ OffsetNotSaved
  BY <1>3 DEF SendsUpdate, OffsetNotSaved, NoRun, NoDelivery, runVars, Send, SaveOffset
<1>4. CASE BeginHooking \/ EndHooking \/ TimePasses
  BY <1>4 DEF BeginHooking, EndHooking, TimePasses, NoRun, NoDelivery, runVars
<1>5. CASE UNCHANGED vars
  BY <1>5 DEF vars, runVars
<1>6. QED
  BY <1>1, <1>2, <1>3, <1>4, <1>5 DEF QuietStep

EndStep == EndRun \/ RunFails \/ Crash

\* The ways out of a run.
LEMMA EndSteps ==
    ASSUME EndStep
    PROVE  /\ ClearRun
           /\ UNCHANGED <<tracked, briefed>> \/ (tracked' = {} /\ briefed' = {})
<1>1. CASE EndRun
  BY <1>1 DEF EndRun, inboundVars, inboxVars
<1>2. CASE RunFails
  BY <1>2 DEF RunFails, RunOnly, inboundVars, inboxVars
<1>3. CASE Crash
  BY <1>3 DEF Crash, inboxVars
<1>4. QED
  BY <1>1, <1>2, <1>3 DEF EndStep

\* A message is handled.
MessageStep == Telegram \/ Pushed

\* A step is quiet, an end, a message, a new generator, or a stage of a run.
LEMMA Steps ==
    ASSUME [Next]_vars
    PROVE  \/ QuietStep \/ EndStep \/ MessageStep \/ Reconfigure
           \/ StartRun \/ Resolve \/ StoreCanonical \/ StoreEvents \/ Select
           \/ WriteBrief \/ Speak \/ PrepareCards \/ TellOne \/ Notified
BY DEF Next, RunStep, QuietStep, EndStep, MessageStep

Elsewhere == \E of, nth : ComposeElsewhere([ids |-> {}, of |-> of, nth |-> nth])

\* What a message changes: the inbox and the compositions.
LEMMA MessageSteps ==
    ASSUME BotInv, MessageStep
    PROVE  /\ UNCHANGED <<storyVars, runVars, announced, briefed, drafted, cards, noticeVars>>
           /\ \/ tracked' = tracked
              \/ \E message \in Messages : tracked' = tracked \cup {message.topic}
           /\ UNCHANGED <<blocks, cleared>> \/ Elsewhere
<1> USE DEF deliveryVars, noticeVars
<1>1. ASSUME NEW message \in Messages, NEW of, NEW nth, Store(message), Briefed(message, of, nth)
      PROVE  /\ tracked' = tracked \/ \E m \in Messages : tracked' = tracked \cup {m.topic}
             /\ UNCHANGED <<blocks, cleared>> \/ Elsewhere
             /\ UNCHANGED <<drafted, cards, noticeVars>>
  BY <1>1 DEF Store, Briefed, Elsewhere, ComposeElsewhere, NoDelivery
<1>2. CASE Pushed
  <2>1. PICK message \in Pushes : Push(message) /\ Briefed(message, 0, left.messages)
    BY <1>2 DEF Pushed
  <2>2. message \in Messages /\ Store(message) /\ UNCHANGED briefed
    BY <2>1, InboundAssumption DEF Push
  <2>3. UNCHANGED <<storyVars, runVars, announced>>
    BY <1>2 DEF Pushed, NoRun
  <2>4. QED
    BY <1>1, <2>1, <2>2, <2>3
<1>3. ASSUME Telegram, NEW fails \in BOOLEAN, Handle(fails)
      PROVE  Updates[Head(incoming)] \in Messages /\ UNCHANGED briefed
  <2>1. /\ incoming # <<>> /\ incoming \in Seq(1..sent)
        /\ Updates \in Seq(Messages) /\ sent \in 0..Len(Updates)
    BY <1>3, InboundAssumption DEF Handle, BotInv, BotTypeOK
  <2>2. Head(incoming) \in 1..Len(Updates)
    BY <2>1, HeadTailProperties, LenProperties
  <2>3. QED
    BY <1>3, <2>1, <2>2, ElementOfSeq DEF Handle
<1>4. CASE Telegram
  <2>1. UNCHANGED <<storyVars, runVars, announced>>
    BY <1>4 DEF Telegram, NoRun
  <2>2. CASE Handle(FALSE) /\ LET n == Head(incoming) IN Briefed(Updates[n], n, 1 + attempts[n])
    <3>1. Store(Updates[Head(incoming)])
      BY <2>2 DEF Handle
    <3>2. QED
      BY <1>1, <1>3, <1>4, <2>1, <2>2, <3>1
  <2>3. CASE Handle(TRUE) /\ NoDelivery
    BY <1>3, <1>4, <2>1, <2>3 DEF Handle, NoDelivery
  <2>4. CASE (Poll \/ SaveOffset(FALSE)) /\ NoDelivery
    BY <2>1, <2>4 DEF Poll, SaveOffset, inboxVars, NoDelivery
  <2>5. QED
    BY <1>4, <2>2, <2>3, <2>4 DEF Telegram
<1>5. QED
  BY <1>2, <1>4 DEF MessageStep

-----------------------------------------------------------------------------
(* What a run has selected.                                                *)

Unselected == {"idle", "resolve", "canonical", "events", "select"}
Noticed == {"notify", "publish", "call"}

\* Before its stage, a run has selected nothing and notified nobody.
BlankInv ==
    /\ stage \in Stages
    /\ stage \in Unselected => /\ chosen = {} /\ shown = {} /\ drafted = {}
                               /\ context = 0
    /\ stage = "draft" => drafted = {}
    /\ stage \notin Noticed => /\ cards = {} /\ toTell = <<>> /\ told = {} /\ heard = Nobody

\* A run starts blank and stays blank until it has selected its signals.
LEMMA BlankNext == BotInv /\ BlankInv /\ [Next]_vars => BlankInv'
<1> SUFFICES ASSUME BotInv, BlankInv, [Next]_vars
             PROVE  BlankInv'
  OBVIOUS
<1> USE DEF Stages, Writing, Unselected, Noticed, selection, deliveryVars, noticeVars
<1>1. CASE QuietStep
  BY <1>1, QuietSteps DEF BlankInv, After
<1>2. CASE EndStep
  BY <1>2, EndSteps DEF BlankInv, ClearRun, ForgetNotice
<1>3. CASE MessageStep
  BY <1>3, MessageSteps DEF BlankInv, runVars
<1>4. CASE Reconfigure
  BY <1>4 DEF BlankInv, Reconfigure, ReplaceGenerator, NoRun, runVars
<1>5. CASE StartRun \/ Resolve \/ StoreCanonical \/ StoreEvents
  BY <1>5 DEF BlankInv, StartRun, Resolve, StoreCanonical, StoreEvents, NoDelivery
<1>6. CASE Select
  BY <1>6 DEF BlankInv, Select, NoDelivery
<1>7. CASE WriteBrief \/ Speak
  BY <1>7 DEF BlankInv, WriteBrief, Speak, Draft, Script
<1>8. CASE PrepareCards
  BY <1>8 DEF BlankInv, PrepareCards, MakeCards
<1>9. CASE TellOne
  BY <1>9 DEF BlankInv, TellOne, Tell, runVars
<1>10. CASE Notified
  BY <1>10 DEF BlankInv, Notified, NoDelivery
<1>11. QED
  BY <1>1, <1>2, <1>3, <1>4, <1>5, <1>6, <1>7, <1>8, <1>9, <1>10, Steps

\* Of each event the priority engine keeps a signal that is as good as any.
LEMMA PrioritisedKeepsBest ==
    ASSUME NEW crowd, NEW kept \in Prioritised(crowd), NEW s \in crowd
    PROVE  /\ kept \subseteq crowd
           /\ \E k \in kept : k.event = s.event /\ Final(k, crowd) >= Final(s, crowd)
BY DEF Prioritised

\* A selection fits the room that the users leave, and a signal is missing in it
\* for a reason.
LEMMA SelectionsSound ==
    ASSUME NEW crowd, IsFiniteSet(crowd), \A s \in crowd : s.kind \in Kinds,
           NEW users \in Nat, NEW past, NEW time,
           NEW best \in Selections(crowd, users, past, time)
    PROVE  /\ best \subseteq crowd
           /\ Cardinality(best) <= Room(users)
           /\ \A s \in best : IsNews(s, past, time)
           /\ \A s \in crowd \ best :
                 \/ ~Passes(s, crowd)
                 \/ s.kind = "new" /\ ReportOf(s) \in Seen(past, time)
                 \/ \E t \in crowd \ {s} : t.event = s.event /\ Final(t, crowd) >= Final(s, crowd)
                 \/ /\ Cardinality(best) = Room(users)
                    /\ \A t \in best : Rank(t, crowd, past) >= Rank(s, crowd, past)
<1>1. PICK kept \in Prioritised(crowd) :
         best \in Limited(Presentable(kept, crowd, past, time), Room(users), crowd, past)
  BY DEF Selections
<1> DEFINE fit == Presentable(kept, crowd, past, time)
<1>2. /\ kept \subseteq crowd /\ fit \subseteq kept /\ best \subseteq fit
      /\ \A s \in fit : IsNews(s, past, time)
  BY <1>1 DEF Presentable, Limited, Prioritised
<1>3. IsFiniteSet(fit) /\ Cardinality(fit) \in Nat /\ Room(users) \in Nat
  <2>1. IsFiniteSet(fit)
    BY <1>2, FS_Subset
  <2>2. QED
    BY <2>1, FS_CardinalityType, SelectionAssumption DEF Room
<1>4. /\ Cardinality(best) = (IF Cardinality(fit) < Room(users) THEN Cardinality(fit) ELSE Room(users))
      /\ \A s \in best, t \in fit \ best : Rank(s, crowd, past) >= Rank(t, crowd, past)
  BY <1>1 DEF Limited
<1>5. ASSUME NEW s \in crowd \ best, s \in fit
      PROVE  /\ Cardinality(best) = Room(users)
             /\ \A t \in best : Rank(t, crowd, past) >= Rank(s, crowd, past)
  <2>1. best # fit
    BY <1>5
  <2>2. Cardinality(best) # Cardinality(fit)
    BY <1>2, <1>3, <2>1, FS_Subset
  <2>3. QED
    BY <1>3, <1>4, <1>5, <2>2
<1>6. ASSUME NEW s \in crowd \ best, s \in kept, s \notin fit
      PROVE  ~Passes(s, crowd) \/ (s.kind = "new" /\ ReportOf(s) \in Seen(past, time))
  BY <1>2, <1>6 DEF Presentable, IsNews, Kinds
<1>7. ASSUME NEW s \in crowd \ best, s \notin kept
      PROVE  \E t \in crowd \ {s} : t.event = s.event /\ Final(t, crowd) >= Final(s, crowd)
  BY <1>7, <1>1, PrioritisedKeepsBest
<1>8. Cardinality(best) <= Room(users)
  BY <1>3, <1>4
<1>9. QED
  BY <1>2, <1>5, <1>6, <1>7, <1>8

\* What a settled signal comes to: a duplicate, an update of the event of a
\* candidate, or an event of its own.
LEMMA SettleCases ==
    ASSUME NEW r, NEW near, NEW relation, Settle(r, near, relation), DOMAIN relation = near
    PROVE  /\ todo' = Tail(todo)
           /\ \/ UNCHANGED <<records, accepted>>
              \/ \E kind \in Kinds : \E event \in {Here(r)} \cup {s.event : s \in near} :
                    Accept(Signal(r, event, kind))
<1>1. CASE near = {}
  BY <1>1 DEF Settle, Kinds
<1>2. CASE near # {}
  <2>1. PICK best \in near :
           \/ UNCHANGED <<records, accepted>>
           \/ Accept(Signal(r, best.event, "update"))
           \/ Accept(Signal(r, Here(r), "new"))
    BY <1>2 DEF Settle, BestMatches
  <2>2. QED
    BY <2>1 DEF Settle, Kinds
<1>3. QED
  BY <1>1, <1>2

\* What one turn of the resolution may come to: the next signal is settled or
\* waits for an answer, and the verdicts change with an answer only.
LEMMA ResolveCases ==
    ASSUME NEW r, ResolveOne(r)
    PROVE  /\ todo # <<>>
           /\ UNCHANGED <<history, events, known, taken, patchy, overtaken>>
           /\ todo' = Tail(todo) \/ todo' = todo
           /\ \/ UNCHANGED <<records, accepted>>
              \/ \E kind \in Kinds : \E event \in {Here(r)} \cup {s.event : s \in Index \cup asking.near} :
                    Accept(Signal(r, event, kind))
           /\ \/ /\ UNCHANGED <<verdicts, engine>>
                 /\ \/ UNCHANGED asking
                    \/ /\ asking = NotAsking
                       /\ \E near \in SUBSET Index :
                             asking' = [near |-> near, cache |-> engine, own |-> TRUE]
              \/ /\ asking # NotAsking /\ asking' = NotAsking
                 /\ \E answer \in Answers : \E cache \in Learned(answer) :
                       verdicts' = cache /\ Learn(cache)
<1>1. todo # <<>> /\ UNCHANGED <<history, events, known, taken, patchy, overtaken>>
  BY DEF ResolveOne
<1>2. CASE Turn(r)
  <2>1. UNCHANGED <<verdicts, engine>>
    BY <1>2 DEF Turn
  <2>2. CASE Head(todo).fresh = "stale"
    BY <1>1, <1>2, <2>1, <2>2 DEF Turn
  <2>3. CASE Head(todo).fresh # "stale"
    <3>1. PICK near \in Candidates(Head(todo).report, Index) :
             \/ /\ Settle(r, near, [s \in near |-> "DIFFERENT"])
                /\ UNCHANGED asking
             \/ /\ Settle(r, near, Judged(engine, Head(todo).report, near, NoFile))
                /\ UNCHANGED asking
             \/ /\ asking' = [near |-> near, cache |-> engine, own |-> TRUE]
                /\ UNCHANGED <<todo, records, accepted>>
      BY <1>2, <2>3 DEF Turn
    <3>2. near \subseteq Index /\ asking = NotAsking
      BY <1>2 DEF Candidates, Turn
    <3>3. CASE Settle(r, near, [s \in near |-> "DIFFERENT"]) /\ UNCHANGED asking
      BY <1>1, <2>1, <3>2, <3>3, SettleCases
    <3>4. CASE Settle(r, near, Judged(engine, Head(todo).report, near, NoFile)) /\ UNCHANGED asking
      <4>1. DOMAIN Judged(engine, Head(todo).report, near, NoFile) = near
        BY DEF Judged
      <4>2. QED
        BY <1>1, <2>1, <3>2, <3>4, <4>1, SettleCases
    <3>5. CASE asking' = [near |-> near, cache |-> engine, own |-> TRUE] /\ UNCHANGED <<todo, records, accepted>>
      BY <1>1, <2>1, <3>2, <3>5
    <3>6. QED
      BY <3>1, <3>3, <3>4, <3>5
  <2>4. QED
    BY <2>2, <2>3
<1>3. CASE Answered(r)
  <2>0. PICK answer \in Answers : \E cache \in Learned(answer) :
           /\ verdicts' = cache /\ Learn(cache)
           /\ Settle(r, asking.near, Judged(asking.cache, Head(todo).report, asking.near, answer))
    BY <1>3 DEF Answered
  <2>1. PICK cache \in Learned(answer) :
           /\ verdicts' = cache /\ Learn(cache)
           /\ Settle(r, asking.near, Judged(asking.cache, Head(todo).report, asking.near, answer))
    BY <2>0
  <2>2. DOMAIN Judged(asking.cache, Head(todo).report, asking.near, answer) = asking.near
    BY DEF Judged
  <2>3. asking # NotAsking /\ asking' = NotAsking
    BY <1>3 DEF Answered
  <2>4. /\ todo' = Tail(todo)
        /\ \/ UNCHANGED <<records, accepted>>
           \/ \E kind \in Kinds : \E event \in {Here(r)} \cup {s.event : s \in asking.near} :
                 Accept(Signal(r, event, kind))
    BY <2>1, <2>2, SettleCases
  <2>5. QED
    BY <1>1, <2>1, <2>3, <2>4
<1>4. QED
  BY <1>2, <1>3 DEF ResolveOne

\* What the run selected is part of what it accepted and of what the inbox gave
\* it; a brief, its cards and the compositions present nothing else.
PickInv ==
    /\ IsFiniteSet(accepted) /\ \A s \in accepted : s.kind \in Kinds
    /\ chosen \subseteq accepted
    /\ tracked \subseteq Topics /\ IsFiniteSet(tracked) /\ briefed \subseteq tracked
    /\ shown \subseteq Topics /\ IsFiniteSet(shown)
    /\ drafted \subseteq Picked /\ cards \subseteq Picked
    /\ \A k \in DOMAIN blocks : blocks[k] \subseteq k.ids

\* A composition presents some of its signals, and so do those remembered.
LEMMA ComposeKeeps ==
    ASSUME NEW key, NEW failing, NEW got, Compose(key, key.ids, failing, got),
           \A k \in DOMAIN blocks : blocks[k] \subseteq k.ids
    PROVE  /\ got \subseteq key.ids
           /\ \A k \in (DOMAIN blocks)' : blocks'[k] \subseteq k.ids
<1>1. CASE key.ids = {} \/ key \in DOMAIN blocks
  BY <1>1 DEF Compose
<1>2. CASE ~(key.ids = {} \/ key \in DOMAIN blocks)
  <2>1. got \subseteq key.ids /\ Remember(key, got)
    BY <1>2 DEF Compose
  <2>2. QED
    BY <2>1 DEF Remember, Kept
<1>3. QED
  BY <1>1, <1>2

\* The resolution of a signal accepts at most one.
LEMMA ResolveFinite ==
    ASSUME NEW r, ResolveOne(r),
           IsFiniteSet(accepted), \A s \in accepted : s.kind \in Kinds
    PROVE  IsFiniteSet(accepted') /\ \A s \in accepted' : s.kind \in Kinds
<1>1. CASE UNCHANGED accepted
  BY <1>1
<1>2. ASSUME NEW kind \in Kinds, NEW event, Accept(Signal(r, event, kind))
      PROVE  IsFiniteSet(accepted') /\ \A s \in accepted' : s.kind \in Kinds
  BY <1>2, FS_AddElement DEF Accept, Signal
<1>3. QED
  BY <1>1, <1>2, ResolveCases

\* Every step keeps the selection within what the run accepted and what waited.
LEMMA PickNext == BotInv /\ BlankInv /\ PickInv /\ [Next]_vars => PickInv'
<1> SUFFICES ASSUME BotInv, BlankInv, PickInv, [Next]_vars
             PROVE  PickInv'
  OBVIOUS
<1> USE DEF selection, deliveryVars, noticeVars, storyVars, resolving
<1>1. CASE QuietStep
  <2>1. UNCHANGED <<accepted, chosen, tracked, briefed, shown, drafted, cards, blocks>>
    BY <1>1, QuietSteps
  <2>2. Selected' => Selected
    BY <1>1, QuietSteps DEF Selected, Writing
  <2>3. QED
    BY <2>1, <2>2 DEF PickInv, Picked, UserCards
<1>2. CASE EndStep
  <2>1. /\ accepted' = {} /\ chosen' = {} /\ shown' = {}
        /\ drafted' = {} /\ cards' = {} /\ stage' = "idle"
    BY <1>2, EndSteps DEF ClearRun, StopResolving, ForgetNotice
  <2>2. UNCHANGED blocks \/ blocks' = NoBlocks
    BY <1>2 DEF EndStep, EndRun, RunFails, Crash
  <2>3. QED
    BY <1>2, <2>1, <2>2, EndSteps, FS_EmptySet DEF PickInv, Selected, NoBlocks
<1>3. CASE MessageStep
  <2>1. /\ UNCHANGED <<accepted, chosen, briefed, shown, drafted, cards, stage>>
        /\ tracked' = tracked \/ \E message \in Messages : tracked' = tracked \cup {message.topic}
    BY <1>3, MessageSteps DEF runVars
  <2>2. tracked' \subseteq Topics /\ IsFiniteSet(tracked') /\ briefed' \subseteq tracked'
    BY <2>1, FS_AddElement DEF PickInv, Messages
  <2>3. \A k \in (DOMAIN blocks)' : blocks'[k] \subseteq k.ids
    BY <1>3, MessageSteps DEF PickInv, Elsewhere, ComposeElsewhere, Remember, Kept
  <2>4. QED
    BY <2>1, <2>2, <2>3 DEF PickInv, Picked, UserCards, Selected
<1>4. CASE Reconfigure
  BY <1>4 DEF PickInv, Reconfigure, ReplaceGenerator, NoRun, runVars, NoBlocks, Picked, UserCards,
              Selected, inboundVars, inboxVars
<1>5. CASE StartRun
  <2>1. /\ accepted' = {} /\ chosen = {} /\ stage' = "resolve"
        /\ UNCHANGED <<chosen, tracked, briefed, shown, drafted, cards, blocks>>
    BY <1>5 DEF StartRun, BeginResolving, BlankInv, Unselected, RunOnly, NoDelivery, inboundVars, inboxVars
  <2>2. QED
    BY <2>1, FS_EmptySet DEF PickInv, Picked, UserCards, Selected
<1>6. CASE Resolve \/ StoreCanonical \/ StoreEvents
  <2>1. /\ chosen = {} /\ stage' \in Unselected
        /\ UNCHANGED <<chosen, tracked, briefed, shown, drafted, cards, blocks>>
    BY <1>6 DEF Resolve, StoreCanonical, StoreEvents, BlankInv, Unselected, RunOnly, NoDelivery,
                inboundVars, inboxVars
  <2>2. UNCHANGED accepted \/ ResolveOne(run)
    BY <1>6 DEF Resolve, StoreCanonical, StoreEvents, SaveCanonical, SaveEvents, NoStory
  <2>3. IsFiniteSet(accepted') /\ \A s \in accepted' : s.kind \in Kinds
    BY <2>2, ResolveFinite DEF PickInv
  <2>4. QED
    BY <2>1, <2>3 DEF PickInv, Picked, UserCards, Selected, Unselected
<1>7. CASE Select
  <2>1. /\ shown' = tracked \ briefed /\ drafted = {} /\ cards = {}
        /\ chosen' \in Selections(accepted, Cardinality(shown'), known, now)
        /\ UNCHANGED <<accepted, tracked, briefed, drafted, cards, blocks>>
    BY <1>7 DEF Select, NoStory, NoDelivery, RunOnly, inboundVars, inboxVars, BlankInv,
                Unselected, Noticed
  <2>2. IsFiniteSet(shown') /\ Cardinality(shown') \in Nat
    BY <2>1, FS_Subset, FS_CardinalityType DEF PickInv
  <2>3. chosen' \subseteq accepted
    BY <2>1, <2>2, SelectionsSound DEF PickInv
  <2>4. QED
    BY <2>1, <2>2, <2>3 DEF PickInv
<1>8. CASE WriteBrief \/ Speak \/ PrepareCards
  <2>1. /\ UNCHANGED <<accepted, chosen, tracked, briefed, shown>>
        /\ Selected
    BY <1>8 DEF WriteBrief, Speak, PrepareCards, NoStory, RunOnly, inboundVars, inboxVars, Selected
  <2>2. Picked' = Picked /\ Composition.ids = Picked
    BY <2>1 DEF Picked, UserCards, Composition
  <2>3. \A failing, got : Compose(Composition, Picked, failing, got) =>
           got \subseteq Picked /\ \A k \in (DOMAIN blocks)' : blocks'[k] \subseteq k.ids
    BY <2>2, ComposeKeeps DEF PickInv
  <2>4. CASE WriteBrief
    BY <2>1, <2>2, <2>3, <2>4 DEF PickInv, WriteBrief, Draft, Selected
  <2>5. CASE Speak
    BY <2>1, <2>2, <2>3, <2>5 DEF PickInv, Speak, Script, Selected
  <2>6. CASE PrepareCards
    BY <2>1, <2>2, <2>3, <2>6 DEF PickInv, PrepareCards, MakeCards, Selected
  <2>7. QED
    BY <1>8, <2>4, <2>5, <2>6
<1>9. CASE TellOne
  BY <1>9 DEF PickInv, TellOne, Tell, NoStory, RunOnly, runVars, inboundVars, inboxVars, Picked,
              UserCards, Selected
<1>10. CASE Notified
  BY <1>10 DEF PickInv, Notified, MarkBriefed, NoStory, NoDelivery, Picked, UserCards, Selected
<1>11. QED
  BY <1>1, <1>2, <1>3, <1>4, <1>5, <1>6, <1>7, <1>8, <1>9, <1>10, Steps

\* Initially nothing is selected, remembered or tracked.
LEMMA PickInit == Init => BlankInv /\ PickInv
BY FS_EmptySet DEF Init, StoriesInit, InboundInit, DeliveryInit, BlankInv, PickInv, Picked, UserCards,
                   Selected, Stages, Noticed, Unselected, NoBlocks

\* The invariants of a run's selection hold together.
LEMMA PickAlways == Spec => [](BotInv /\ BlankInv /\ PickInv)
BY BotInit, BotNext, BlankNext, PickInit, PickNext, PTL DEF Spec

\* Every step keeps the reasons of what the brief leaves out.
LEMMA ReasonsNext ==
    BotInv /\ BlankInv /\ PickInv /\ LeftOutForAReason /\ [Next]_vars => LeftOutForAReason'
<1> SUFFICES ASSUME BotInv, BlankInv, PickInv, LeftOutForAReason, [Next]_vars
             PROVE  LeftOutForAReason'
  OBVIOUS
<1> USE DEF selection, storyVars, resolving
<1>1. ASSUME UNCHANGED <<accepted, chosen, known, slot, shown>>, Selected' => Selected
      PROVE  LeftOutForAReason'
  BY <1>1 DEF LeftOutForAReason
<1>2. CASE QuietStep
  BY <1>1, <1>2, QuietSteps DEF Selected, Writing
<1>3. CASE EndStep
  BY <1>3, EndSteps DEF LeftOutForAReason, ClearRun, Selected
<1>4. CASE MessageStep
  BY <1>1, <1>4, MessageSteps DEF runVars, Selected
<1>5. CASE Reconfigure
  BY <1>1, <1>5 DEF Reconfigure, NoRun, runVars, Selected
<1>6. CASE StartRun \/ Resolve \/ StoreCanonical \/ StoreEvents
  BY <1>6 DEF StartRun, Resolve, StoreCanonical, StoreEvents, LeftOutForAReason, Selected
<1>7. CASE Select
  <2>1. /\ chosen' \in Selections(accepted, Cardinality(shown'), known, slot')
        /\ shown' = tracked \ briefed
        /\ UNCHANGED <<accepted, known>>
    BY <1>7 DEF Select, NoStory
  <2>2. Cardinality(shown') \in Nat
    BY <2>1, FS_Subset, FS_CardinalityType DEF PickInv
  <2>3. QED
    BY <2>1, <2>2, SelectionsSound DEF PickInv, LeftOutForAReason
<1>8. CASE WriteBrief \/ Speak \/ PrepareCards
  BY <1>1, <1>8 DEF WriteBrief, Speak, PrepareCards, NoStory, Selected
<1>9. CASE TellOne \/ Notified
  BY <1>1, <1>9 DEF TellOne, Notified, NoStory, runVars, Selected
<1>10. QED
  BY <1>2, <1>3, <1>4, <1>5, <1>6, <1>7, <1>8, <1>9, Steps

\* A system signal that was stored is missing in its brief for a reason: its
\* threshold, the history, a better signal of its event, or better signals that
\* fill the brief.
THEOREM LeftOutReasoned == Spec => []LeftOutForAReason
<1>1. Init => LeftOutForAReason
  BY DEF Init, LeftOutForAReason, Selected
<1>2. QED
  BY <1>1, ReasonsNext, PickAlways, PTL DEF Spec

-----------------------------------------------------------------------------
(* The brief and its notification.                                         *)

Drafted == {"speak"} \cup Writing \cup {"rows", "cards"} \cup Noticed

\* While the cache has lost nothing since the brief, it has the brief's blocks,
\* and the cards of a notification are made of them.
NoticeInv ==
    /\ (stage \in Drafted /\ ~cleared) =>
          IF Picked = {} THEN drafted = {}
          ELSE Composition \in DOMAIN blocks /\ blocks[Composition] = drafted
    /\ (stage \in Noticed /\ ~cleared) => cards = drafted

\* A signal composed elsewhere leaves the brief's blocks alone or clears them.
LEMMA NoticeElsewhere ==
    ASSUME NoticeInv, Elsewhere, UNCHANGED runVars
    PROVE  NoticeInv'
<1>1. PICK of, nth : ComposeElsewhere([ids |-> {}, of |-> of, nth |-> nth])
  BY DEF Elsewhere
<1> DEFINE key == [ids |-> {}, of |-> of, nth |-> nth]
<1>2. UNCHANGED <<stage, drafted, cards, Picked, Composition>>
  BY <1>1 DEF ComposeElsewhere, runVars, selection, Picked, UserCards, Composition
<1>3. ~cleared' => ~cleared /\ Kept = DOMAIN blocks
  BY <1>1 DEF ComposeElsewhere
<1>4. Picked # {} => Composition # key
  BY DEF Composition
<1>5. ASSUME ~cleared', Picked # {}, Composition \in DOMAIN blocks
      PROVE  Composition \in (DOMAIN blocks)' /\ blocks'[Composition] = blocks[Composition]
  BY <1>1, <1>3, <1>4, <1>5 DEF ComposeElsewhere, Remember
<1>6. QED
  BY <1>2, <1>3, <1>5 DEF NoticeInv

\* Every step keeps the notification with the brief.
LEMMA NoticeNext == BotInv /\ BlankInv /\ NoticeInv /\ [Next]_vars => NoticeInv'
<1> SUFFICES ASSUME BotInv, BlankInv, NoticeInv, [Next]_vars
             PROVE  NoticeInv'
  OBVIOUS
<1> USE DEF selection, deliveryVars, noticeVars, Drafted, Noticed, Writing
<1>1. ASSUME UNCHANGED <<blocks, drafted, cards, cleared, chosen, shown, context>>,
             stage' \in Drafted => stage \in Drafted, stage' \in Noticed => stage \in Noticed
      PROVE  NoticeInv'
  <2>1. UNCHANGED <<Picked, Composition>>
    BY <1>1 DEF Picked, UserCards, Composition
  <2>2. QED
    BY <1>1, <2>1 DEF NoticeInv
<1>2. CASE QuietStep
  BY <1>1, <1>2, QuietSteps DEF After
<1>3. CASE EndStep
  BY <1>3, EndSteps DEF NoticeInv, ClearRun
<1>4. CASE MessageStep
  <2>1. CASE UNCHANGED <<blocks, cleared>>
    BY <1>1, <1>4, <2>1, MessageSteps DEF runVars
  <2>2. CASE Elsewhere
    BY <1>4, <2>2, MessageSteps, NoticeElsewhere
  <2>3. QED
    BY <1>4, <2>1, <2>2, MessageSteps
<1>5. CASE Reconfigure
  BY <1>5 DEF Reconfigure, ReplaceGenerator, NoticeInv
<1>6. CASE StartRun \/ Resolve \/ StoreCanonical \/ StoreEvents \/ Select
  <2>1. stage' \notin Drafted
    BY <1>6 DEF StartRun, Resolve, StoreCanonical, StoreEvents, Select
  <2>2. QED
    BY <2>1 DEF NoticeInv
<1>7. CASE WriteBrief \/ Speak \/ PrepareCards
  <2>1. UNCHANGED <<Picked, Composition>>
    BY <1>7 DEF WriteBrief, Speak, PrepareCards, Picked, UserCards, Composition
  <2>2. CASE WriteBrief
    <3>1. PICK failing : Draft(Composition, Picked, failing)
      BY <2>2 DEF WriteBrief
    <3>2. Compose(Composition, Picked, failing, drafted') /\ stage' \notin Noticed
      BY <2>2, <3>1 DEF Draft, WriteBrief
    <3>3. IF Picked = {} THEN drafted' = {}
          ELSE Composition \in (DOMAIN blocks)' /\ blocks'[Composition] = drafted'
      BY <3>2 DEF Compose, Remember
    <3>4. QED
      BY <2>1, <3>2, <3>3 DEF NoticeInv
  <2>3. CASE Speak
    <3>1. PICK failing, spoken :
             /\ Compose(Composition, Picked, failing, spoken)
             /\ UNCHANGED <<drafted, cards, cleared>> /\ stage = "speak" /\ stage' = "md"
      BY <2>3 DEF Speak, Script
    <3>2. cleared \/ UNCHANGED blocks
      BY <3>1 DEF Compose, NoticeInv
    <3>3. QED
      BY <2>1, <3>1, <3>2 DEF NoticeInv
  <2>4. CASE PrepareCards
    <3>1. PICK failing :
             /\ Compose(Composition, Picked, failing, cards')
             /\ UNCHANGED <<drafted, cleared>> /\ stage = "cards" /\ stage' = "notify"
      BY <2>4 DEF PrepareCards, MakeCards
    <3>2. cleared \/ (UNCHANGED blocks /\ cards' = drafted)
      BY <3>1 DEF Compose, NoticeInv
    <3>3. QED
      BY <2>1, <3>1, <3>2 DEF NoticeInv
  <2>5. QED
    BY <1>7, <2>2, <2>3, <2>4
<1>8. CASE TellOne
  BY <1>1, <1>8 DEF TellOne, Tell, runVars
<1>9. CASE Notified
  BY <1>1, <1>9 DEF Notified, NoDelivery
<1>10. QED
  BY <1>2, <1>3, <1>4, <1>5, <1>6, <1>7, <1>8, <1>9, Steps

\* The notification presents the signals of the brief, whatever the model
\* answers to either, unless the cache was cleared in between (generator.py:269).
THEOREM NoticeMatchesBrief == Spec => []NoticeIsTheBrief
<1>1. Init => NoticeInv
  BY DEF Init, NoticeInv, Drafted, Writing, Noticed
<1>2. NoticeInv => NoticeIsTheBrief
  BY DEF NoticeInv, NoticeIsTheBrief, Noticed
<1>3. QED
  BY <1>1, <1>2, NoticeNext, PickAlways, PTL DEF Spec

\* A channel has received the cards of the users, or as many as it presents.
Reached(channel) ==
    \/ cards \cap UserCards \subseteq heard[channel]
    \/ Cardinality(heard[channel] \cap UserCards) = MaxCards

\* Nothing of a brief is marked before a channel has taken all of its
\* notification; a channel that took it is not tried again.
TellInv ==
    /\ told \subseteq Channels /\ heard \in [Channels -> SUBSET cards]
    /\ toTell \in Seq(Channels)
    /\ \A i, j \in 1..Len(toTell) : i # j => toTell[i] # toTell[j]
    /\ \A i \in 1..Len(toTell) : toTell[i] \notin told
    /\ \A channel \in told : Reached(channel)
    /\ (Selected /\ stage \notin {"publish", "call"}) => shown \cap briefed = {}
    /\ (stage \in {"publish", "call"} /\ shown \cap briefed # {}) => told # {}

\* The cards that fit a notification reach the users or fill it.
LEMMA CappedReaches ==
    ASSUME NEW some \in Capped(UserCards), IsFiniteSet(cards)
    PROVE  /\ some \subseteq cards
           /\ cards \cap UserCards \subseteq some \/ Cardinality(some \cap UserCards) = MaxCards
<1>1. /\ some \subseteq cards
      /\ Cardinality(some) = (IF Cardinality(cards) < MaxCards THEN Cardinality(cards) ELSE MaxCards)
      /\ some \subseteq UserCards \/ cards \cap UserCards \subseteq some
  BY DEF Capped
<1>2. CASE some \subseteq UserCards
  <2>1. some \cap UserCards = some
    BY <1>2
  <2>2. Cardinality(some) = Cardinality(cards) => some = cards
    BY <1>1, FS_Subset
  <2>3. QED
    BY <1>1, <2>1, <2>2
<1>3. QED
  BY <1>1, <1>2

\* Telling a channel keeps what is known of the others.
LEMMA TellKeeps ==
    ASSUME TellInv, IsFiniteSet(cards), NEW channel \in Channels, NEW fails \in BOOLEAN,
           Tell(channel, UserCards, fails), UNCHANGED <<stage, shown, briefed>>
    PROVE  TellInv'
<1>0. PICK some \in Capped(UserCards) :
         \E out \in (IF fails THEN Partly(channel, some) ELSE {some}) :
            heard' = [heard EXCEPT ![channel] = out]
  BY DEF Tell
<1>1. PICK out \in (IF fails THEN Partly(channel, some) ELSE {some}) :
         heard' = [heard EXCEPT ![channel] = out]
  BY <1>0
<1>2. out \subseteq cards /\ (~fails => out = some)
  BY <1>1, CappedReaches DEF Partly
<1>3. /\ toTell # <<>> /\ channel = Head(toTell) /\ toTell' = Tail(toTell)
      /\ told' = IF fails THEN told ELSE told \cup {channel}
      /\ UNCHANGED <<cards, UserCards>>
  BY DEF Tell, UserCards
<1>4. /\ Len(toTell) \in Nat /\ Len(toTell) > 0 /\ channel = toTell[1]
      /\ Tail(toTell) \in Seq(Channels) /\ Len(Tail(toTell)) = Len(toTell) - 1
      /\ \A i \in 1..Len(Tail(toTell)) : i + 1 \in 1..Len(toTell) /\ Tail(toTell)[i] = toTell[i + 1]
  BY <1>3 DEF TellInv
<1>5. channel \notin told
  BY <1>4 DEF TellInv
<1>6. /\ heard' \in [Channels -> SUBSET cards] /\ heard'[channel] = out
      /\ \A c \in Channels \ {channel} : heard'[c] = heard[c]
  BY <1>1, <1>2 DEF TellInv
<1>7. ASSUME NEW c \in told'
      PROVE  Reached(c)'
  <2>1. CASE c = channel
    <3>1. ~fails
      BY <1>3, <1>5, <1>7, <2>1
    <3>2. QED
      BY <1>1, <1>2, <1>3, <1>6, <2>1, <3>1, CappedReaches DEF Reached
  <2>2. CASE c # channel
    <3>1. c \in told /\ c \in Channels /\ heard'[c] = heard[c]
      BY <1>3, <1>6, <1>7, <2>2 DEF TellInv
    <3>2. QED
      BY <1>3, <3>1 DEF TellInv, Reached
  <2>3. QED
    BY <2>1, <2>2
<1>8. \A i, j \in 1..Len(toTell') : i # j => toTell'[i] # toTell'[j]
  BY <1>3, <1>4 DEF TellInv
<1>9. \A i \in 1..Len(toTell') : toTell'[i] \notin told'
  BY <1>3, <1>4 DEF TellInv
<1>10. QED
  BY <1>3, <1>4, <1>6, <1>7, <1>8, <1>9 DEF TellInv, Selected

\* Before a notification there is nobody to have reached.
LEMMA TellBlank ==
    ASSUME toTell = <<>>, told = {}, heard = Nobody,
           (Selected /\ stage \notin {"publish", "call"}) => shown \cap briefed = {},
           stage \notin {"publish", "call"}
    PROVE  TellInv
<1>1. <<>> \in Seq(Channels) /\ Len(<<>>) = 0
  OBVIOUS
<1>2. QED
  BY <1>1 DEF TellInv, Nobody

\* Every step keeps the marks behind the notification.
LEMMA TellNext == BotInv /\ BlankInv /\ PickInv /\ TellInv /\ [Next]_vars => TellInv'
<1> SUFFICES ASSUME BotInv, BlankInv, PickInv, TellInv, [Next]_vars
             PROVE  TellInv'
  OBVIOUS
<1> USE DEF selection, deliveryVars, noticeVars, Noticed, Writing
<1>1. ASSUME UNCHANGED <<cards, toTell, told, heard, shown, briefed>>,
             Selected' /\ stage' \notin {"publish", "call"} =>
                Selected /\ stage \notin {"publish", "call"},
             stage' \in {"publish", "call"} => stage \in {"publish", "call"}
      PROVE  TellInv'
  BY <1>1 DEF TellInv, Reached, UserCards
<1>2. CASE QuietStep
  BY <1>1, <1>2, QuietSteps DEF After, Selected
<1>3. CASE EndStep
  <2>1. toTell' = <<>> /\ told' = {} /\ heard' = Nobody /\ stage' = "idle"
    BY <1>3, EndSteps DEF ClearRun, ForgetNotice
  <2>2. <<>> \in Seq(Channels) /\ Len(<<>>) = 0
    OBVIOUS
  <2>3. QED
    BY <2>1, <2>2 DEF TellInv, Nobody, Selected
<1>4. CASE MessageStep
  BY <1>1, <1>4, MessageSteps DEF runVars, Selected
<1>5. CASE Reconfigure
  BY <1>1, <1>5 DEF Reconfigure, ReplaceGenerator, NoRun, runVars, Selected, inboundVars, inboxVars
<1>6. CASE StartRun \/ Resolve \/ StoreCanonical \/ StoreEvents
  <2>1. /\ UNCHANGED <<cards, toTell, told, heard, shown, briefed>>
        /\ ~Selected' /\ stage' \notin {"publish", "call"}
    BY <1>6 DEF StartRun, Resolve, StoreCanonical, StoreEvents, Selected, NoDelivery, RunOnly,
                inboundVars, inboxVars
  <2>2. QED
    BY <1>1, <2>1
<1>7. CASE Select
  <2>1. /\ UNCHANGED <<cards, toTell, told, heard, briefed>>
        /\ shown' = tracked \ briefed /\ stage = "select" /\ stage' = "draft"
    BY <1>7 DEF Select, NoDelivery, RunOnly, inboundVars, inboxVars
  <2>2. told = {}
    BY <2>1 DEF BlankInv
  <2>3. QED
    BY <2>1, <2>2 DEF TellInv
<1>8. CASE WriteBrief \/ Speak
  BY <1>1, <1>8 DEF WriteBrief, Speak, Draft, Script, RunOnly, inboundVars, inboxVars, Selected
<1>9. CASE PrepareCards
  <2>1. /\ stage = "cards" /\ stage' = "notify" /\ toTell' = Order
        /\ UNCHANGED <<told, heard, shown, briefed>>
    BY <1>9 DEF PrepareCards, MakeCards, RunOnly, inboundVars, inboxVars
  <2>2. told = {} /\ heard = Nobody
    BY <2>1 DEF BlankInv
  <2>3. /\ Order \in Seq(Channels)
        /\ \A i, j \in 1..Len(Order) : i # j => Order[i] # Order[j]
    <3>1. Order \in Seq({"telegram", "dingtalk"}) /\ DOMAIN Order = 1..Len(Order) /\ Len(Order) \in Nat
      BY DeliveryAssumption, LenProperties
    <3>2. Order \in [1..Len(Order) -> Channels]
      BY <3>1 DEF Channels
    <3>3. Order \in Seq(Channels)
      BY <3>1, <3>2
    <3>4. QED
      BY <3>1, <3>3, DeliveryAssumption
  <2>4. QED
    BY <2>1, <2>2, <2>3 DEF TellInv, Selected, Nobody
<1>10. CASE TellOne
  <2>1. IsFiniteSet(cards)
    <3>1. IsFiniteSet(chosen) /\ IsFiniteSet(shown)
      BY FS_Subset DEF PickInv
    <3>2. IsFiniteSet({s.id : s \in chosen}) /\ IsFiniteSet(UserCards)
      <4>1. [s \in chosen |-> s.id] \in Surjection(chosen, {s.id : s \in chosen})
        BY DEF Surjection
      <4>2. [u \in shown |-> <<0, u>>] \in Surjection(shown, UserCards)
        BY DEF Surjection, UserCards
      <4>3. QED
        BY <3>1, <4>1, <4>2, FS_Surjection
    <3>3. IsFiniteSet(Picked)
      BY <3>2, FS_Union DEF Picked
    <3>4. QED
      BY <3>3, FS_Subset DEF PickInv
  <2>2. PICK channel \in Channels, fails \in BOOLEAN : Tell(channel, UserCards, fails)
    BY <1>10 DEF TellOne
  <2>3. UNCHANGED <<stage, shown, briefed>>
    BY <1>10 DEF TellOne, runVars, RunOnly, inboundVars, inboxVars
  <2>4. QED
    BY <2>1, <2>2, <2>3, TellKeeps
<1>11. CASE Notified
  <2>1. /\ UNCHANGED <<cards, toTell, told, heard, shown>>
        /\ stage = "notify" /\ stage' = "publish"
        /\ told # {} \/ UNCHANGED briefed
    BY <1>11 DEF Notified, NoDelivery
  <2>2. shown \cap briefed = {}
    BY <2>1 DEF TellInv, Selected
  <2>3. QED
    BY <2>1, <2>2 DEF TellInv, Reached, UserCards
<1>12. QED
  BY <1>2, <1>3, <1>4, <1>5, <1>6, <1>7, <1>8, <1>9, <1>10, <1>11, Steps

\* Initially nobody was told.
LEMMA TellStart == Init => TellInv
BY TellBlank DEF Init, DeliveryInit, Selected

\* The notification goes to each channel once, always.
LEMMA TellAlways == Spec => []TellInv
BY TellStart, TellNext, PickAlways, PTL DEF Spec

\* When a run has marked its user signals, one channel took all the cards of the
\* users, or as many as it presents, whichever channels failed (manager.py:63).
THEOREM MarkedReached == Spec => []MarkedReachedAChannel
<1>1. TellInv => MarkedReachedAChannel
  BY DEF TellInv, MarkedReachedAChannel, Reached
<1>2. QED
  BY <1>1, TellAlways, PTL
=============================================================================
