------------------------------ MODULE Delivery ------------------------------
(***************************************************************************)
(* From the signals of a brief to the cards a user receives.  The          *)
(* BriefingGenerator has a block composed for each signal and remembers    *)
(* the compositions; the brief, its audio script and the notification each *)
(* ask for the blocks again, and a signal without a block is left out.     *)
(* The NotificationManager sends the cards to its channels in turn.        *)
(***************************************************************************)
EXTENDS Naturals, Sequences, FiniteSets

CONSTANTS
    Template,       \* does every signal get a block: in English, without a
                    \* localizer, or with BRIEFING_ALLOW_TEMPLATE_FALLBACK
    CacheLimit,     \* compositions remembered before the cache is cleared
    Order,          \* the configured channels, in their order
    MaxCards        \* cards of a notification

ASSUME DeliveryAssumption ==
    /\ Template \in BOOLEAN
    /\ CacheLimit \in Nat /\ MaxCards \in Nat \ {0}
    /\ Order \in Seq({"telegram", "dingtalk"})
    /\ \A i, j \in DOMAIN Order : i # j => Order[i] # Order[j]

Channels == {Order[i] : i \in DOMAIN Order}

VARIABLES
    blocks,     \* _compose_cache: the signals with a block, by composition
    drafted,    \* the signals in the text of the brief
    cards,      \* those the notification presents
    toTell,     \* the channels it has not been sent to
    told,       \* the channels that took all of it
    heard,      \* the cards that reached each channel
    cleared     \* ghost: has the cache lost a composition since the brief?

deliveryVars == <<blocks, drafted, cards, toTell, told, heard, cleared>>
noticeVars == <<toTell, told, heard>>

NoBlocks == [k \in {} |-> {}]
Nobody == [c \in Channels |-> {}]

DeliveryInit ==
    /\ blocks = NoBlocks
    /\ drafted = {} /\ cards = {}
    /\ toTell = <<>> /\ told = {} /\ heard = Nobody
    /\ cleared = FALSE

-----------------------------------------------------------------------------
(* Composing.                                                              *)

\* The signals that have a block whatever the model writes.
Fallback(ids) == IF Template THEN ids ELSE {}

\* The signals without a block: the model writes no valid one in two attempts.
Failures(ids) == SUBSET (ids \ Fallback(ids))

\* A cleared cache starts with the new composition.
Kept == IF Cardinality(DOMAIN blocks) > CacheLimit THEN {} ELSE DOMAIN blocks

Remember(key, got) ==
    blocks' = [k \in Kept \cup {key} |-> IF k = key THEN got ELSE blocks[k]]

\* Mutant of Compose: nothing is remembered.
ComposeAnew(key, ids, failing, got) ==
    /\ failing \in Failures(ids)
    /\ got = ids \ failing
    /\ UNCHANGED blocks

\* _compose_cn_blocks: a composition that is remembered is not asked for again,
\* with the signals it left out.
Compose(key, ids, failing, got) ==
    IF ids = {} THEN got = {} /\ failing = {} /\ UNCHANGED blocks
    ELSE IF key \in DOMAIN blocks THEN got = blocks[key] /\ failing = {} /\ UNCHANGED blocks
    ELSE /\ failing \in Failures(ids)
         /\ got = ids \ failing
         /\ Remember(key, got)

\* generate: the text of the brief.
Draft(key, ids, failing) ==
    /\ Compose(key, ids, failing, drafted')
    /\ cleared' = FALSE
    /\ UNCHANGED <<cards, noticeVars>>

\* generate_audio_script.
Script(key, ids, failing) ==
    /\ \E spoken \in SUBSET ids : Compose(key, ids, failing, spoken)
    /\ UNCHANGED <<drafted, cards, noticeVars, cleared>>

\* build_signal_cards, and the channels the notification goes to.
MakeCards(key, ids, failing) ==
    /\ Compose(key, ids, failing, cards')
    /\ toTell' = Order
    /\ UNCHANGED <<drafted, told, heard, cleared>>

\* brief_user_signal composes a signal of its own, from the thread of the
\* message.
ComposeElsewhere(key) ==
    /\ Remember(key, {})
    /\ cleared' = (cleared \/ Kept # DOMAIN blocks)
    /\ UNCHANGED <<drafted, cards, noticeVars>>

\* update_config replaces the generator.
ReplaceGenerator ==
    /\ blocks' = NoBlocks
    /\ cleared' = TRUE
    /\ UNCHANGED <<drafted, cards, noticeVars>>

-----------------------------------------------------------------------------
(* Notifying.                                                              *)

\* The cards a renderer keeps: those of the users come first.
Capped(first) ==
    {some \in SUBSET cards :
        /\ Cardinality(some) = (IF Cardinality(cards) < MaxCards THEN Cardinality(cards) ELSE MaxCards)
        /\ some \subseteq first \/ cards \cap first \subseteq some}

\* What a channel that fails may have delivered: Telegram sends each card in a
\* message of its own, DingTalk all in one.
Partly(channel, some) ==
    IF channel = "telegram" THEN SUBSET some ELSE {{}, some}

\* Mutant of Tell: a channel counts once it was tried.
TellTried(channel, first, fails) ==
    /\ toTell # <<>> /\ channel = Head(toTell)
    /\ toTell' = Tail(toTell)
    /\ \E some \in Capped(first) : \E out \in (IF fails THEN Partly(channel, some) ELSE {some}) :
          heard' = [heard EXCEPT ![channel] = out]
    /\ told' = told \cup {channel}
    /\ UNCHANGED <<blocks, drafted, cards, cleared>>

\* One turn of notify: an exception is recorded and the next channel is tried.
Tell(channel, first, fails) ==
    /\ toTell # <<>> /\ channel = Head(toTell)
    /\ toTell' = Tail(toTell)
    /\ \E some \in Capped(first) : \E out \in (IF fails THEN Partly(channel, some) ELSE {some}) :
          heard' = [heard EXCEPT ![channel] = out]
    /\ told' = IF fails THEN told ELSE told \cup {channel}
    /\ UNCHANGED <<blocks, drafted, cards, cleared>>

ForgetNotice ==
    /\ drafted' = {} /\ cards' = {}
    /\ toTell' = <<>> /\ told' = {} /\ heard' = Nobody
    /\ cleared' = FALSE

=============================================================================
