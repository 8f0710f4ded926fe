------------------------------ MODULE Inbound ------------------------------
(***************************************************************************)
(* Messages of users and what becomes of them.  TelegramInboundService     *)
(* polls for updates from an offset, handles them one after another and    *)
(* saves the offset after the last; DingTalk and the API push theirs.  All *)
(* end in the inbox, whose own races Inbox.tla models.                     *)
(***************************************************************************)
EXTENDS Naturals, Sequences, FiniteSets

CONSTANTS
    Topics,         \* what tracking ids are made of: the first link or the text
    Updates,        \* bound: the updates users send to the bot, in order
    Pushes          \* bound: what DingTalk and the API push

MessageKinds == {"save", "brief_now", "help", "stranger"}
Messages == [kind : MessageKinds, topic : Topics]

ASSUME InboundAssumption ==
    /\ Updates \in Seq(Messages)
    /\ Pushes \subseteq Messages

VARIABLES
    sent,       \* updates sent so far
    confirmed,  \* the bot API deletes updates before this number
    offset,     \* TelegramInboundService._offset
    saved,      \* telegram_ingest_state.json
    incoming,   \* the updates of the poll that are not handled
    upTo,       \* the offset after them
    tracked,    \* the topics in the inbox
    briefed,    \* those that a brief has shown
    attempts    \* ghost: how often each update was handled

telegramVars == <<confirmed, offset, saved, incoming, upTo, attempts>>
inboxVars == <<tracked, briefed>>
inboundVars == <<sent, telegramVars, inboxVars>>

InboundInit ==
    /\ sent = 0 /\ confirmed = 0 /\ offset = 0 /\ saved = 0
    /\ incoming = <<>> /\ upTo = 0
    /\ tracked = {} /\ briefed = {}
    /\ attempts = [n \in DOMAIN Updates |-> 0]

\* Updates are numbered from 1; an edit of a message is an update too.
Send ==
    /\ sent < Len(Updates)
    /\ sent' = sent + 1
    /\ UNCHANGED <<telegramVars, inboxVars>>

\* _handle_message, and the same in DingTalk and POST /ingest: what is to be
\* saved gets or keeps its row, a follow-up keeps its mark; a request for an
\* immediate brief is answered and not stored.
Store(message) ==
    tracked' = IF message.kind = "save" THEN tracked \cup {message.topic} ELSE tracked

\* An update id that is not handled is not deleted by the bot API.
FirstLeft == IF confirmed < offset THEN offset ELSE confirmed
From == IF FirstLeft = 0 THEN 1 ELSE FirstLeft

\* Mutant of Poll: the offset is moved when the updates arrive.
PollAndMove ==
    /\ incoming = <<>> /\ upTo = offset
    /\ From <= sent
    /\ confirmed' = FirstLeft
    /\ incoming' = [i \in 1..(sent - From + 1) |-> From + i - 1]
    /\ upTo' = sent + 1
    /\ offset' = sent + 1 /\ saved' = sent + 1
    /\ UNCHANGED <<sent, attempts, inboxVars>>

\* Mutant of Poll: the offset after the updates is the id of the last.
PollShort ==
    /\ incoming = <<>> /\ upTo = offset
    /\ From <= sent
    /\ confirmed' = FirstLeft
    /\ incoming' = [i \in 1..(sent - From + 1) |-> From + i - 1]
    /\ upTo' = sent
    /\ UNCHANGED <<sent, offset, saved, attempts, inboxVars>>

\* _fetch_updates: asking from an offset confirms what comes before it.
Poll ==
    /\ incoming = <<>> /\ upTo = offset
    /\ From <= sent
    /\ confirmed' = FirstLeft
    /\ incoming' = [i \in 1..(sent - From + 1) |-> From + i - 1]
    /\ upTo' = sent + 1
    /\ UNCHANGED <<sent, offset, saved, attempts, inboxVars>>

\* Mutant of Handle: an exception ends the batch.
HandleUntilFailure(raises) ==
    /\ incoming # <<>>
    /\ attempts' = [attempts EXCEPT ![Head(incoming)] = @ + 1]
    /\ incoming' = IF raises THEN <<>> ELSE Tail(incoming)
    /\ IF raises THEN UNCHANGED tracked ELSE Store(Updates[Head(incoming)])
    /\ UNCHANGED <<sent, confirmed, offset, saved, upTo, briefed>>

\* One turn of _handle_updates; an exception is logged and the loop goes on.
Handle(raises) ==
    /\ incoming # <<>>
    /\ attempts' = [attempts EXCEPT ![Head(incoming)] = @ + 1]
    /\ incoming' = Tail(incoming)
    /\ IF raises THEN UNCHANGED tracked ELSE Store(Updates[Head(incoming)])
    /\ UNCHANGED <<sent, confirmed, offset, saved, upTo, briefed>>

\* The end of _handle_updates; if the file cannot be saved the offset is still
\* the one to poll from.
SaveOffset(fails) ==
    /\ incoming = <<>> /\ upTo # offset
    /\ offset' = upTo
    /\ saved' = IF fails THEN saved ELSE upTo
    /\ UNCHANGED <<sent, confirmed, incoming, upTo, attempts, inboxVars>>

\* A message of the channels that push; one that raises is not stored.
Push(message) ==
    /\ Store(message)
    /\ UNCHANGED <<sent, telegramVars, briefed>>

MarkBriefed(topics) == briefed' = briefed \cup (topics \cap tracked)

\* The process dies and loads the saved offset; a write that dies leaves a
\* file that reads as no offset.
CrashTelegram ==
    /\ \/ saved' = saved
       \/ incoming = <<>> /\ upTo # offset /\ saved' \in {0, upTo}
    /\ offset' = saved' /\ upTo' = saved'
    /\ incoming' = <<>>
    /\ UNCHANGED <<sent, confirmed, attempts>>

-----------------------------------------------------------------------------
(* Properties.                                                             *)

InboundTypeOK ==
    /\ sent \in 0..Len(Updates)
    /\ {confirmed, offset, saved, upTo} \subseteq 0..(sent + 1)
    /\ incoming \in Seq(1..sent)
    /\ tracked \subseteq Topics /\ briefed \subseteq tracked
    /\ attempts \in [DOMAIN Updates -> Nat]

\* An update is not deleted from the bot API, nor passed by the offset, before
\* somebody has tried to handle it (telegram_service.py:124), whatever crashes
\* between the poll and the save of the offset.
NoUpdateIsSkipped ==
    \A n \in 1..sent : (n < confirmed \/ n < offset \/ n < saved) => attempts[n] > 0
=============================================================================
