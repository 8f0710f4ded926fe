------------------------------- MODULE Digest -------------------------------
(***************************************************************************)
(* From what a run extracts to what its readers get: the run resolves its  *)
(* signals against the stored stories, saves them, joins them with the     *)
(* users' submissions into a brief, has it spoken, writes the output       *)
(* files, notifies and calls the webhooks, while messages arrive, workers  *)
(* subscribe and reconfigure, time passes, and the process may die at any  *)
(* step and start again.                                                   *)
(*                                                                         *)
(* One run at a time: Pipeline.tla models the lock, the reports of a run   *)
(* and its ingestion.                                                      *)
(***************************************************************************)
EXTENDS Stories, Outputs, Webhooks, Inbound, Delivery

CONSTANTS
    Voice,      \* tts.enabled
    Batches,    \* bound: the sequences of items a run may ingest
    Budgets     \* bound: the runs, those that start in the second of the run
                \* before, passing half days, messages, calls of the API and
                \* faults of a behaviour

Budgeted == [runs : Nat, twins : Nat, days : Nat, messages : Nat, calls : Nat, faults : Nat]

ASSUME DigestAssumption ==
    /\ \A batch \in Batches : batch \in Seq(Items)
    /\ OutputKinds = {"md", "signals", "brief", "mp3"}
    /\ Voice \in BOOLEAN
    /\ Budgets \subseteq Budgeted

VARIABLES
    now,        \* half days
    stage,      \* what the run does next
    run,        \* runs started: the serial number of the run
    second,     \* what its run id is made of
    slot,       \* the morning or evening of its brief
    chosen,     \* the system signals of its brief
    shown,      \* the topics of its brief: those the inbox gave it
    context,    \* do its blocks depend on what it fetched, and in which run?
    audio,      \* has it an audio file?
    announced,  \* ghost: the reports briefs have called new, and when
    restarts,   \* ghost
    left        \* bound: what is left of the behaviour's budget

selection == <<slot, chosen, shown, context, audio>>
runVars == <<stage, run, second, selection>>
vars == <<storyVars, memory, outputVars, hookVars, inboundVars, deliveryVars, now, runVars, announced, restarts, left>>

Writing == {"md", "signals", "brief", "mp3"}
Stages == {"idle", "resolve", "canonical", "events", "select", "draft", "speak"} \cup Writing
              \cup {"rows", "cards", "notify", "publish", "call"}

Init ==
    /\ StoriesInit /\ OutputsInit /\ WebhooksInit /\ InboundInit /\ DeliveryInit
    /\ now = 0
    /\ stage = "idle" /\ run = 0 /\ second = 0
    /\ slot = 0 /\ chosen = {} /\ shown = {}
    /\ context = 0 /\ audio = FALSE
    /\ announced = {} /\ restarts = 0
    /\ left \in Budgets

Spend(what) == left[what] > 0 /\ left' = [left EXCEPT ![what] = @ - 1]
Fault == Spend("faults")

\* What the steps of the other components leave alone.
NoStory == UNCHANGED <<storyVars, memory>>
RunOnly == UNCHANGED <<hookVars, inboundVars, now, restarts>>
NoDelivery == UNCHANGED deliveryVars
NoRun == UNCHANGED <<storyVars, memory, outputVars, runVars, announced>>

-----------------------------------------------------------------------------
(* A run.                                                                  *)

\* Two runs may start in the same second and share a run id.
StartRun ==
    /\ stage = "idle"
    /\ left.runs > 0
    /\ \/ second' = second + 1 /\ left' = [left EXCEPT !.runs = @ - 1]
       \/ /\ left.twins > 0 /\ UNCHANGED second
          /\ left' = [left EXCEPT !.runs = @ - 1, !.twins = @ - 1]
    /\ stage' = "resolve"
    /\ run' = run + 1
    /\ \E batch \in Batches : BeginResolving(batch, now)
    /\ UNCHANGED <<outputVars, selection, announced>> /\ RunOnly /\ NoDelivery

Resolve ==
    /\ stage = "resolve"
    /\ IF todo = <<>> THEN stage' = "canonical" /\ NoStory
       ELSE ResolveOne(run) /\ UNCHANGED stage
    /\ UNCHANGED <<outputVars, run, second, selection, announced, left>> /\ RunOnly /\ NoDelivery

StoreCanonical ==
    /\ stage = "canonical"
    /\ SaveCanonical
    /\ stage' = "events"
    /\ UNCHANGED <<outputVars, run, second, selection, announced, left>> /\ RunOnly /\ NoDelivery

StoreEvents ==
    /\ stage = "events"
    /\ SaveEvents
    /\ stage' = "select"
    /\ UNCHANGED <<outputVars, run, second, selection, announced, left>> /\ RunOnly /\ NoDelivery

\* The inbox, priorities and the filter.  A user signal has the tracking id of its
\* inbox row, by which the priority engine and the filter tell user signals apart,
\* so that both keep one of each topic; system signals get the room they leave.
\* What the run fetched of a topic is part of what its block is made of; a system
\* signal is new in every run.
Select ==
    /\ stage = "select"
    /\ chosen' \in Selections(accepted, Cardinality(tracked \ briefed), known, now)
    /\ shown' = tracked \ briefed
    /\ context' \in IF chosen' = {} /\ shown' # {} THEN {0, run} ELSE {0}
    /\ slot' = now
    /\ stage' = "draft"
    /\ NoStory /\ NoDelivery
    /\ UNCHANGED <<outputVars, run, second, audio, announced, left>> /\ RunOnly

UserCards == {<<0, u>> : u \in shown}
Picked == {s.id : s \in chosen} \cup UserCards

\* _compose_cache_key: the signals and their contexts.
Composition == [ids |-> Picked, of |-> context, nth |-> 0]

\* The model's failures are among the faults.
SomeFail(failing) == IF failing = {} THEN UNCHANGED left ELSE Fault

\* The text of the brief.
WriteBrief ==
    /\ stage = "draft"
    /\ \E failing \in SUBSET Picked : Draft(Composition, Picked, failing) /\ SomeFail(failing)
    /\ announced' = announced \cup
          {[report |-> ReportOf(s), run |-> run, at |-> s.at, told |-> now] :
              s \in {c \in chosen : c.kind = "new" /\ c.id \in drafted'}}
    /\ stage' = IF Voice THEN "speak" ELSE "md"
    /\ NoStory
    /\ UNCHANGED <<outputVars, run, second, selection>> /\ RunOnly

\* The audio; without it the run goes on.
Speak ==
    /\ stage = "speak"
    /\ \/ /\ Script(Composition, Picked, {})
          /\ audio' = TRUE /\ UNCHANGED left
       \/ /\ \E failing \in SUBSET Picked : Script(Composition, Picked, failing)
          /\ audio' \in BOOLEAN /\ Fault
    /\ stage' = "md"
    /\ NoStory
    /\ UNCHANGED <<outputVars, run, second, slot, chosen, shown, context, announced>> /\ RunOnly

Written(kind) == Content(kind, second, run, drafted)

After(kind) ==
    CASE kind = "md" -> "signals" [] kind = "signals" -> "brief"
      [] kind = "brief" -> (IF audio THEN "mp3" ELSE "rows") [] kind = "mp3" -> "rows"

WriteOne ==
    /\ stage \in Writing
    /\ WriteOutput(stage, slot, Written(stage))
    /\ stage' = After(stage)
    /\ NoStory /\ NoDelivery
    /\ UNCHANGED <<run, second, selection, announced, left>> /\ RunOnly

WriteRow ==
    /\ stage = "rows"
    /\ AppendRow(second, run, slot)
    /\ stage' = "cards"
    /\ NoStory /\ NoDelivery
    /\ UNCHANGED <<run, second, selection, announced, left>> /\ RunOnly

\* An exception while the outputs are written is recorded; the run goes on.
OutputsFail ==
    /\ stage \in Writing \cup {"rows"}
    /\ \/ stage \in Writing /\ NamesExhausted(stage, slot, Written(stage)) /\ UNCHANGED left
       \/ Fault
    /\ ForgetNames
    /\ stage' = "cards"
    /\ NoStory /\ NoDelivery
    /\ UNCHANGED <<outputs, rows, run, second, selection, announced>> /\ RunOnly

\* The cards of the notification.
PrepareCards ==
    /\ stage = "cards"
    /\ \E failing \in SUBSET Picked : MakeCards(Composition, Picked, failing) /\ SomeFail(failing)
    /\ stage' = "notify"
    /\ NoStory
    /\ UNCHANGED <<outputVars, run, second, selection, announced>> /\ RunOnly

TellOne ==
    /\ stage = "notify"
    /\ \E channel \in Channels :
          \/ Tell(channel, UserCards, FALSE) /\ UNCHANGED left
          \/ Tell(channel, UserCards, TRUE) /\ Fault
    /\ NoStory
    /\ UNCHANGED <<outputVars, runVars, announced>> /\ RunOnly

\* If a channel took the brief all its user signals are marked.
Notified ==
    /\ stage = "notify" /\ toTell = <<>>
    /\ IF told # {} THEN MarkBriefed(shown) ELSE UNCHANGED briefed
    /\ stage' = "publish"
    /\ NoStory /\ NoDelivery
    /\ UNCHANGED <<outputVars, hookVars, sent, telegramVars, tracked, now, run, second,
                   selection, announced, restarts, left>>

Publish ==
    /\ stage = "publish"
    /\ ListSubs
    /\ stage' = "call"
    /\ NoStory /\ NoDelivery
    /\ UNCHANGED <<outputVars, inboundVars, now, run, second, selection, announced, restarts, left>>

CallOne ==
    /\ stage = "call"
    /\ \E id \in toCall : \E fails \in BOOLEAN : Call(id, fails)
    /\ NoStory /\ NoDelivery
    /\ UNCHANGED <<outputVars, inboundVars, now, runVars, announced, restarts, left>>

ClearRun ==
    /\ stage' = "idle"
    /\ slot' = 0 /\ chosen' = {} /\ shown' = {}
    /\ context' = 0 /\ audio' = FALSE
    /\ StopResolving
    /\ ForgetNames /\ ForgetNotice
    /\ UNCHANGED <<run, second>>

EndRun ==
    /\ stage = "call" /\ toCall = {}
    /\ ClearRun
    /\ EndCalls
    /\ UNCHANGED <<storyFiles, patchy, engine, overtaken, blocks, outputs, rows, subs, hookLock, loaded,
                   asked, inboundVars, now, announced, restarts, left>>

\* What was saved of the run's stories stays, or the file that was being written is
\* lost, and with the history the memory of what was announced.
LeaveStories ==
    /\ IF stage = "events" THEN LeaveUnrecorded ELSE UNCHANGED patchy
    /\ UNCHANGED <<storyFiles, announced>>

BreakStories ==
    \/ LeaveStories
    \/ stage = "canonical" /\ TearHistory /\ announced' = {}
    \/ stage = "events" /\ TearEvents /\ UNCHANGED announced

\* An exception the run does not survive.
RunFails ==
    /\ stage \in {"resolve", "canonical", "events", "select", "draft", "speak"}
    /\ Fault
    /\ ClearRun
    /\ \/ BreakStories /\ UNCHANGED engine
       \/ FailToSave /\ UNCHANGED announced
    /\ UNCHANGED <<overtaken, blocks, outputs, rows>> /\ RunOnly

-----------------------------------------------------------------------------
(* Messages, subscriptions and time.                                       *)

\* An immediate brief of a message has a block composed.
Briefed(message, of, nth) ==
    IF message.kind = "brief_now" THEN ComposeElsewhere([ids |-> {}, of |-> of, nth |-> nth])
    ELSE NoDelivery

Telegram ==
    \/ /\ Handle(FALSE)
       /\ LET n == Head(incoming) IN Briefed(Updates[n], n, 1 + attempts[n])
       /\ NoRun /\ UNCHANGED <<hookVars, now, restarts, left>>
    \/ /\ Handle(TRUE) /\ Fault
       /\ NoRun /\ NoDelivery /\ UNCHANGED <<hookVars, now, restarts>>
    \/ /\ Poll \/ SaveOffset(FALSE)
       /\ NoRun /\ NoDelivery /\ UNCHANGED <<hookVars, now, restarts, left>>

SendsUpdate ==
    /\ Spend("messages")
    /\ Send
    /\ NoRun /\ NoDelivery /\ UNCHANGED <<hookVars, now, restarts>>

Pushed ==
    /\ Spend("messages")
    /\ \E message \in Pushes : Push(message) /\ Briefed(message, 0, left.messages)
    /\ NoRun /\ UNCHANGED <<hookVars, now, restarts>>

OffsetNotSaved ==
    /\ Fault
    /\ SaveOffset(TRUE)
    /\ NoRun /\ NoDelivery /\ UNCHANGED <<hookVars, now, restarts>>

BeginHooking ==
    /\ Spend("calls")
    /\ \E w \in Hookers : LoadSubs(w)
    /\ NoRun /\ NoDelivery /\ UNCHANGED <<inboundVars, now, restarts>>

EndHooking ==
    /\ \E w \in Hookers, id \in Subscriptions : Subscribe(w, id) \/ Unsubscribe(w, id)
    /\ NoRun /\ NoDelivery /\ UNCHANGED <<inboundVars, now, restarts, left>>

\* POST /config and POST /strategy/deploy end with update_config, which replaces
\* the generator and the engine, whatever the run does with them.
Reconfigure ==
    /\ Spend("calls")
    /\ ReplaceGenerator
    /\ InstallEngine
    /\ UNCHANGED <<storyVars, outputVars, runVars, announced, hookVars, inboundVars, now, restarts>>

TimePasses ==
    /\ Spend("days")
    /\ now' = now + 1
    /\ NoRun /\ NoDelivery /\ UNCHANGED <<hookVars, inboundVars, restarts>>

-----------------------------------------------------------------------------
(* The process dies, and starts again.                                     *)

\* The file that was being written may be lost.
CrashStories ==
    /\ BreakStories \/ (TearVerdicts /\ UNCHANGED announced)
    /\ RestartEngine

CrashOutputs ==
    \/ UNCHANGED <<outputs, rows>>
    \/ stage \in Writing /\ TearOutput(stage, slot, Written(stage))
    \/ stage = "rows" /\ TearRows

Crash ==
    /\ Fault
    /\ ClearRun
    /\ CrashStories
    /\ CrashOutputs
    /\ CrashHooks
    /\ CrashTelegram
    /\ blocks' = NoBlocks
    /\ UNCHANGED inboxVars \/ (tracked' = {} /\ briefed' = {})
    /\ restarts' = restarts + 1
    /\ UNCHANGED now

-----------------------------------------------------------------------------
(* The specification.                                                      *)

RunStep ==
    \/ Resolve \/ StoreCanonical \/ StoreEvents \/ Select
    \/ WriteBrief \/ Speak \/ WriteOne \/ WriteRow
    \/ PrepareCards \/ TellOne \/ Notified \/ Publish \/ CallOne \/ EndRun

Next ==
    \/ StartRun \/ RunStep \/ OutputsFail \/ RunFails
    \/ Telegram \/ SendsUpdate \/ Pushed \/ OffsetNotSaved
    \/ BeginHooking \/ EndHooking \/ Reconfigure
    \/ TimePasses \/ Crash

Spec == Init /\ [][Next]_vars

\* The polling thread goes on: its requests have a timeout and it survives
\* every exception.
FairSpec == Spec /\ WF_vars(Telegram)

-----------------------------------------------------------------------------
(* Properties.                                                             *)

TypeOK ==
    /\ StoriesTypeOK /\ InboundTypeOK
    /\ DOMAIN named \subseteq OutputKinds
    /\ drafted \subseteq Picked /\ cards \subseteq Picked
    /\ told \subseteq Channels /\ toTell \in Seq(Channels)
    /\ heard \in [Channels -> SUBSET cards]
    /\ \A k \in DOMAIN blocks : blocks[k] \subseteq k.ids
    /\ cleared \in BOOLEAN /\ audio \in BOOLEAN /\ context \in 0..run
    /\ hookLock \in Hookers \cup {NoHooker}
    /\ subs \subseteq Subscriptions
    /\ DOMAIN loaded \subseteq Hookers /\ \A w \in DOMAIN loaded : loaded[w] \subseteq Subscriptions
    /\ now \in Nat /\ stage \in Stages /\ run \in Nat /\ second \in Nat /\ restarts \in Nat
    /\ slot \in 0..now
    /\ shown \subseteq Topics
    /\ chosen \subseteq accepted
    /\ announced \subseteq [report : Reports, run : 1..run, at : 0..now, told : 0..now]
    /\ left \in Budgeted

Selected == stage \notin {"idle", "resolve", "canonical", "events", "select"}

\* A system signal that the run stored, so that later runs take it for known, is
\* missing in its brief for a reason: it is below its threshold, the history has
\* it, another signal of its event is at least as good, or the brief is full of
\* signals that rank at least as high.
LeftOutForAReason ==
    Selected => \A s \in accepted \ chosen :
        \/ ~Passes(s, accepted)
        \/ s.kind = "new" /\ ReportOf(s) \in Seen(known, slot)
        \/ \E t \in accepted \ {s} : t.event = s.event /\ Final(t, accepted) >= Final(s, accepted)
        \/ /\ Cardinality(chosen) = Room(Cardinality(shown))
           /\ \A t \in chosen : Rank(t, accepted, known) >= Rank(s, accepted, known)

\* The notification presents the very signals of the brief on disk, although
\* both have them composed and the model may fail each time, unless the cache
\* was cleared for immediate briefs or its generator was replaced in between
\* (generator.py:305, pipeline.py:94).
NoticeIsTheBrief ==
    (stage \in {"notify", "publish", "call"} /\ ~cleared) => cards = drafted

\* When a run has marked its user signals, one channel has received all the cards
\* of the users, or as many as a notification holds; a channel that broke off
\* does not count (manager.py:63).
MarkedReachedAChannel ==
    (stage \in {"publish", "call"} /\ shown \cap briefed # {}) =>
        \E channel \in told :
            \/ cards \cap UserCards \subseteq heard[channel]
            \/ Cardinality(heard[channel] \cap UserCards) = MaxCards

\* Whatever relations the model judges, a report is called new by one brief only
\* within the dedup window of its extraction, over runs, failed runs and restarts,
\* unless a broken write has emptied the history in between.  A report is its
\* fingerprint: a text that is extracted again under another title, link or
\* summary is another report.
AnnouncedOnce ==
    \A f, g \in announced :
        (f.report = g.report /\ f.run < g.run) => f.at + DedupWindow < g.told

\* Every stored signal is in the timeline of its event, unless the timeline is
\* full or the run ended between the two saves (pipeline.py:215) or the events
\* file was torn: an update finds the record of its event over runs.
SignalsAreInTimelines ==
    stage # "events" => \A s \in history : s.event \notin patchy =>
        /\ s.event \in DOMAIN events
        /\ \/ Len(events[s.event]) = MaxTimeline
           \/ \E i \in DOMAIN events[s.event] : events[s.event][i] = s.id

\* A pair of reports is judged once: the file keeps the first answer, over runs,
\* failed saves, reconfigurations and restarts, until a write of it is torn, unless
\* the installed engine was made while its predecessor compared
\* (llm_dedup_engine.py:25): what that comparison saved, the new engine does not
\* have and erases with its next save.
VerdictsAreKept ==
    [][verdicts' = NoFile \/ overtaken \/ \A k \in DOMAIN verdicts :
          k \in DOMAIN verdicts' /\ verdicts'[k] = verdicts[k]]_vars

\* An update is handled again only after a restart that came before the offset
\* was saved (telegram_service.py:124).
RepeatsNeedRestarts == \A n \in DOMAIN attempts : attempts[n] <= 1 + restarts

\* Again and again all that was sent to the bot has been handled: no message waits
\* forever, whatever its predecessors raise.
MessagesAreHandled == []<>(\A n \in 1..sent : attempts[n] > 0)
=============================================================================
