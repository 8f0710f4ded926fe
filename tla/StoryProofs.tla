----------------------------- MODULE StoryProofs -----------------------------
(***************************************************************************)
(* Proofs about what Digest remembers: the stored stories, the verdicts,   *)
(* the timelines, the announcements and the output files; and that every   *)
(* variable of Digest keeps its type.                                      *)
(***************************************************************************)
EXTENDS DigestProofs

-----------------------------------------------------------------------------
(* Steps.                                                                  *)

\* A step that only looks at the stories.
LookStep ==
    \/ QuietStep \/ MessageStep \/ Reconfigure
    \/ Select \/ WriteBrief \/ Speak \/ PrepareCards \/ TellOne \/ Notified

\* The steps after the stories are stored leave them alone.
LEMMA LookSteps ==
    ASSUME LookStep
    PROVE  UNCHANGED storyVars
<1>1. CASE QuietStep
  BY <1>1, QuietSteps
<1>2. CASE MessageStep \/ Reconfigure
  BY <1>2 DEF MessageStep, Telegram, Pushed, Reconfigure, NoRun
<1>3. CASE Select \/ WriteBrief \/ Speak \/ PrepareCards \/ TellOne \/ Notified
  BY <1>3 DEF Select, WriteBrief, Speak, PrepareCards, TellOne, Notified, NoStory
<1>4. QED
  BY <1>1, <1>2, <1>3 DEF LookStep

\* A step looks at the stories, ends a run, or is one of the resolution.
LEMMA StorySteps ==
    ASSUME [Next]_vars
    PROVE  \/ LookStep \/ EndStep
           \/ StartRun \/ Resolve \/ StoreCanonical \/ StoreEvents
BY Steps DEF LookStep

\* The time passes alone, and only a start changes the serial number of the run.
LEMMA Clocks ==
    ASSUME [Next]_vars
    PROVE  /\ now' = now \/ (TimePasses /\ now' = now + 1)
           /\ run' = run \/ StartRun
<1>1. CASE QuietStep
  <2>1. run' = run
    BY <1>1, QuietSteps
  <2>2. now' = now \/ (TimePasses /\ now' = now + 1)
    <3>1. CASE WriteOne \/ WriteRow \/ OutputsFail
      BY <3>1, RunOnlySteps
    <3>2. CASE Publish \/ CallOne
      BY <3>2 DEF Publish, CallOne
    <3>3. CASE SendsUpdate \/ OffsetNotSaved \/ BeginHooking \/ EndHooking
      BY <3>3 DEF SendsUpdate, OffsetNotSaved, BeginHooking, EndHooking
    <3>4. CASE TimePasses \/ UNCHANGED vars
      BY <3>4 DEF TimePasses, vars
    <3>5. QED
      BY <1>1, <3>1, <3>2, <3>3, <3>4 DEF QuietStep
  <2>3. QED
    BY <2>1, <2>2
<1>2. CASE EndStep
  BY <1>2, RunOnlySteps, EndSteps DEF EndStep, EndRun, Crash, ClearRun
<1>3. CASE MessageStep \/ Reconfigure
  BY <1>3 DEF MessageStep, Telegram, Pushed, Reconfigure, NoRun, runVars
<1>4. CASE StartRun \/ Resolve \/ StoreCanonical \/ StoreEvents
  BY <1>4, RunOnlySteps DEF Resolve, StoreCanonical, StoreEvents
<1>5. CASE Select \/ WriteBrief \/ Speak \/ PrepareCards \/ TellOne \/ Notified
  BY <1>5, RunOnlySteps DEF Select, WriteBrief, Speak, PrepareCards, TellOne, Notified, runVars
<1>6. QED
  BY <1>1, <1>2, <1>3, <1>4, <1>5, Steps

\* What the end of a run leaves of the stories.
LEMMA EndOfStories ==
    ASSUME EndStep
    PROVE  /\ stage' = "idle" /\ accepted' = {} /\ known' = {} /\ records' = NoFile /\ taken' = 0
           /\ todo' = <<>> /\ asking' = NotAsking
           /\ \/ UNCHANGED storyFiles /\ (stage # "events" => UNCHANGED patchy)
                 /\ (stage = "events" => patchy' = patchy \cup {s.event : s \in accepted})
              \/ TearVerdicts
              \/ stage = "canonical" /\ TearHistory
              \/ stage = "events" /\ TearEvents
              \/ FailToSave
<1>1. /\ stage' = "idle" /\ accepted' = {} /\ known' = {} /\ records' = NoFile /\ taken' = 0
      /\ todo' = <<>> /\ asking' = NotAsking
  BY EndSteps DEF ClearRun, StopResolving
<1>2. CASE EndRun
  BY <1>1, <1>2 DEF EndRun
<1>3. CASE RunFails
  BY <1>1, <1>3 DEF RunFails, BreakStories, LeaveStories, LeaveUnrecorded
<1>4. CASE Crash
  BY <1>1, <1>4 DEF Crash, CrashStories, BreakStories, LeaveStories, LeaveUnrecorded
<1>5. QED
  BY <1>2, <1>3, <1>4 DEF EndStep

-----------------------------------------------------------------------------
(* The verdicts.                                                           *)

Keeps(old, new) == \A k \in DOMAIN old : k \in DOMAIN new /\ new[k] = old[k]

\* Unless it was installed during a comparison, the engine has every verdict of
\* the file, and a comparison in progress is its own.
EngineInv ==
    ~overtaken =>
        /\ Keeps(verdicts, engine)
        /\ asking # NotAsking => asking.own /\ Keeps(verdicts, asking.cache)

\* A comparison forgets nothing.
LEMMA LearnedKeeps ==
    ASSUME NEW answer, NEW cache \in Learned(answer)
    PROVE  Keeps(asking.cache, cache)
BY DEF Learned, Remembered, Keeps

\* A step that only looks at the stories leaves the verdicts and their engine
\* alone, unless it installs another engine.
LEMMA LookMemory ==
    ASSUME LookStep
    PROVE  UNCHANGED <<verdicts, memory>> \/ Reconfigure
<1> USE DEF storyVars, storyFiles
<1>1. CASE QuietStep
  <2>1. CASE WriteOne \/ WriteRow \/ OutputsFail
    BY <2>1 DEF WriteOne, WriteRow, OutputsFail, NoStory
  <2>2. CASE Publish \/ CallOne
    BY <2>2 DEF Publish, CallOne, NoStory
  <2>3. CASE SendsUpdate \/ OffsetNotSaved
    BY <2>3 DEF SendsUpdate, OffsetNotSaved, NoRun
  <2>4. CASE BeginHooking \/ EndHooking \/ TimePasses
    BY <2>4 DEF BeginHooking, EndHooking, TimePasses, NoRun
  <2>5. CASE UNCHANGED vars
    BY <2>5 DEF vars
  <2>6. QED
    BY <1>1, <2>1, <2>2, <2>3, <2>4, <2>5 DEF QuietStep
<1>2. CASE MessageStep
  BY <1>2 DEF MessageStep, Telegram, Pushed, NoRun
<1>3. CASE Select \/ WriteBrief \/ Speak \/ PrepareCards \/ TellOne \/ Notified
  BY <1>3 DEF Select, WriteBrief, Speak, PrepareCards, TellOne, Notified, NoStory
<1>4. QED
  BY <1>1, <1>2, <1>3 DEF LookStep

\* The other steps that leave them alone.
LEMMA MemorySteps ==
    ASSUME [Next]_vars
    PROVE  \/ UNCHANGED <<verdicts, memory>>
           \/ Resolve /\ ResolveOne(run)
           \/ EndStep \/ Reconfigure
<1> USE DEF storyVars, storyFiles
<1>1. CASE StartRun \/ StoreCanonical \/ StoreEvents
  BY <1>1 DEF StartRun, BeginResolving, StoreCanonical, SaveCanonical, StoreEvents, SaveEvents
<1>2. CASE Resolve
  BY <1>2 DEF Resolve, NoStory
<1>3. QED
  BY <1>1, <1>2, LookMemory, StorySteps

\* Every step keeps the verdicts of the file in the engine.
LEMMA EngineNext == EngineInv /\ [Next]_vars => EngineInv'
<1> SUFFICES ASSUME EngineInv, [Next]_vars
             PROVE  EngineInv'
  OBVIOUS
<1> USE DEF storyFiles, memory
<1>1. CASE UNCHANGED <<verdicts, memory>>
  BY <1>1 DEF EngineInv
<1>2. CASE ResolveOne(run)
  <2>1. overtaken' = overtaken
    BY <1>2, ResolveCases
  <2>2. CASE UNCHANGED <<verdicts, engine>> /\ UNCHANGED asking
    BY <2>1, <2>2 DEF EngineInv
  <2>3. CASE /\ UNCHANGED <<verdicts, engine>> /\ asking = NotAsking
             /\ \E near \in SUBSET Index : asking' = [near |-> near, cache |-> engine, own |-> TRUE]
    BY <2>1, <2>3 DEF EngineInv
  <2>4. CASE /\ asking # NotAsking /\ asking' = NotAsking
             /\ \E answer \in Answers : \E cache \in Learned(answer) : verdicts' = cache /\ Learn(cache)
    BY <2>1, <2>4 DEF EngineInv, Learn, Keeps
  <2>5. QED
    BY <1>2, <2>2, <2>3, <2>4, ResolveCases
<1>3. CASE EndStep
  <2>1. asking' = NotAsking
    BY <1>3, EndOfStories
  <2>2. CASE EndRun
    BY <2>1, <2>2 DEF EndRun, EngineInv
  <2>3. CASE RunFails /\ BreakStories /\ UNCHANGED engine
    BY <2>1, <2>3 DEF RunFails, BreakStories, LeaveStories, TearHistory, TearEvents, EngineInv
  <2>4. CASE RunFails /\ FailToSave
    <3>1. PICK answer \in Answers : \E cache \in Learned(answer) : Learn(cache)
      BY <2>4 DEF FailToSave
    <3>2. PICK cache \in Learned(answer) : Learn(cache)
      BY <3>1
    <3>3. /\ verdicts' \in {verdicts, NoFile} /\ overtaken' = overtaken /\ asking # NotAsking
      BY <2>4 DEF RunFails, FailToSave
    <3>4. Keeps(asking.cache, cache)
      BY <3>2, LearnedKeeps
    <3>5. ~overtaken => Keeps(verdicts, engine')
      BY <3>2, <3>3, <3>4 DEF EngineInv, Learn, Keeps
    <3>6. Keeps(NoFile, engine')
      BY DEF NoFile, Keeps
    <3>7. QED
      BY <2>1, <3>3, <3>5, <3>6 DEF EngineInv
  <2>5. CASE Crash
    BY <2>1, <2>5 DEF Crash, CrashStories, RestartEngine, EngineInv, Keeps
  <2>6. QED
    BY <1>3, <2>2, <2>3, <2>4, <2>5 DEF EndStep, RunFails
<1>4. CASE Reconfigure
  <2>1. /\ verdicts' = verdicts /\ InstallEngine
    BY <1>4 DEF Reconfigure, storyVars
  <2>2. QED
    BY <2>1 DEF InstallEngine, EngineInv, Keeps
<1>5. QED
  BY <1>1, <1>2, <1>3, <1>4, MemorySteps

\* Initially there are no verdicts.
LEMMA EngineInit == Init => EngineInv
BY DEF Init, StoriesInit, EngineInv, Keeps, NoFile

\* The file keeps the first verdict of a pair of reports, over runs, failed saves,
\* reconfigurations and restarts, until a write of it is torn or an engine saves
\* that was installed while its predecessor compared (llm_dedup_engine.py:74).
THEOREM VerdictsKept == Spec => VerdictsAreKept
<1>1. ASSUME EngineInv, [Next]_vars
      PROVE  verdicts' = NoFile \/ overtaken \/ Keeps(verdicts, verdicts')
  <2> USE DEF storyFiles, memory
  <2>1. Keeps(verdicts, verdicts)
    BY DEF Keeps
  <2>2. CASE UNCHANGED <<verdicts, memory>>
    BY <2>1, <2>2
  <2>3. CASE ResolveOne(run)
    <3>1. CASE verdicts' = verdicts
      BY <2>1, <3>1
    <3>2. CASE /\ asking # NotAsking
               /\ \E answer \in Answers : \E cache \in Learned(answer) : verdicts' = cache /\ Learn(cache)
      <4>1. Keeps(asking.cache, verdicts')
        BY <3>2, LearnedKeeps
      <4>2. QED
        BY <1>1, <3>2, <4>1 DEF EngineInv, Keeps
    <3>3. QED
      BY <2>3, <3>1, <3>2, ResolveCases
  <2>4. CASE EndStep
    BY <2>1, <2>4, EndOfStories DEF TearVerdicts, TearHistory, TearEvents, FailToSave
  <2>5. CASE Reconfigure
    BY <2>1, <2>5 DEF Reconfigure, storyVars
  <2>6. QED
    BY <1>1, <2>2, <2>3, <2>4, <2>5, MemorySteps
<1>2. QED
  BY <1>1, EngineInit, EngineNext, PTL DEF Spec, VerdictsAreKept, Keeps

-----------------------------------------------------------------------------
(* Types of the stories.                                                   *)

\* Only a run that resolves a signal compares it.
StoryTypes ==
    /\ StoriesTypeOK
    /\ run \in Nat /\ now \in Nat
    /\ asking # NotAsking => stage = "resolve" /\ todo # <<>>

\* An entry keeps the timelines within their limit.
LEMMA EnteredTypes ==
    ASSUME NEW book, Timelines(book), NEW s, s.id \in Ids, s.event \in Ids
    PROVE  Timelines(Entered(book, s))
<1> DEFINE before == IF s.event \in DOMAIN book THEN book[s.event]
                     ELSE IF s.kind = "new" THEN <<>> ELSE <<s.id>>
           after == Append(before, s.id)
           kept == IF Len(after) > MaxTimeline THEN Tail(after) ELSE after
<1>1. MaxTimeline \in Nat \ {0}
  BY StoriesAssumption
<1>2. before \in Seq(Ids) /\ Len(before) \in 0..MaxTimeline
  <2>1. CASE s.event \in DOMAIN book
    BY <1>1, <2>1 DEF Timelines
  <2>2. CASE s.event \notin DOMAIN book
    BY <1>1, <2>2
  <2>3. QED
    BY <2>1, <2>2
<1> HIDE DEF before
<1>3. after \in Seq(Ids) /\ Len(after) = Len(before) + 1
  BY <1>2
<1> HIDE DEF after
<1>4. kept \in Seq(Ids) /\ Len(kept) \in 1..MaxTimeline
  <2>1. CASE Len(after) > MaxTimeline
    <3>1. after # <<>> /\ Len(after) = MaxTimeline + 1
      BY <1>1, <1>2, <1>3, <2>1
    <3>2. Tail(after) \in Seq(Ids) /\ Len(Tail(after)) = MaxTimeline
      BY <1>1, <1>3, <3>1
    <3>3. QED
      BY <1>1, <2>1, <3>2
  <2>2. CASE ~(Len(after) > MaxTimeline)
    BY <1>1, <1>2, <1>3, <2>2
  <2>3. QED
    BY <2>1, <2>2
<1> HIDE DEF kept
<1>5. Entered(book, s) = [e \in DOMAIN book \cup {s.event} |-> IF e = s.event THEN kept ELSE book[e]]
  BY DEF Entered, kept, after, before
<1>6. QED
  BY <1>4, <1>5 DEF Timelines

\* What a signal is made of in the resolution.
LEMMA SignalTypes ==
    ASSUME StoryTypes, ResolveOne(run), NEW kind \in Kinds,
           NEW event \in {Here(run)} \cup {s.event : s \in Index \cup asking.near}
    PROVE  Signal(run, event, kind) \in Signals
<1>1. todo \in Seq(Extracts) /\ todo # <<>>
  BY ResolveCases DEF StoryTypes, StoriesTypeOK
<1>2. Head(todo) \in Extracts /\ Len(todo) \in Nat
  BY <1>1, HeadTailProperties
<1>3. Index \cup asking.near \subseteq Signals
  BY DEF StoryTypes, StoriesTypeOK, Index, Within
<1>4. Here(run) \in Ids /\ event \in Ids
  BY <1>2, <1>3 DEF Here, Ids, Extracts, Signals, StoryTypes
<1>5. QED
  BY <1>2, <1>4 DEF Signal, Signals, Extracts, StoryTypes, StoriesTypeOK

\* What a comparison learns are verdicts.
LEMMA LearnedTypes ==
    ASSUME StoryTypes, todo # <<>>, NEW answer \in Answers, NEW cache \in Learned(answer)
    PROVE  Verdicts(cache)
<1>1. Head(todo) \in Extracts
  BY HeadTailProperties DEF StoryTypes, StoriesTypeOK
<1>2. \A s \in DOMAIN answer : Pair(Head(todo).report, s) \in Reports \X Reports
  BY <1>1 DEF Pair, ReportOf, Answers, Unjudged, Extracts, Signals, Ids, StoryTypes, StoriesTypeOK
<1>3. cache \in [DOMAIN asking.cache \cup {Pair(Head(todo).report, s) : s \in DOMAIN answer} -> Relations]
  BY DEF Learned, Remembered
<1>4. QED
  BY <1>2, <1>3 DEF Verdicts, StoryTypes, StoriesTypeOK

\* The resolution of a signal keeps the types of the stories.
LEMMA ResolveTypes ==
    ASSUME StoryTypes, ResolveOne(run)
    PROVE  StoriesTypeOK'
<1>1. todo' \in Seq(Extracts) /\ todo # <<>>
  <2>1. todo \in Seq(Extracts) /\ todo # <<>> /\ (todo' = Tail(todo) \/ todo' = todo)
    BY ResolveCases DEF StoryTypes, StoriesTypeOK
  <2>2. QED
    BY <2>1, HeadTailProperties
<1>2. accepted' \subseteq Signals /\ Timelines(records')
  <2>1. CASE UNCHANGED <<records, accepted>>
    BY <2>1 DEF StoryTypes, StoriesTypeOK
  <2>2. ASSUME NEW s \in Signals, Accept(s)
        PROVE  accepted' \subseteq Signals /\ Timelines(records')
    BY <2>2, EnteredTypes DEF Accept, StoryTypes, StoriesTypeOK, Signals
  <2>3. QED
    BY <2>1, <2>2, SignalTypes, ResolveCases
<1>3. /\ Verdicts(verdicts') /\ Verdicts(engine') /\ Verdicts(asking'.cache)
      /\ DOMAIN asking' = {"near", "cache", "own"}
      /\ asking'.near \subseteq Signals /\ asking'.own \in BOOLEAN
  <2>1. CASE UNCHANGED <<verdicts, engine, asking>>
    BY <2>1 DEF StoryTypes, StoriesTypeOK
  <2>2. ASSUME UNCHANGED <<verdicts, engine>>, NEW near \in SUBSET Index,
               asking' = [near |-> near, cache |-> engine, own |-> TRUE]
        PROVE  /\ Verdicts(verdicts') /\ Verdicts(engine') /\ Verdicts(asking'.cache)
               /\ DOMAIN asking' = {"near", "cache", "own"}
               /\ asking'.near \subseteq Signals /\ asking'.own \in BOOLEAN
    <3>1. near \subseteq Signals
      BY DEF StoryTypes, StoriesTypeOK, Index, Within
    <3>2. QED
      BY <2>2, <3>1 DEF StoryTypes, StoriesTypeOK
  <2>3. ASSUME asking' = NotAsking, NEW answer \in Answers, NEW cache \in Learned(answer),
               verdicts' = cache, Learn(cache)
        PROVE  /\ Verdicts(verdicts') /\ Verdicts(engine') /\ Verdicts(asking'.cache)
               /\ DOMAIN asking' = {"near", "cache", "own"}
               /\ asking'.near \subseteq Signals /\ asking'.own \in BOOLEAN
    <3>1. Verdicts(cache)
      BY <1>1, LearnedTypes
    <3>2. QED
      BY <2>3, <3>1 DEF Learn, NotAsking, NoFile, Verdicts, StoryTypes, StoriesTypeOK
  <2>4. QED
    BY <2>1, <2>2, <2>3, ResolveCases
<1>4. UNCHANGED <<history, events, known, taken, patchy, overtaken>>
  BY ResolveCases
<1>5. QED
  BY <1>1, <1>2, <1>3, <1>4 DEF StoryTypes, StoriesTypeOK

\* What is extracted are rows.
LEMMA ExtractionTypes ==
    ASSUME NEW items
    PROVE  Extractions(items) \subseteq Seq(Extracts)
<1> DEFINE read == UNION {Readings[i] : i \in {j \in Items : \E k \in DOMAIN Given(items) : Given(items)[k] = j}}
<1>1. read \subseteq Extracts
  BY SelectionAssumption
<1>2. {FallbackRow(i) : i \in Items} \subseteq Extracts
  <2>1. SUFFICES ASSUME NEW i \in Items
                 PROVE  FallbackRow(i) \in Extracts
    OBVIOUS
  <2>2. Plain[i].report \in Reports /\ Plain[i].importance \in 0..10
    BY SelectionAssumption
  <2>3. Classify(Ages[i]) \in Freshnesses
    BY DEF Classify, Freshnesses
  <2>4. QED
    BY <2>2, <2>3 DEF FallbackRow, Extracts
<1>3. Len(Given(items)) \in Nat
  <2>1. Len(NotStale(items)) \in Nat
    BY DEF NotStale
  <2>2. (IF Len(NotStale(items)) < MaxInput THEN Len(NotStale(items)) ELSE MaxInput) \in Nat
    BY <2>1, SelectionAssumption
  <2>3. QED
    BY <2>2 DEF Given
<1>4. \A n \in Nat, S \in SUBSET Extracts : [1..n -> S] \subseteq Seq(Extracts)
  OBVIOUS
<1> HIDE DEF read
<1>5. \A n \in 0..MaxRows : [1..n -> read] \subseteq Seq(Extracts)
  BY <1>1, <1>4, SelectionAssumption
<1>6. [1..Len(Given(items)) -> {FallbackRow(i) : i \in Items}] \subseteq Seq(Extracts)
  BY <1>2, <1>3, <1>4
<1>7. Extractions(items) \subseteq
         (UNION {[1..n -> read] : n \in 0..MaxRows}) \cup [1..Len(Given(items)) -> {FallbackRow(i) : i \in Items}]
  BY DEF Extractions, read
<1>8. QED
  BY <1>5, <1>6, <1>7

\* A step that only looks at the stories keeps the types of the engine.
LEMMA MemoryTypes ==
    ASSUME StoryTypes, LookStep
    PROVE  /\ Verdicts(engine') /\ Verdicts(asking'.cache) /\ overtaken' \in BOOLEAN
           /\ DOMAIN asking' = {"near", "cache", "own"}
           /\ asking'.near \subseteq Signals /\ asking'.own \in BOOLEAN
<1>1. CASE UNCHANGED <<verdicts, memory>>
  BY <1>1 DEF memory, StoryTypes, StoriesTypeOK
<1>2. CASE Reconfigure
  BY <1>2 DEF Reconfigure, InstallEngine, NoFile, Verdicts, StoryTypes, StoriesTypeOK
<1>3. QED
  BY <1>1, <1>2, LookMemory

\* The end of a run keeps the types of the stories.
LEMMA EndTypes ==
    ASSUME StoryTypes, EndStep
    PROVE  StoriesTypeOK'
<1> USE DEF storyVars, storyFiles
<1>1. /\ history' \subseteq Signals /\ Timelines(events') /\ Verdicts(verdicts') /\ patchy' \subseteq Ids
  BY EndOfStories DEF TearVerdicts, TearHistory, TearEvents, FailToSave, StoryTypes, StoriesTypeOK,
        Timelines, Verdicts, NoFile, Signals
<1>2. /\ known' = {} /\ accepted' = {} /\ Timelines(records') /\ taken' \in Nat /\ todo' \in Seq(Extracts)
  BY EndOfStories DEF Timelines, NoFile
<1>3. asking' = NotAsking
  BY EndOfStories
<1>4. Verdicts(engine') /\ overtaken' \in BOOLEAN
  <2>1. CASE EndRun
    BY <2>1 DEF EndRun, StoryTypes, StoriesTypeOK
  <2>2. CASE RunFails /\ UNCHANGED engine
    BY <2>2 DEF RunFails, StoryTypes, StoriesTypeOK
  <2>3. CASE RunFails /\ FailToSave
    <3>1. PICK answer \in Answers : \E cache \in Learned(answer) : Learn(cache)
      BY <2>3 DEF FailToSave
    <3>2. PICK cache \in Learned(answer) : Learn(cache)
      BY <3>1
    <3>3. Verdicts(cache)
      BY <2>3, <3>2, LearnedTypes DEF FailToSave, StoryTypes
    <3>4. QED
      BY <2>3, <3>2, <3>3 DEF Learn, RunFails, StoryTypes, StoriesTypeOK
  <2>4. CASE Crash
    BY <1>1, <2>4 DEF Crash, CrashStories, RestartEngine
  <2>5. QED
    BY <2>1, <2>2, <2>3, <2>4 DEF EndStep, RunFails
<1>5. QED
  BY <1>1, <1>2, <1>3, <1>4 DEF StoriesTypeOK, NotAsking, NoFile, Verdicts

\* A comparison begins with a signal that stays to be resolved.
LEMMA AskingResolve ==
    ASSUME ResolveOne(run)
    PROVE  asking' # NotAsking => todo' = todo /\ todo # <<>>
<1>1. todo # <<>>
  BY DEF ResolveOne
<1>2. CASE Turn(run)
  BY <1>1, <1>2 DEF Turn
<1>3. CASE Answered(run)
  BY <1>3 DEF Answered
<1>4. QED
  BY <1>2, <1>3 DEF ResolveOne

\* Outside the resolution and the two saves a run goes on without them.
LEMMA LookStages ==
    ASSUME LookStep
    PROVE  \/ stage' = stage
           \/ /\ stage \notin {"resolve", "canonical", "events"}
              /\ stage' \notin {"resolve", "canonical", "events"}
<1>1. CASE QuietStep
  BY <1>1, QuietSteps DEF Writing, After
<1>2. CASE MessageStep \/ Reconfigure
  BY <1>2, OtherSteps DEF MessageStep, runVars
<1>3. CASE Select \/ WriteBrief \/ Speak \/ PrepareCards \/ TellOne \/ Notified
  BY <1>3 DEF Select, WriteBrief, Speak, PrepareCards, TellOne, Notified, runVars
<1>4. QED
  BY <1>1, <1>2, <1>3 DEF LookStep

\* A comparison is in progress only while its signal is resolved.
LEMMA AskingNext ==
    ASSUME StoryTypes, [Next]_vars
    PROVE  asking' # NotAsking => stage' = "resolve" /\ todo' # <<>>
<1>1. CASE EndStep
  BY <1>1, EndOfStories
<1>2. CASE StartRun
  BY <1>2 DEF StartRun, BeginResolving, memory, StoryTypes
<1>3. CASE Resolve
  <2>1. CASE todo = <<>>
    BY <1>3, <2>1 DEF Resolve, NoStory, memory, StoryTypes
  <2>2. CASE ResolveOne(run) /\ UNCHANGED stage
    BY <1>3, <2>2, AskingResolve DEF Resolve
  <2>3. QED
    BY <1>3, <2>1, <2>2 DEF Resolve
<1>4. CASE StoreCanonical \/ StoreEvents
  BY <1>4 DEF StoreCanonical, SaveCanonical, StoreEvents, SaveEvents, memory, StoryTypes
<1>5. CASE LookStep
  <2>1. asking' # NotAsking => asking # NotAsking
    BY <1>5, LookMemory DEF memory, Reconfigure, InstallEngine
  <2>2. stage = "resolve" => stage' = "resolve"
    BY <1>5, LookStages
  <2>3. QED
    BY <1>5, <2>1, <2>2, LookSteps DEF storyVars, resolving, StoryTypes
<1>6. QED
  BY <1>1, <1>2, <1>3, <1>4, <1>5, StorySteps

\* Every step keeps the types of the stories.
LEMMA StoryTypesNext == StoryTypes /\ [Next]_vars => StoryTypes'
<1> SUFFICES ASSUME StoryTypes, [Next]_vars
             PROVE  StoryTypes'
  OBVIOUS
<1> USE DEF storyVars, storyFiles, resolving
<1>1. run' \in Nat /\ now' \in Nat
  BY Clocks DEF StartRun, StoryTypes
<1>2. StoriesTypeOK'
  <2>1. CASE LookStep
    <3>1. /\ UNCHANGED storyVars
          /\ Verdicts(engine') /\ Verdicts(asking'.cache) /\ overtaken' \in BOOLEAN
          /\ DOMAIN asking' = {"near", "cache", "own"}
          /\ asking'.near \subseteq Signals /\ asking'.own \in BOOLEAN
      BY <2>1, MemoryTypes, LookSteps
    <3>2. QED
      BY <3>1 DEF StoryTypes, StoriesTypeOK
  <2>2. CASE EndStep
    BY <2>2, EndTypes
  <2>3. CASE StartRun
    <3>1. PICK batch \in Batches : BeginResolving(batch, now)
      BY <2>3 DEF StartRun
    <3>2. todo' \in Seq(Extracts)
      BY <3>1, ExtractionTypes DEF BeginResolving
    <3>3. QED
      BY <3>1, <3>2 DEF BeginResolving, memory, StoryTypes, StoriesTypeOK, Within
  <2>4. CASE Resolve
    <3>1. CASE NoStory
      BY <3>1 DEF NoStory, memory, StoryTypes, StoriesTypeOK
    <3>2. QED
      BY <2>4, <3>1, ResolveTypes DEF Resolve
  <2>5. CASE StoreCanonical \/ StoreEvents
    BY <2>5 DEF StoreCanonical, SaveCanonical, StoreEvents, SaveEvents, memory, StoryTypes,
                StoriesTypeOK
  <2>6. QED
    BY <2>1, <2>2, <2>3, <2>4, <2>5, StorySteps
<1>3. asking' # NotAsking => stage' = "resolve" /\ todo' # <<>>
  BY AskingNext
<1>4. QED
  BY <1>1, <1>2, <1>3 DEF StoryTypes

\* Initially nothing is stored.
LEMMA StoryTypesInit == Init => StoryTypes
<1> SUFFICES ASSUME Init
             PROVE  StoryTypes
  OBVIOUS
<1>1. StoriesTypeOK
  <2>1. Timelines(NoFile) /\ Verdicts(NoFile)
    BY DEF Timelines, Verdicts, NoFile
  <2>2. /\ history = {} /\ events = NoFile /\ verdicts = NoFile
        /\ known = {} /\ records = NoFile /\ taken = 0 /\ todo = <<>> /\ accepted = {}
        /\ patchy = {} /\ engine = NoFile /\ asking = NotAsking /\ overtaken = FALSE
    BY DEF Init, StoriesInit
  <2>3. <<>> \in Seq(Extracts)
    OBVIOUS
  <2>4. QED
    BY <2>1, <2>2, <2>3 DEF StoriesTypeOK, NotAsking
<1>2. run \in Nat /\ now \in Nat /\ asking = NotAsking
  BY DEF Init, StoriesInit
<1>3. QED
  BY <1>1, <1>2 DEF StoryTypes

\* The types of the stories hold always.
LEMMA StoryTypesAlways == Spec => []StoryTypes
BY StoryTypesInit, StoryTypesNext, PTL DEF Spec

-----------------------------------------------------------------------------
(* What briefs have called new.                                            *)

Opening == {"resolve", "canonical", "events", "select", "draft"}

Told(f, book) == \E h \in book : ReportOf(h) = f.report /\ h.at = f.at

\* What was announced is in the history, and in what a run has loaded of it
\* unless it is older than every window.
AnnounceInv ==
    /\ announced \subseteq [report : Reports, run : 1..run, at : 0..now, told : 0..now]
    /\ \A s \in history \cup accepted : s.at <= now
    /\ taken <= now
    /\ slot \in 0..now
    /\ stage # "idle" => run > 0
    /\ \A f \in announced : Told(f, history)
    /\ stage \in Opening => \A f \in announced :
            f.run < run /\ (Told(f, known) \/ f.at + HistoryWindow < now)
    /\ stage \in {"events", "select", "draft"} => accepted \subseteq history
    /\ stage = "draft" => \A s \in chosen : IsNews(s, known, slot)
    /\ AnnouncedOnce

\* Outside the stages that announce, time and the stage may go on.
LEMMA AnnounceFrame ==
    ASSUME StoryTypes, AnnounceInv,
           UNCHANGED <<storyVars, run, slot, chosen, announced>>,
           now' = now \/ now' = now + 1,
           stage' = stage \/ (stage # "idle" /\ stage' \notin Opening)
    PROVE  AnnounceInv'
<1> USE DEF storyVars, storyFiles, resolving
<1>1. now \in Nat /\ now' \in Nat /\ now <= now' /\ run \in Nat
  BY DEF StoryTypes
<1>2. announced' \subseteq [report : Reports, run : 1..run', at : 0..now', told : 0..now']
  BY <1>1 DEF AnnounceInv
<1>3. \A s \in history' \cup accepted' : s.at <= now'
  <2>1. \A s \in history \cup accepted : s.at \in Nat
    BY DEF StoryTypes, StoriesTypeOK, Signals
  <2>2. QED
    BY <1>1, <2>1 DEF AnnounceInv
<1>4. slot' \in 0..now' /\ taken' <= now'
  BY <1>1 DEF AnnounceInv, StoryTypes, StoriesTypeOK
<1>5. \A f \in announced' : Told(f, history')
  BY DEF AnnounceInv
<1>6. stage' \in Opening => \A f \in announced' :
            f.run < run' /\ (Told(f, known') \/ f.at + HistoryWindow < now')
  <2>1. HistoryWindow \in Nat /\ \A f \in announced : f.at \in Nat
    BY StoriesAssumption, <1>1 DEF AnnounceInv
  <2>2. \A f \in announced : f.at + HistoryWindow < now => f.at + HistoryWindow < now'
    BY <1>1, <2>1
  <2>3. QED
    BY <2>2 DEF AnnounceInv, Opening
<1>7. AnnouncedOnce'
  BY DEF AnnounceInv, AnnouncedOnce
<1>8. QED
  BY <1>2, <1>3, <1>4, <1>5, <1>6, <1>7 DEF AnnounceInv, Opening

\* What a run announces as new was not announced within the dedup window.
LEMMA AnnounceBrief ==
    ASSUME StoryTypes, PickInv, AnnounceInv, WriteBrief
    PROVE  AnnounceInv'
<1> USE DEF storyVars, storyFiles, resolving
<1>1. /\ UNCHANGED <<history, accepted, known, taken, run, now, slot, chosen>>
      /\ stage = "draft" /\ stage' \notin Opening /\ stage' # "idle"
  BY RunOnlySteps DEF WriteBrief, NoStory, selection, Opening
<1>2. \A f \in announced' : \/ f \in announced
                            \/ /\ f.run = run /\ f.told = now
                               /\ \E s \in chosen : /\ s.kind = "new"
                                                    /\ f = [report |-> ReportOf(s), run |-> run,
                                                            at |-> s.at, told |-> now]
  BY DEF WriteBrief
<1>3. run \in Nat /\ now \in Nat /\ run > 0 /\ slot \in 0..now
  BY <1>1 DEF AnnounceInv, StoryTypes
<1>4. \A s \in chosen : /\ s \in history /\ s \in accepted /\ IsNews(s, known, slot)
                        /\ ReportOf(s) \in Reports /\ s.at \in 0..now
  <2>1. chosen \subseteq accepted /\ accepted \subseteq history /\ accepted \subseteq Signals
    BY <1>1 DEF AnnounceInv, PickInv, StoryTypes, StoriesTypeOK
  <2>2. \A s \in accepted : s.at \in Nat /\ s.at <= now /\ ReportOf(s) \in Reports
    BY <2>1 DEF AnnounceInv, Signals, Ids, ReportOf
  <2>3. QED
    BY <1>1, <1>3, <2>1, <2>2 DEF AnnounceInv
<1>5. announced' \subseteq [report : Reports, run : 1..run, at : 0..now, told : 0..now]
  BY <1>2, <1>3, <1>4 DEF AnnounceInv
<1>6. \A f \in announced' : Told(f, history)
  BY <1>2, <1>4 DEF AnnounceInv, Told
<1>7. AnnouncedOnce'
  <2> SUFFICES ASSUME NEW f \in announced', NEW g \in announced',
                      f.report = g.report, f.run < g.run
               PROVE  f.at + DedupWindow < g.told
    BY DEF AnnouncedOnce
  <2>1. CASE f \in announced /\ g \in announced
    BY <2>1 DEF AnnounceInv, AnnouncedOnce
  <2>2. CASE f \notin announced
    <3>1. f.run = run /\ g.run \in 1..run
      BY <1>2, <1>5, <2>2
    <3>2. QED
      BY <1>3, <3>1
  <2>3. CASE f \in announced /\ g \notin announced
    <3>1. PICK s \in chosen : s.kind = "new" /\ g.report = ReportOf(s)
      BY <1>2, <2>3
    <3>2. g.told = now /\ f.at \in Nat
      BY <1>2, <1>3, <2>3 DEF AnnounceInv
    <3>3. Told(f, known) \/ f.at + HistoryWindow < now
      BY <1>1, <2>3 DEF AnnounceInv, Opening
    <3>4. DedupWindow \in Nat /\ HistoryWindow \in Nat /\ DedupWindow <= HistoryWindow
      BY SelectionAssumption, StoriesAssumption
    <3>5. CASE Told(f, known)
      <4>1. ReportOf(s) \notin Seen(known, slot)
        BY <1>4, <3>1 DEF IsNews
      <4>2. PICK h \in known : ReportOf(h) = f.report /\ h.at = f.at
        BY <3>5 DEF Told
      <4>3. ~(h.at + DedupWindow >= slot)
        BY <3>1, <4>1, <4>2 DEF Seen, Within
      <4>4. QED
        BY <1>3, <3>2, <3>4, <4>2, <4>3
    <3>6. CASE f.at + HistoryWindow < now
      BY <1>3, <3>2, <3>4, <3>6
    <3>7. QED
      BY <3>3, <3>5, <3>6
  <2>4. QED
    BY <2>1, <2>2, <2>3
<1>8. QED
  BY <1>1, <1>5, <1>6, <1>7 DEF AnnounceInv

\* The end of a run keeps what was announced in the history.
LEMMA AnnounceEnd ==
    ASSUME StoryTypes, AnnounceInv, EndStep
    PROVE  AnnounceInv'
<1> USE DEF storyVars, storyFiles, resolving
<1>1. /\ stage' = "idle" /\ accepted' = {} /\ slot' = 0 /\ taken' = 0
      /\ run' = run /\ now' = now
  BY EndOfStories, EndSteps, RunOnlySteps DEF EndStep, ClearRun, EndRun, Crash
<1>2. \/ UNCHANGED <<history, announced>>
      \/ announced' = {} /\ history' = {}
  <2>1. CASE EndRun
    BY <2>1 DEF EndRun
  <2>2. CASE RunFails
    BY <2>2 DEF RunFails, BreakStories, LeaveStories, FailToSave, TearHistory, TearEvents
  <2>3. CASE Crash
    BY <2>3 DEF Crash, CrashStories, BreakStories, LeaveStories, TearVerdicts, TearHistory, TearEvents
  <2>4. QED
    BY <2>1, <2>2, <2>3 DEF EndStep
<1>3. QED
  BY <1>1, <1>2 DEF AnnounceInv, AnnouncedOnce, Opening, StoryTypes

\* Every step keeps what was announced in the history.
LEMMA AnnounceNext ==
    BotInv /\ BlankInv /\ PickInv /\ StoryTypes /\ AnnounceInv /\ [Next]_vars => AnnounceInv'
<1> SUFFICES ASSUME BotInv, BlankInv, PickInv, StoryTypes, AnnounceInv, [Next]_vars
             PROVE  AnnounceInv'
  OBVIOUS
<1> USE DEF storyVars, storyFiles, resolving
<1>0. now' = now \/ now' = now + 1
  BY Clocks
<1>1. CASE QuietStep
  BY <1>0, <1>1, QuietSteps, AnnounceFrame DEF selection, Opening, Writing, After
<1>2. CASE MessageStep \/ Reconfigure
  BY <1>0, <1>2, OtherSteps, AnnounceFrame DEF MessageStep, runVars, selection
<1>3. CASE Speak \/ PrepareCards \/ TellOne \/ Notified
  BY <1>0, <1>3, LookSteps, AnnounceFrame
     DEF LookStep, Speak, PrepareCards, TellOne, Notified, runVars, selection, Opening
<1>4. CASE WriteBrief
  BY <1>4, AnnounceBrief
<1>5. CASE EndStep
  BY <1>5, AnnounceEnd
<1>6. CASE StartRun
  <2>1. PICK batch \in Batches : BeginResolving(batch, now)
    BY <1>6 DEF StartRun
  <2>2. /\ known' = Within(history, now, HistoryWindow) /\ accepted' = {} /\ UNCHANGED history
        /\ taken' = now
        /\ run' = run + 1 /\ now' = now /\ stage' = "resolve" /\ UNCHANGED <<slot, chosen, announced>>
    BY <1>6, <2>1, RunOnlySteps DEF StartRun, BeginResolving, selection
  <2>3. run \in Nat /\ now \in Nat /\ HistoryWindow \in Nat
    BY StoriesAssumption DEF StoryTypes
  <2>4. \A f \in announced : f.run \in 1..run /\ f.at \in Nat
    BY <2>3 DEF AnnounceInv
  <2>5. \A f \in announced : f.run < run' /\ (Told(f, known') \/ f.at + HistoryWindow < now')
    BY <2>2, <2>3, <2>4 DEF AnnounceInv, Told, Within
  <2>6. announced' \subseteq [report : Reports, run : 1..run', at : 0..now', told : 0..now']
    BY <2>2, <2>3 DEF AnnounceInv
  <2>7. AnnouncedOnce'
    BY <2>2 DEF AnnounceInv, AnnouncedOnce
  <2>8. run' > 0
    BY <2>2, <2>3
  <2>9. taken' <= now'
    BY <2>2, <2>3
  <2>10. QED
    BY <2>2, <2>5, <2>6, <2>7, <2>8, <2>9 DEF AnnounceInv
<1>7. CASE Resolve
  <2>1. /\ UNCHANGED <<history, known, taken, run, now, slot, chosen, announced>>
        /\ stage = "resolve" /\ stage' \in {"resolve", "canonical"}
    BY <1>7, RunOnlySteps, ResolveCases DEF Resolve, NoStory, selection
  <2>2. \A s \in accepted' : s \in accepted \/ s.at = taken
    <3>1. CASE UNCHANGED accepted
      BY <3>1
    <3>2. ASSUME NEW kind, NEW event, Accept(Signal(run, event, kind))
          PROVE  \A s \in accepted' : s \in accepted \/ s.at = taken
      BY <3>2 DEF Accept, Signal
    <3>3. UNCHANGED accepted \/ ResolveOne(run)
      BY <1>7 DEF Resolve, NoStory
    <3>4. QED
      BY <3>1, <3>2, <3>3, ResolveCases
  <2>3. \A s \in history' \cup accepted' : s.at <= now'
    BY <2>1, <2>2 DEF AnnounceInv, StoryTypes
  <2>4. AnnouncedOnce'
    BY <2>1 DEF AnnounceInv, AnnouncedOnce
  <2>5. QED
    BY <2>1, <2>3, <2>4 DEF AnnounceInv, Opening
<1>8. CASE StoreCanonical \/ StoreEvents
  <2>1. /\ UNCHANGED <<known, accepted, taken, run, now, slot, chosen, announced>>
        /\ history' = history \cup accepted \/ (history' = history /\ stage = "events")
        /\ stage \in {"canonical", "events"} /\ stage' \in {"events", "select"}
    BY <1>8, RunOnlySteps DEF StoreCanonical, SaveCanonical, StoreEvents, SaveEvents, selection
  <2>2. AnnouncedOnce'
    BY <2>1 DEF AnnounceInv, AnnouncedOnce
  <2>3. \A f \in announced' : Told(f, history')
    BY <2>1 DEF AnnounceInv, Told
  <2>4. QED
    BY <2>1, <2>2, <2>3 DEF AnnounceInv, Opening
<1>9. CASE Select
  <2>1. /\ UNCHANGED <<history, known, accepted, taken, run, now, announced>>
        /\ slot' = now /\ stage = "select" /\ stage' = "draft"
    BY <1>9, RunOnlySteps DEF Select, NoStory
  <2>2. IsFiniteSet(tracked \ briefed) /\ Cardinality(tracked \ briefed) \in Nat
    BY FS_Difference, FS_CardinalityType DEF PickInv
  <2>3. \A s \in chosen' : IsNews(s, known, now)
    BY <1>9, <2>2, SelectionsSound DEF Select, PickInv
  <2>4. AnnouncedOnce'
    BY <2>1 DEF AnnounceInv, AnnouncedOnce
  <2>5. QED
    BY <2>1, <2>3, <2>4 DEF AnnounceInv, Opening, StoryTypes
<1>10. QED
  BY <1>1, <1>2, <1>3, <1>4, <1>5, <1>6, <1>7, <1>8, <1>9, Steps

\* Initially nothing was announced.
LEMMA AnnounceInit == Init => AnnounceInv
BY DEF Init, StoriesInit, AnnounceInv, AnnouncedOnce, Opening

\* What was announced is remembered always.
LEMMA AnnounceAlways == Spec => []AnnounceInv
BY BotInit, BotNext, PickInit, BlankNext, PickNext, StoryTypesInit, StoryTypesNext, AnnounceInit,
   AnnounceNext, PTL DEF Spec

\* A report, that is a fingerprint of the extractor's title, link and summary, is
\* called new by one brief only within the dedup window of its extraction, over
\* runs and restarts, until the history is torn (pipeline.py:198).
THEOREM OnceAnnounced == Spec => []AnnouncedOnce
<1>1. AnnounceInv => AnnouncedOnce
  BY DEF AnnounceInv
<1>2. QED
  BY <1>1, AnnounceAlways, PTL
-----------------------------------------------------------------------------
(* The timelines.                                                          *)

InBook(book, s) ==
    /\ s.event \in DOMAIN book
    /\ \/ Len(book[s.event]) = MaxTimeline
       \/ \E i \in DOMAIN book[s.event] : book[s.event][i] = s.id

\* The records of a run in its resolution have every signal, those it has
\* accepted included; the file has every stored signal, except for those of a
\* run between its two saves.
TimelineInv ==
    /\ stage \in {"resolve", "canonical", "events"} =>
          \A s \in history \cup accepted : s.event \notin patchy => InBook(records, s)
    /\ \A s \in history : s.event \notin patchy =>
          InBook(events, s) \/ (stage = "events" /\ s \in accepted)

\* An entry adds its signal and drops none, unless the timeline is full.
LEMMA EnteredKeeps ==
    ASSUME NEW book, Timelines(book), NEW s, s.id \in Ids, s.event \in Ids
    PROVE  /\ InBook(Entered(book, s), s)
           /\ \A t : InBook(book, t) => InBook(Entered(book, s), t)
<1> DEFINE before == IF s.event \in DOMAIN book THEN book[s.event]
                     ELSE IF s.kind = "new" THEN <<>> ELSE <<s.id>>
           after == Append(before, s.id)
           kept == IF Len(after) > MaxTimeline THEN Tail(after) ELSE after
<1>1. MaxTimeline \in Nat \ {0}
  BY StoriesAssumption
<1>2. /\ before \in Seq(Ids) /\ Len(before) \in 0..MaxTimeline
      /\ s.event \in DOMAIN book => before = book[s.event]
  <2>1. CASE s.event \in DOMAIN book
    BY <1>1, <2>1 DEF Timelines
  <2>2. CASE s.event \notin DOMAIN book
    BY <1>1, <2>2
  <2>3. QED
    BY <2>1, <2>2
<1> HIDE DEF before
<1>3. /\ after \in Seq(Ids) /\ Len(after) = Len(before) + 1
      /\ \A i \in 1..Len(before) : after[i] = before[i]
      /\ after[Len(before) + 1] = s.id
  BY <1>2
<1> HIDE DEF after
<1>4. /\ kept \in Seq(Ids)
      /\ Len(kept) = MaxTimeline \/ (kept = after /\ Len(before) # MaxTimeline)
  <2>1. CASE Len(after) > MaxTimeline
    <3>1. after # <<>> /\ Len(after) = MaxTimeline + 1
      BY <1>1, <1>2, <1>3, <2>1
    <3>2. Tail(after) \in Seq(Ids) /\ Len(Tail(after)) = MaxTimeline
      BY <1>1, <1>3, <3>1
    <3>3. QED
      BY <1>1, <2>1, <3>2
  <2>2. CASE ~(Len(after) > MaxTimeline)
    BY <1>1, <1>2, <1>3, <2>2
  <2>3. QED
    BY <2>1, <2>2
<1> HIDE DEF kept
<1>5. Entered(book, s) = [e \in DOMAIN book \cup {s.event} |-> IF e = s.event THEN kept ELSE book[e]]
  BY DEF Entered, kept, after, before
<1>6. InBook(Entered(book, s), s)
  <2>1. kept = after => Len(before) + 1 \in DOMAIN kept /\ kept[Len(before) + 1] = s.id
    BY <1>2, <1>3
  <2>2. Len(kept) = MaxTimeline \/ \E i \in DOMAIN kept : kept[i] = s.id
    BY <1>4, <2>1
  <2>3. QED
    BY <1>5, <2>2 DEF InBook
<1>7. ASSUME NEW t, InBook(book, t)
      PROVE  InBook(Entered(book, s), t)
  <2>1. CASE t.event # s.event
    BY <1>5, <1>7, <2>1 DEF InBook
  <2>2. CASE t.event = s.event
    <3>1. before = book[t.event]
      BY <1>2, <1>7, <2>2 DEF InBook
    <3>2. Len(kept) = MaxTimeline \/ \E i \in DOMAIN kept : kept[i] = t.id
      <4>1. CASE Len(kept) = MaxTimeline
        BY <4>1
      <4>2. CASE kept = after /\ Len(before) # MaxTimeline
        <5>1. PICK i \in DOMAIN before : before[i] = t.id
          BY <1>7, <3>1, <4>2 DEF InBook
        <5>2. i \in 1..Len(before) /\ i \in DOMAIN after
          BY <1>2, <1>3, <5>1
        <5>3. QED
          BY <1>3, <4>2, <5>1, <5>2
      <4>3. QED
        BY <1>4, <4>1, <4>2
    <3>3. QED
      BY <1>5, <2>2, <3>2 DEF InBook
  <2>3. QED
    BY <2>1, <2>2
<1>8. QED
  BY <1>6, <1>7

\* The resolution of a signal keeps the records complete.
LEMMA TimelineResolve ==
    ASSUME StoryTypes, TimelineInv, stage = "resolve", ResolveOne(run)
    PROVE  \A s \in history' \cup accepted' : s.event \notin patchy' => InBook(records', s)
<1>1. UNCHANGED <<history, patchy>>
  BY ResolveCases
<1>2. CASE UNCHANGED <<records, accepted>>
  BY <1>1, <1>2 DEF TimelineInv
<1>3. ASSUME NEW s \in Signals, Accept(s)
      PROVE  \A t \in history' \cup accepted' : t.event \notin patchy' => InBook(records', t)
  <2>1. s.id \in Ids /\ s.event \in Ids
    BY DEF Signals
  <2>2. Timelines(records)
    BY DEF StoryTypes, StoriesTypeOK
  <2>3. QED
    BY <1>1, <1>3, <2>1, <2>2, EnteredKeeps DEF Accept, TimelineInv
<1>4. QED
  BY <1>2, <1>3, SignalTypes, ResolveCases

\* Every step keeps the signals in their timelines.
LEMMA TimelineNext == BlankInv /\ StoryTypes /\ TimelineInv /\ [Next]_vars => TimelineInv'
<1> SUFFICES ASSUME BlankInv, StoryTypes, TimelineInv, [Next]_vars
             PROVE  TimelineInv'
  OBVIOUS
<1> USE DEF storyVars, storyFiles, resolving
<1>1. CASE LookStep
  BY <1>1, LookStages, LookSteps DEF TimelineInv
<1>2. CASE EndStep
  <2>1. stage' = "idle" /\ accepted' = {}
    BY <1>2, EndOfStories
  <2>2. CASE UNCHANGED storyFiles /\ (stage # "events" => UNCHANGED patchy)
             /\ (stage = "events" => patchy' = patchy \cup {s.event : s \in accepted})
    BY <2>1, <2>2 DEF TimelineInv
  <2>3. CASE TearVerdicts \/ FailToSave
    BY <2>1, <2>3 DEF TimelineInv, TearVerdicts, FailToSave, StoryTypes
  <2>4. CASE stage = "canonical" /\ TearHistory
    BY <2>1, <2>4 DEF TimelineInv, TearHistory
  <2>5. CASE stage = "events" /\ TearEvents
    BY <2>1, <2>5 DEF TimelineInv, TearEvents
  <2>6. QED
    BY <1>2, <2>2, <2>3, <2>4, <2>5, EndOfStories
<1>3. CASE StartRun
  BY <1>3 DEF StartRun, BeginResolving, TimelineInv, InBook
<1>4. CASE Resolve
  <2>1. CASE todo = <<>>
    BY <1>4, <2>1 DEF Resolve, NoStory, TimelineInv, InBook
  <2>2. CASE ResolveOne(run) /\ UNCHANGED stage
    <3>1. stage = "resolve" /\ UNCHANGED <<history, events, patchy>>
      BY <1>4, <2>2, ResolveCases DEF Resolve
    <3>2. QED
      BY <2>2, <3>1, TimelineResolve DEF TimelineInv, InBook
  <2>3. QED
    BY <1>4, <2>1, <2>2 DEF Resolve
<1>5. CASE StoreCanonical
  BY <1>5 DEF StoreCanonical, SaveCanonical, TimelineInv, InBook
<1>6. CASE StoreEvents
  BY <1>6 DEF StoreEvents, SaveEvents, TimelineInv, InBook
<1>7. QED
  BY <1>1, <1>2, <1>3, <1>4, <1>5, <1>6, StorySteps

\* Initially nothing is stored.
LEMMA TimelineInit == Init => TimelineInv
BY DEF Init, StoriesInit, TimelineInv

\* Every stored signal is in the timeline of its event, over runs, failures and
\* restarts (pipeline.py:215), as far as no broken save has lost the record.
THEOREM TimelinesComplete == Spec => []SignalsAreInTimelines
<1>1. TimelineInv => SignalsAreInTimelines
  BY DEF TimelineInv, SignalsAreInTimelines, InBook
<1>2. QED
  BY <1>1, BotInit, BotNext, PickInit, BlankNext, StoryTypesInit, StoryTypesNext, TimelineInit,
     TimelineNext, PTL DEF Spec
-----------------------------------------------------------------------------
(* The output files.                                                       *)

Outputting == Writing \cup {"rows"}

\* The names of a run in progress lead to what it wrote; it has all those of the
\* stages before.
OutputsInv ==
    /\ DOMAIN named \subseteq OutputKinds
    /\ \A kind \in DOMAIN named : named[kind] \in DOMAIN outputs /\ outputs[named[kind]] = Written(kind)
    /\ stage \notin Outputting => DOMAIN named = {}
    /\ stage = "signals" => "md" \in DOMAIN named
    /\ stage = "brief" => {"md", "signals"} \subseteq DOMAIN named
    /\ stage \in {"mp3", "rows"} => {"md", "signals", "brief"} \subseteq DOMAIN named
    /\ HistoryRowsAreWhole

OutputStep == WriteOne \/ WriteRow \/ OutputsFail \/ EndStep

\* The other steps leave the files alone, and the run while it writes them.
LEMMA OutputsElsewhere ==
    ASSUME [Next]_vars, ~OutputStep
    PROVE  /\ UNCHANGED outputVars
           /\ stage \in Outputting => UNCHANGED <<stage, run, second, drafted>>
           /\ stage \notin Outputting => stage' = "md" \/ stage' \notin Outputting
<1> USE DEF Outputting, Writing, selection, deliveryVars
<1>1. CASE QuietStep
  <2>1. CASE Publish \/ CallOne
    BY <2>1 DEF Publish, CallOne, runVars
  <2>2. CASE SendsUpdate \/ OffsetNotSaved
    BY <2>2 DEF SendsUpdate, OffsetNotSaved, NoRun, NoDelivery, runVars
  <2>3. CASE BeginHooking \/ EndHooking \/ TimePasses
    BY <2>3 DEF BeginHooking, EndHooking, TimePasses, NoRun, NoDelivery, runVars
  <2>4. CASE UNCHANGED vars
    BY <2>4 DEF vars, runVars
  <2>5. QED
    BY <1>1, <2>1, <2>2, <2>3, <2>4 DEF QuietStep, OutputStep
<1>2. CASE MessageStep
  <2>1. UNCHANGED drafted
    <3>1. ASSUME NEW message, NEW of, NEW nth, Briefed(message, of, nth)
          PROVE  UNCHANGED drafted
      BY <3>1 DEF Briefed, ComposeElsewhere, NoDelivery
    <3>2. CASE Telegram
      BY <3>1, <3>2 DEF Telegram, NoDelivery
    <3>3. CASE Pushed
      BY <3>1, <3>3 DEF Pushed
    <3>4. QED
      BY <1>2, <3>2, <3>3 DEF MessageStep
  <2>2. QED
    BY <1>2, <2>1, OtherSteps DEF MessageStep, runVars
<1>3. CASE Reconfigure
  BY <1>3 DEF Reconfigure, NoRun, runVars, ReplaceGenerator
<1>4. CASE StartRun \/ Resolve \/ StoreCanonical \/ StoreEvents
  BY <1>4 DEF StartRun, Resolve, StoreCanonical, StoreEvents
<1>5. CASE Select \/ WriteBrief \/ Speak
  BY <1>5 DEF Select, WriteBrief, Speak
<1>6. CASE PrepareCards \/ TellOne \/ Notified
  BY <1>6 DEF PrepareCards, TellOne, Tell, Notified, runVars
<1>7. QED
  BY <1>1, <1>2, <1>3, <1>4, <1>5, <1>6, Steps DEF OutputStep

\* A name of a file is a free one or that of a file with the same content.
LEMMA TargetsUsable ==
    ASSUME NEW kind, NEW at, NEW content, NEW name \in Targets(kind, at, content)
    PROVE  Usable(name, content)
BY DEF Targets

\* Writing a file under a usable name puts it there and keeps the others.
LEMMA PutKeeps ==
    ASSUME NEW name, NEW content, Put(name, content)
    PROVE  /\ \A x \in DOMAIN outputs : x \in DOMAIN outputs' /\ outputs'[x] = outputs[x]
           /\ name \in DOMAIN outputs'
           /\ Usable(name, content) => outputs'[name] = content
BY DEF Put, Usable

\* More files leave the rows whole.
LEMMA RowsKept ==
    ASSUME HistoryRowsAreWhole, rows' = rows,
           \A x \in DOMAIN outputs : x \in DOMAIN outputs' /\ outputs'[x] = outputs[x]
    PROVE  HistoryRowsAreWhole'
<1> SUFFICES ASSUME NEW row \in rows, NEW kind \in OutputKinds, kind \in DOMAIN row.names
             PROVE  LET content == outputs'[row.names[kind]] IN
                    /\ row.names[kind] \in DOMAIN outputs'
                    /\ content.whole
                    /\ kind # "mp3" => content.id = row.id
                    /\ kind # "md" => content.serial = row.serial
                    /\ content.text = outputs'[row.names["md"]].text
  BY DEF HistoryRowsAreWhole
<1>1. "md" \in OutputKinds
  BY DigestAssumption
<1>2. "md" \in DOMAIN row.names
  BY <1>1 DEF HistoryRowsAreWhole
<1>3. row.names["md"] \in DOMAIN outputs /\ row.names[kind] \in DOMAIN outputs
  BY <1>1, <1>2 DEF HistoryRowsAreWhole
<1>4. QED
  BY <1>3 DEF HistoryRowsAreWhole

\* Every step keeps the rows whole.
LEMMA OutputsNext == BlankInv /\ OutputsInv /\ [Next]_vars => OutputsInv'
<1> SUFFICES ASSUME BlankInv, OutputsInv, [Next]_vars
             PROVE  OutputsInv'
  OBVIOUS
<1>0. OutputKinds = {"md", "signals", "brief", "mp3"}
  BY DigestAssumption
<1> USE DEF Outputting, Writing, selection
<1>1. CASE ~OutputStep
  <2>1. UNCHANGED <<outputs, rows, named>>
    BY <1>1, OutputsElsewhere DEF outputVars
  <2>2. CASE stage \in Outputting
    BY <1>1, <2>1, <2>2, OutputsElsewhere DEF OutputsInv, HistoryRowsAreWhole, Written
  <2>3. CASE stage \notin Outputting
    BY <1>1, <2>1, <2>3, OutputsElsewhere DEF OutputsInv, HistoryRowsAreWhole
  <2>4. QED
    BY <2>2, <2>3
<1>2. CASE WriteOne
  <2>1. /\ stage \in Writing /\ stage \in OutputKinds /\ stage' = After(stage)
        /\ UNCHANGED <<run, second, drafted>>
    BY <1>0, <1>2 DEF WriteOne, NoDelivery, deliveryVars
  <2>2. PICK name \in Targets(stage, slot, Written(stage)) :
           /\ Put(name, Written(stage))
           /\ named' = [k \in DOMAIN named \cup {stage} |-> IF k = stage THEN name ELSE named[k]]
           /\ UNCHANGED rows
    BY <1>2 DEF WriteOne, WriteOutput
  <2>3. /\ \A x \in DOMAIN outputs : x \in DOMAIN outputs' /\ outputs'[x] = outputs[x]
        /\ name \in DOMAIN outputs' /\ outputs'[name] = Written(stage)
    BY <2>2, PutKeeps, TargetsUsable
  <2>4. \A kind \in DOMAIN named' : named'[kind] \in DOMAIN outputs' /\ outputs'[named'[kind]] = Written(kind)'
    BY <2>1, <2>2, <2>3 DEF OutputsInv, Written
  <2>5. HistoryRowsAreWhole'
    BY <2>2, <2>3, RowsKept DEF OutputsInv
  <2>6. QED
    BY <1>0, <2>1, <2>2, <2>4, <2>5 DEF OutputsInv, After
<1>3. CASE WriteRow
  <2>1. /\ stage = "rows" /\ stage' = "cards" /\ DOMAIN named' = {} /\ UNCHANGED outputs
        /\ \A row \in rows' : row \in rows \/ row = [id |-> second, serial |-> run, slot |-> slot, names |-> named]
    BY <1>3 DEF WriteRow, AppendRow, ForgetNames, Nameless
  <2>2. {"md", "signals", "brief"} \subseteq DOMAIN named /\ DOMAIN named \subseteq OutputKinds
    BY <2>1 DEF OutputsInv
  <2>3. ASSUME NEW kind \in DOMAIN named
        PROVE  /\ named[kind] \in DOMAIN outputs
               /\ outputs[named[kind]].whole
               /\ kind # "mp3" => outputs[named[kind]].id = second
               /\ kind # "md" => outputs[named[kind]].serial = run
               /\ outputs[named[kind]].text = drafted
    <3>1. named[kind] \in DOMAIN outputs /\ outputs[named[kind]] = Written(kind)
      BY DEF OutputsInv
    <3>2. kind \in {"md", "signals", "brief", "mp3"}
      BY <1>0, <2>2
    <3>3. QED
      BY <3>1, <3>2 DEF Written, Content
  <2>4. HistoryRowsAreWhole'
    BY <1>0, <2>1, <2>2, <2>3 DEF OutputsInv, HistoryRowsAreWhole
  <2>5. QED
    BY <2>1, <2>4 DEF OutputsInv
<1>4. CASE OutputsFail
  BY <1>4 DEF OutputsFail, ForgetNames, Nameless, OutputsInv, HistoryRowsAreWhole
<1>5. CASE EndStep
  <2>1. stage' = "idle" /\ DOMAIN named' = {}
    BY <1>5, EndSteps DEF ClearRun, ForgetNames, Nameless
  <2>2. CASE UNCHANGED <<outputs, rows>>
    BY <2>1, <2>2 DEF OutputsInv, HistoryRowsAreWhole
  <2>3. ASSUME stage \in Writing, TearOutput(stage, slot, Written(stage))
        PROVE  OutputsInv'
    <3>1. /\ rows' = rows
          /\ \A x \in DOMAIN outputs : x \in DOMAIN outputs' /\ outputs'[x] = outputs[x]
      BY <2>3, PutKeeps DEF TearOutput
    <3>2. QED
      BY <2>1, <3>1, RowsKept DEF OutputsInv
  <2>4. CASE TearRows
    BY <2>1, <2>4 DEF TearRows, OutputsInv, HistoryRowsAreWhole
  <2>5. UNCHANGED <<outputs, rows>> \/ (stage \in Writing /\ TearOutput(stage, slot, Written(stage)))
           \/ TearRows
    BY <1>5 DEF EndStep, EndRun, RunFails, Crash, CrashOutputs
  <2>6. QED
    BY <2>2, <2>3, <2>4, <2>5
<1>6. QED
  BY <1>1, <1>2, <1>3, <1>4, <1>5 DEF OutputStep

\* Initially there are no files.
LEMMA OutputsStart == Init => OutputsInv
BY DEF Init, OutputsInit, OutputsInv, HistoryRowsAreWhole, Outputting, Writing, Nameless

\* The files hold what their names promise always.
LEMMA OutputsAlways == Spec => []OutputsInv
BY BotInit, BotNext, PickInit, BlankNext, OutputsStart, OutputsNext, PTL DEF Spec

\* What a row of the history names is what its run wrote, whole, whatever names
\* are shared, reused and torn (storage_engine.py:143).
THEOREM RowsWhole == Spec => []HistoryRowsAreWhole
<1>1. OutputsInv => HistoryRowsAreWhole
  BY DEF OutputsInv
<1>2. QED
  BY <1>1, OutputsAlways, PTL
-----------------------------------------------------------------------------
(* The types of the variables.                                             *)

\* What the other invariants leave open.
RestInv ==
    /\ left \in Budgeted
    /\ second \in Nat /\ context \in 0..run
    /\ audio \in BOOLEAN /\ cleared \in BOOLEAN
    /\ hookLock \in Hookers \cup {NoHooker} /\ subs \subseteq Subscriptions

Bounds == {"runs", "twins", "days", "messages", "calls", "faults"}

\* A step spends what is left of one bound, or of two at the start of a run.
LEMMA LeftSteps ==
    ASSUME [Next]_vars
    PROVE  \/ UNCHANGED left
           \/ \E what \in Bounds : Spend(what)
           \/ StartRun
<1> USE DEF Bounds, Fault
<1>1. CASE RunStep
  <2>1. CASE Resolve \/ StoreCanonical \/ StoreEvents \/ Select
    BY <2>1 DEF Resolve, StoreCanonical, StoreEvents, Select
  <2>2. CASE WriteBrief \/ Speak \/ PrepareCards
    BY <2>2 DEF WriteBrief, Speak, PrepareCards, SomeFail
  <2>3. CASE WriteOne \/ WriteRow \/ TellOne
    BY <2>3 DEF WriteOne, WriteRow, TellOne
  <2>4. CASE Notified \/ Publish \/ CallOne \/ EndRun
    BY <2>4 DEF Notified, Publish, CallOne, EndRun
  <2>5. QED
    BY <1>1, <2>1, <2>2, <2>3, <2>4 DEF RunStep
<1>2. CASE OutputsFail \/ RunFails \/ Crash
  BY <1>2 DEF OutputsFail, RunFails, Crash
<1>3. CASE Telegram \/ SendsUpdate \/ Pushed \/ OffsetNotSaved
  BY <1>3 DEF Telegram, SendsUpdate, Pushed, OffsetNotSaved
<1>4. CASE BeginHooking \/ EndHooking \/ Reconfigure \/ TimePasses
  BY <1>4 DEF BeginHooking, EndHooking, Reconfigure, TimePasses
<1>5. CASE UNCHANGED vars
  BY <1>5 DEF vars
<1>6. QED
  BY <1>1, <1>2, <1>3, <1>4, <1>5 DEF Next

\* Every step keeps the remaining types.
LEMMA RestNext ==
    BotInv /\ HookInv /\ BlankInv /\ StoryTypes /\ RestInv /\ [Next]_vars => RestInv'
<1> SUFFICES ASSUME BotInv, HookInv, BlankInv, StoryTypes, RestInv, [Next]_vars
             PROVE  RestInv'
  OBVIOUS
<1>0. run \in Nat /\ run' \in Nat
  BY Clocks DEF StartRun, StoryTypes
<1>1. left' \in Budgeted
  <2>1. CASE UNCHANGED left
    BY <2>1 DEF RestInv
  <2>2. ASSUME NEW what \in Bounds, Spend(what)
        PROVE  left' \in Budgeted
    <3>1. left[what] \in Nat /\ left[what] > 0 /\ left \in Budgeted
      BY <2>2 DEF Spend, RestInv, Budgeted, Bounds
    <3>2. left[what] - 1 \in Nat
      BY <3>1
    <3>3. QED
      BY <2>2, <3>1, <3>2 DEF Spend, Budgeted, Bounds
  <2>3. CASE StartRun
    <3>1. left \in Budgeted /\ left.runs \in Nat /\ left.twins \in Nat /\ left.runs > 0
      BY <2>3 DEF StartRun, RestInv, Budgeted
    <3>2. left.runs - 1 \in Nat /\ (left.twins > 0 => left.twins - 1 \in Nat)
      BY <3>1
    <3>3. QED
      BY <2>3, <3>1, <3>2 DEF StartRun, Budgeted
  <2>4. QED
    BY <2>1, <2>2, <2>3, LeftSteps
<1>2. second' \in Nat /\ context' \in 0..run' /\ audio' \in BOOLEAN
  <2> USE DEF selection
  <2>1. CASE StartRun
    <3>1. second' \in Nat /\ run' = run + 1 /\ UNCHANGED selection
      BY <2>1 DEF StartRun, RestInv
    <3>2. QED
      BY <1>0, <3>1 DEF RestInv
  <2>2. CASE EndStep
    BY <1>0, <2>2, EndSteps DEF ClearRun, RestInv
  <2>3. CASE Select
    BY <1>0, <2>3 DEF Select, RestInv
  <2>4. CASE Speak
    BY <1>0, <2>4 DEF Speak, RestInv
  <2>5. CASE Resolve \/ StoreCanonical \/ StoreEvents \/ WriteBrief \/ PrepareCards \/ Notified
    BY <2>5 DEF Resolve, StoreCanonical, StoreEvents, WriteBrief, PrepareCards, Notified, RestInv
  <2>6. CASE WriteOne \/ WriteRow \/ OutputsFail
    BY <2>6 DEF WriteOne, WriteRow, OutputsFail, RestInv
  <2>7. CASE TellOne \/ Publish \/ CallOne
    BY <2>7 DEF TellOne, Publish, CallOne, runVars, RestInv
  <2>8. CASE Telegram \/ SendsUpdate \/ Pushed \/ OffsetNotSaved
             \/ BeginHooking \/ EndHooking \/ Reconfigure \/ TimePasses
    BY <2>8, OtherSteps DEF runVars, RestInv
  <2>9. CASE UNCHANGED vars
    BY <2>9 DEF vars, runVars, RestInv
  <2>10. QED
    BY <2>1, <2>2, <2>3, <2>4, <2>5, <2>6, <2>7, <2>8, <2>9 DEF Next, RunStep, EndStep
<1>3. cleared' \in BOOLEAN
  <2> USE DEF deliveryVars
  <2>1. CASE QuietStep
    BY <2>1, QuietSteps DEF RestInv
  <2>2. CASE EndStep
    BY <2>2, EndSteps DEF ClearRun, ForgetNotice
  <2>3. CASE MessageStep
    BY <2>3, MessageSteps DEF Elsewhere, ComposeElsewhere, RestInv
  <2>4. CASE Reconfigure
    BY <2>4 DEF Reconfigure, ReplaceGenerator
  <2>5. CASE StartRun \/ Resolve \/ StoreCanonical \/ StoreEvents \/ Select \/ Notified
    BY <2>5 DEF StartRun, Resolve, StoreCanonical, StoreEvents, Select, Notified, NoDelivery, RestInv
  <2>6. CASE WriteBrief \/ Speak \/ PrepareCards \/ TellOne
    BY <2>6 DEF WriteBrief, Draft, Speak, Script, PrepareCards, MakeCards, TellOne, Tell, RestInv
  <2>7. QED
    BY <2>1, <2>2, <2>3, <2>4, <2>5, <2>6, Steps
<1>4. hookLock' \in Hookers \cup {NoHooker} /\ subs' \subseteq Subscriptions
  <2>1. CASE UNCHANGED hookVars
    BY <2>1 DEF hookVars, RestInv
  <2>2. ASSUME NEW w \in Hookers, LoadSubs(w)
        PROVE  hookLock' \in Hookers \cup {NoHooker} /\ subs' \subseteq Subscriptions
    BY <2>2 DEF LoadSubs, RestInv
  <2>3. ASSUME NEW w \in Hookers, NEW id \in Subscriptions, Subscribe(w, id) \/ Unsubscribe(w, id)
        PROVE  hookLock' \in Hookers \cup {NoHooker} /\ subs' \subseteq Subscriptions
    BY <2>3 DEF Subscribe, Unsubscribe, ReleaseHooks, HookInv, RestInv
  <2>4. CASE ListSubs \/ (\E id \in toCall, fails \in BOOLEAN : Call(id, fails))
             \/ (EndCalls /\ UNCHANGED <<subs, hookLock, loaded, asked>>)
    BY <2>4 DEF ListSubs, Call, RestInv
  <2>5. CASE CrashHooks
    BY <2>5 DEF CrashHooks, RestInv
  <2>6. QED
    BY <2>1, <2>2, <2>3, <2>4, <2>5, HookSteps DEF HookStep
<1>5. QED
  BY <1>1, <1>2, <1>3, <1>4 DEF RestInv

\* The remaining types hold initially.
LEMMA RestInit == Init => RestInv
<1> SUFFICES ASSUME Init
             PROVE  RestInv
  OBVIOUS
<1>1. left \in Budgeted
  BY DigestAssumption DEF Init
<1>2. second \in Nat /\ context \in 0..run
  BY DEF Init
<1>3. audio \in BOOLEAN /\ cleared \in BOOLEAN /\ hookLock \in Hookers \cup {NoHooker} /\ subs \subseteq Subscriptions
  BY DEF Init, DeliveryInit, WebhooksInit
<1>4. QED
  BY <1>1, <1>2, <1>3 DEF RestInv

\* Every variable of Digest keeps its type: what a brief and its notification
\* present was picked, what is stored stays well formed, over all faults.
THEOREM TypesCorrect == Spec => []TypeOK
<1>1. ASSUME BotInv, HookInv, BlankInv, PickInv, TellInv, StoryTypes, AnnounceInv, OutputsInv, RestInv
      PROVE  TypeOK
  <2>1. InboundTypeOK
    <3>1. DOMAIN Updates = 1..Len(Updates)
      BY InboundAssumption, LenProperties
    <3>2. QED
      BY <1>1, <3>1 DEF InboundTypeOK, BotInv, BotTypeOK, PickInv
  <2>2. DOMAIN loaded \subseteq Hookers /\ \A w \in DOMAIN loaded : loaded[w] \subseteq Subscriptions
    BY <1>1 DEF HookInv, RestInv
  <2>3. /\ told \subseteq Channels /\ toTell \in Seq(Channels) /\ heard \in [Channels -> SUBSET cards]
    BY <1>1 DEF TellInv
  <2>4. restarts \in Nat /\ stage \in Stages /\ run \in Nat /\ now \in Nat /\ StoriesTypeOK
    BY <1>1 DEF BotInv, BotTypeOK, BlankInv, StoryTypes
  <2>5. /\ slot \in 0..now
        /\ announced \subseteq [report : Reports, run : 1..run, at : 0..now, told : 0..now]
    BY <1>1 DEF AnnounceInv
  <2>6. DOMAIN named \subseteq OutputKinds
    BY <1>1 DEF OutputsInv
  <2>7. QED
    BY <1>1, <2>1, <2>2, <2>3, <2>4, <2>5, <2>6 DEF TypeOK, PickInv, RestInv
<1>2. QED
  BY <1>1, BotInit, BotNext, HookInit, HookNext, PickInit, BlankNext, PickNext, TellNext, StoryTypesInit,
     StoryTypesNext, AnnounceInit, AnnounceNext, OutputsStart, OutputsNext, RestInit, RestNext,
     TellStart, PTL DEF Spec
=============================================================================
