--------------------------- MODULE PipelineProofs ---------------------------
(***************************************************************************)
(* Proofs about Pipeline, for all sets of triggers and ingesters and all   *)
(* limits and bounds.                                                      *)
(***************************************************************************)
EXTENDS Pipeline, FiniteSetTheorems, TLAPS

-----------------------------------------------------------------------------
(* Reports.                                                                *)

\* A report maps run ids to statuses.
LEMMA ReportElim ==
    ASSUME NEW r \in Reports
    PROVE  DOMAIN r \subseteq RunIds /\ \A id \in DOMAIN r : r[id] \in Statuses
<1>1. PICK S \in SUBSET RunIds : r \in [S -> Statuses]
  BY DEF Reports
<1>2. QED
  BY <1>1

\* A function from run ids to statuses is a report.
LEMMA ReportIntro ==
    ASSUME NEW S \in SUBSET RunIds, NEW r \in [S -> Statuses]
    PROVE  r \in Reports
BY DEF Reports

\* What append_daily_summary and save_manifest do to a report.
LEMMA AppendKeeps ==
    ASSUME NEW id \in RunIds, NEW st \in Statuses, summary \in Reports, AppendSummary(id, st)
    PROVE  /\ summary' \in Reports
           /\ DOMAIN summary' = DOMAIN summary \cup {id}
           /\ \A i \in DOMAIN summary : summary'[i] = summary[i]
           /\ id \notin DOMAIN summary => summary'[id] = st
<1>1. /\ DOMAIN summary' = DOMAIN summary \cup {id}
      /\ \A i \in DOMAIN summary \cup {id} :
            summary'[i] = IF i \in DOMAIN summary THEN summary[i] ELSE st
  BY DEF AppendSummary
<1>2. summary' \in [DOMAIN summary \cup {id} -> Statuses]
  BY ReportElim DEF AppendSummary
<1>3. DOMAIN summary \cup {id} \in SUBSET RunIds
  BY ReportElim
<1>4. QED
  BY <1>1, <1>2, <1>3, ReportIntro

\* Saving a manifest sets the status of its run and keeps the others.
LEMMA ManifestKeeps ==
    ASSUME NEW w \in Triggers, run[w] \in RunIds, status[w] \in Statuses,
           manifests \in Reports, SaveManifest(w)
    PROVE  /\ manifests' \in Reports
           /\ DOMAIN manifests' = DOMAIN manifests \cup {run[w]}
           /\ manifests'[run[w]] = status[w]
           /\ \A i \in DOMAIN manifests : i # run[w] => manifests'[i] = manifests[i]
<1>1. manifests' = [id \in DOMAIN manifests \cup {run[w]} |->
                       IF id = run[w] THEN status[w] ELSE manifests[id]]
  BY DEF SaveManifest
<1>2. manifests' \in [DOMAIN manifests \cup {run[w]} -> Statuses]
  BY <1>1, ReportElim
<1>3. DOMAIN manifests \cup {run[w]} \in SUBSET RunIds
  BY ReportElim
<1>4. QED
  BY <1>1, <1>2, <1>3, ReportIntro

\* A write that breaks off empties its file, or loses the manifest it was
\* writing; the other files stay as they are.
LEMMA BreakOffKeeps ==
    ASSUME TypeOK, NEW ps \in SUBSET Threads, BreakOff(ps)
    PROVE  /\ cursor' \subseteq cursor /\ canonical' \subseteq canonical /\ events' \subseteq events
           /\ erased \subseteq erased' /\ erased' \subseteq Items /\ events \subseteq events' \cup erased'
           /\ manifests' \in Reports /\ DOMAIN manifests' \subseteq DOMAIN manifests
           /\ \A id \in DOMAIN manifests' : manifests'[id] = manifests[id]
           /\ \A id \in DOMAIN manifests :
                 id \in DOMAIN manifests' \/ \E w \in ps \cap Triggers : pc[w] = "manifest" /\ id = run[w]
           /\ latest' = latest \/ (latest' = NoRun /\ \E p \in ps : pc[p] = "latest")
           /\ summary' = summary
<1>1. manifests \in Reports /\ events \subseteq Items /\ erased \subseteq Items
  BY DEF TypeOK
<1>2. ASSUME NEW w \in ps \cap Triggers, pc[w] = "manifest",
             manifests' = [id \in DOMAIN manifests \ {run[w]} |-> manifests[id]]
      PROVE  /\ manifests' \in Reports /\ DOMAIN manifests' \subseteq DOMAIN manifests
             /\ \A id \in DOMAIN manifests' : manifests'[id] = manifests[id]
             /\ \A id \in DOMAIN manifests : id \in DOMAIN manifests' \/ id = run[w]
  <2>1. manifests' \in [DOMAIN manifests \ {run[w]} -> Statuses]
    BY <1>1, <1>2, ReportElim
  <2>2. DOMAIN manifests \ {run[w]} \in SUBSET RunIds
    BY <1>1, ReportElim
  <2>3. QED
    BY <1>2, <2>1, <2>2, ReportIntro
<1>3. /\ manifests' \in Reports /\ DOMAIN manifests' \subseteq DOMAIN manifests
      /\ \A id \in DOMAIN manifests' : manifests'[id] = manifests[id]
      /\ \A id \in DOMAIN manifests :
            id \in DOMAIN manifests' \/ \E w \in ps \cap Triggers : pc[w] = "manifest" /\ id = run[w]
  <2>1. CASE manifests' = manifests
    BY <1>1, <2>1
  <2>2. CASE \E w \in ps \cap Triggers :
                /\ pc[w] = "manifest"
                /\ manifests' = [id \in DOMAIN manifests \ {run[w]} |-> manifests[id]]
    BY <1>2, <2>2
  <2>3. QED
    BY <2>1, <2>2 DEF BreakOff
<1>4. /\ cursor' \subseteq cursor /\ canonical' \subseteq canonical /\ events' \subseteq events
      /\ erased \subseteq erased' /\ erased' \subseteq Items /\ events \subseteq events' \cup erased'
      /\ latest' = latest \/ (latest' = NoRun /\ \E p \in ps : pc[p] = "latest")
      /\ summary' = summary
  BY <1>1 DEF BreakOff
<1>5. QED
  BY <1>3, <1>4

\* The empty report is a report.
LEMMA EmptyReportType == EmptyReport \in Reports /\ DOMAIN EmptyReport = {}
<1>1. EmptyReport \in [{} -> Statuses]
  BY DEF EmptyReport
<1>2. QED
  BY <1>1, ReportIntro DEF EmptyReport

-----------------------------------------------------------------------------
(* Types.                                                                  *)

\* The types hold at the start.
LEMMA InitType == Init => TypeOK
<1> SUFFICES ASSUME Init
             PROVE  TypeOK
  OBVIOUS
<1> USE PipelineAssumption
<1>1. manifests \in Reports /\ summary \in Reports
  BY EmptyReportType DEF Init
<1>2. status \in [Triggers -> Statuses]
  BY DEF Init, Statuses
<1>3. QED
  BY <1>1, <1>2 DEF Init, TypeOK, Threads

\* The feed's items.
LEMMA EmittedType ==
    ASSUME TypeOK, NEW seen
    PROVE  Emitted(seen) \subseteq Items
BY PipelineAssumption DEF Emitted, Newest, Items, TypeOK

\* Moving a thread to another stage of its run.
LEMMA GoType ==
    ASSUME TypeOK, NEW w \in Triggers, pc[w] # "idle", NEW st \in Stages, Go(w, st)
    PROVE  /\ pc' \in [Threads -> Stages \cup {"idle"}]
           /\ \A g \in Ingesters : pc'[g] = pc[g]
           /\ \A v \in Triggers : pc'[v] = "idle" <=> pc[v] = "idle"
BY PipelineAssumption DEF TypeOK, Go, Threads, Stages

\* Ending a run.
LEMMA ReleaseType ==
    ASSUME TypeOK, NEW w \in Triggers, Release(w)
    PROVE  /\ lock' \in Triggers \cup {NoOne}
           /\ pc' \in [Threads -> Stages \cup {"idle"}]
           /\ \A g \in Ingesters : pc'[g] = pc[g]
           /\ run' \in [Triggers -> RunIds \cup {NoRun}]
           /\ \A v \in Triggers : pc'[v] = "idle" <=> run'[v] = NoRun
           /\ status' \in [Triggers -> Statuses]
           /\ items' \in [Threads -> SUBSET Items]
           /\ loaded' \in [Threads -> SUBSET Items]
BY PipelineAssumption DEF TypeOK, Release, Go, Threads, Statuses

\* Every step keeps the types.
LEMMA TypeNext == TypeOK /\ [Next]_vars => TypeOK'
<1> SUFFICES ASSUME TypeOK, [Next]_vars
             PROVE  TypeOK'
  OBVIOUS
<1> USE PipelineAssumption
<1>1. CASE UNCHANGED vars
  BY <1>1 DEF TypeOK, vars, disk, local, InHand
<1>2. CASE Publish
  BY <1>2 DEF TypeOK, Publish, disk, local
<1>3. ASSUME NEW w \in Triggers, StartRun(w)
      PROVE  TypeOK'
  <2>1. /\ run' = [run EXCEPT ![w] = <<clock', w>>]
        /\ pc' = [pc EXCEPT ![w] = "ingest"]
        /\ clock' \in Nat /\ clock' <= runs' /\ runs' \in 0..MaxRuns
    BY <1>3 DEF TypeOK, StartRun, Go
  <2>2. <<clock', w>> \in RunIds /\ <<clock', w>> # NoRun
    BY <2>1 DEF RunIds
  <2>3. w \in Threads /\ w \notin Ingesters
    BY DEF Threads
  <2>4. run' \in [Triggers -> RunIds \cup {NoRun}]
    BY <2>1, <2>2 DEF TypeOK
  <2>5. pc' \in [Threads -> Stages \cup {"idle"}] /\ \A g \in Ingesters : pc'[g] = pc[g]
    BY <2>1, <2>3 DEF TypeOK, Stages, Threads
  <2>6. \A v \in Triggers : pc'[v] = "idle" <=> run'[v] = NoRun
    BY <2>1, <2>2, <2>3 DEF TypeOK, Threads
  <2>7. QED
    BY <1>3, <2>1, <2>4, <2>5, <2>6 DEF TypeOK, StartRun, disk
<1>4. ASSUME NEW w \in Triggers, RunStep(w) \/ RunFails(w) \/ ReportFails(w)
      PROVE  TypeOK'
  <2>1. w \in Threads
    BY DEF Threads
  <2>2. pc[w] # "idle" /\ run[w] \in RunIds /\ status[w] \in Statuses /\ items[w] \subseteq Items
    BY <1>4, <2>1 DEF TypeOK, RunStep, RunFetch, RunSaveCursor, Resolve, SaveCanonical, SaveEvents,
          SaveBrief, Summarise, PublishOutputs, SaveManifest, SaveLatest, RunFails, ReportFails, Stages
  <2>3. CASE RunFetch(w)
    <3>1. \A seen \in {cursor, {}} : Emitted(seen) \subseteq Items /\ seen \subseteq Items
      BY EmittedType DEF TypeOK
    <3>2. PICK seen \in {cursor, {}} : /\ items' = [items EXCEPT ![w] = Emitted(seen)]
                                       /\ loaded' = [loaded EXCEPT ![w] = seen]
                                       /\ Go(w, "fetched")
      BY <2>3 DEF RunFetch, Fetch
    <3>3. "fetched" \in Stages
      BY DEF Stages
    <3>4. QED
      BY <2>1, <2>2, <2>3, <3>1, <3>2, <3>3, GoType DEF TypeOK, RunFetch, disk
  <2>4. CASE RunSaveCursor(w)
    <3>1. Go(w, "extract") /\ "extract" \in Stages
      BY <2>4 DEF RunSaveCursor, Stages
    <3>2. QED
      BY <2>1, <2>2, <2>4, <3>1, GoType DEF TypeOK, RunSaveCursor, SaveCursor, local
  <2>5. CASE Resolve(w)
    <3>1. Go(w, "resolved") /\ "resolved" \in Stages
      BY <2>5 DEF Resolve, Stages
    <3>2. PICK got \in SUBSET Read(items[w]) :
             /\ \E kept \in Resolutions(got) : items' = [items EXCEPT ![w] = kept]
             /\ leftOut' = leftOut \cup (Read(items[w]) \ got)
      BY <2>5 DEF Resolve
    <3>3. PICK kept \in Resolutions(got) : items' = [items EXCEPT ![w] = kept]
      BY <3>2
    <3>5. Read(items[w]) \subseteq Items
      BY <2>2 DEF Read
    <3>6. kept \subseteq Items /\ leftOut' \subseteq Items
      BY <3>2, <3>3, <3>5 DEF Resolutions, TypeOK
    <3>4. QED
      BY <2>1, <2>2, <2>5, <3>1, <3>3, <3>6, GoType DEF TypeOK, Resolve, disk
  <2>6. CASE SaveCanonical(w)
    <3>1. Go(w, "stored") /\ "stored" \in Stages
      BY <2>6 DEF SaveCanonical, Stages
    <3>2. QED
      BY <2>1, <2>2, <2>6, <3>1, GoType DEF TypeOK, SaveCanonical, local
  <2>7. CASE SaveEvents(w)
    <3>1. Go(w, "brief") /\ "brief" \in Stages
      BY <2>7 DEF SaveEvents, Stages
    <3>2. QED
      BY <2>1, <2>2, <2>7, <3>1, GoType DEF TypeOK, SaveEvents, local
  <2>8. CASE SaveBrief(w)
    <3>1. Go(w, "report") /\ "report" \in Stages
      BY <2>8 DEF SaveBrief, Stages
    <3>2. QED
      BY <2>1, <2>2, <2>8, <3>1, GoType DEF TypeOK, SaveBrief, disk, local
  <2>9. CASE Summarise(w)
    <3>1. PICK st \in Stages : Go(w, st)
      BY <2>9 DEF Summarise, Stages
    <3>2. summary' \in Reports /\ faults' \in 0..MaxFaults
      <4>1. summary \in Reports /\ faults \in 0..MaxFaults
        BY DEF TypeOK
      <4>2. CASE AppendSummary(run[w], status[w]) /\ UNCHANGED faults
        BY <2>2, <4>1, <4>2, AppendKeeps
      <4>3. CASE faults < MaxFaults /\ faults' = faults + 1 /\ UNCHANGED summary
        BY <4>1, <4>3
      <4>4. QED
        BY <2>9, <4>2, <4>3 DEF Summarise, MayFail
    <3>3. UNCHANGED <<published, cursor, canonical, events, manifests, latest, lock, run, status,
                      items, loaded, handed, wasted, leftOut, erased, clock, runs>>
      BY <2>9 DEF Summarise, local
    <3>4. QED
      BY <2>1, <2>2, <3>1, <3>2, <3>3, GoType DEF TypeOK
  <2>10. CASE PublishOutputs(w)
    <3>1. Go(w, "manifest") /\ "manifest" \in Stages
      BY <2>10 DEF PublishOutputs, Stages
    <3>2. QED
      BY <2>1, <2>2, <2>10, <3>1, GoType DEF TypeOK, PublishOutputs, disk, local
  <2>11. CASE SaveManifest(w)
    <3>1. Go(w, "latest") /\ "latest" \in Stages
      BY <2>11 DEF SaveManifest, Stages
    <3>2. manifests' \in Reports
      BY <2>2, <2>11, ManifestKeeps DEF TypeOK
    <3>3. QED
      BY <2>1, <2>2, <2>11, <3>1, <3>2, GoType DEF TypeOK, SaveManifest, local
  <2>12. CASE SaveLatest(w)
    <3>1. Release(w)
      BY <2>12 DEF SaveLatest
    <3>2. QED
      BY <2>2, <2>12, <3>1, ReleaseType DEF TypeOK, SaveLatest
  <2>13. CASE RunFails(w)
    <3>1. Go(w, "report") /\ "report" \in Stages
      BY <2>13 DEF RunFails, Stages
    <3>2. status' \in [Triggers -> Statuses] /\ faults' \in 0..MaxFaults
      BY <2>13 DEF RunFails, MayFail, TypeOK, Statuses
    <3>3. BreakOff({w}) /\ {w} \in SUBSET Threads
      BY <2>1, <2>13 DEF RunFails
    <3>4. QED
      BY <2>1, <2>2, <2>13, <3>1, <3>2, <3>3, GoType, BreakOffKeeps DEF TypeOK, RunFails
  <2>14. CASE ReportFails(w)
    <3>1. Release(w) /\ faults' \in 0..MaxFaults
      BY <2>14 DEF ReportFails, MayFail, TypeOK
    <3>2. BreakOff({w}) /\ {w} \in SUBSET Threads
      BY <2>1, <2>14 DEF ReportFails
    <3>3. QED
      BY <2>14, <3>1, <3>2, ReleaseType, BreakOffKeeps DEF TypeOK, ReportFails
  <2>15. QED
    BY <1>4, <2>3, <2>4, <2>5, <2>6, <2>7, <2>8, <2>9, <2>10, <2>11, <2>12, <2>13, <2>14 DEF RunStep
<1>5. ASSUME NEW g \in Ingesters,
             IngestOnlyFetch(g) \/ IngestOnlySaveCursor(g) \/ IngestOnlyFails(g)
      PROVE  TypeOK'
  <2>1. g \in Threads /\ g \notin Triggers
    BY DEF Threads
  <2>2. /\ pc' \in [Threads -> Stages \cup {"idle"}]
        /\ \A h \in Ingesters : pc'[h] \in {"idle", "fetched"}
        /\ \A v \in Triggers : pc'[v] = pc[v]
    BY <1>5, <2>1 DEF TypeOK, Threads, Stages, IngestOnlyFetch, IngestOnlySaveCursor, IngestOnlyFails,
          Fetch, Go
  <2>3. items' \in [Threads -> SUBSET Items] /\ loaded' \in [Threads -> SUBSET Items]
    BY <1>5, <2>1, EmittedType DEF TypeOK, IngestOnlyFetch, IngestOnlySaveCursor, IngestOnlyFails, Fetch
  <2>4. /\ wasted' \subseteq Items /\ faults' \in 0..MaxFaults
        /\ UNCHANGED <<published, lock, run, status, handed, leftOut, clock, runs>>
    BY <1>5, <2>1 DEF TypeOK, IngestOnlyFetch, IngestOnlySaveCursor, IngestOnlyFails, MayFail, Fetch, disk
  <2>5. /\ cursor' \subseteq Items /\ canonical' \subseteq Items /\ events' \subseteq Items
        /\ erased' \subseteq Items /\ manifests' \in Reports /\ summary' \in Reports
        /\ latest' \in RunIds \cup {NoRun}
    <3>1. CASE IngestOnlyFetch(g)
      BY <3>1 DEF IngestOnlyFetch, TypeOK, disk
    <3>2. CASE IngestOnlySaveCursor(g)
      BY <2>1, <3>2 DEF IngestOnlySaveCursor, SaveCursor, TypeOK
    <3>3. CASE IngestOnlyFails(g)
      <4>1. BreakOff({g}) /\ {g} \in SUBSET Threads
        BY <2>1, <3>3 DEF IngestOnlyFails
      <4>2. QED
        BY <4>1, BreakOffKeeps DEF TypeOK
    <3>4. QED
      BY <1>5, <3>1, <3>2, <3>3
  <2>6. QED
    BY <2>2, <2>3, <2>4, <2>5 DEF TypeOK
<1>6. CASE Crash
  <2>1. status' \in [Triggers -> Statuses]
    BY <1>6 DEF Crash, Statuses
  <2>2. wasted' \subseteq Items
    BY <1>6 DEF Crash, TypeOK, Threads
  <2>3. BreakOff(Threads)
    BY <1>6 DEF Crash
  <2>4. QED
    BY <1>6, <2>1, <2>2, <2>3, BreakOffKeeps DEF Crash, MayFail, TypeOK, Threads
<1>7. QED
  BY <1>1, <1>2, <1>3, <1>4, <1>5, <1>6 DEF Next

\* The files, locks and stages of the pipeline keep their types.
THEOREM PipelineTypeCorrect == Spec => []TypeOK
<1>1. Init => TypeOK
  BY InitType
<1>2. TypeOK /\ [Next]_vars => TypeOK'
  BY TypeNext
<1>3. QED
  BY <1>1, <1>2, PTL DEF Spec

-----------------------------------------------------------------------------
(* The lock.  ingest_only runs beside a run, another run does not.         *)

Locked == \A w \in Triggers : pc[w] # "idle" => lock = w

\* The steps of a trigger, and of an ingester.
RunAction(w) == RunStep(w) \/ RunFails(w) \/ ReportFails(w)
IngestAction(g) == IngestOnlyFetch(g) \/ IngestOnlySaveCursor(g) \/ IngestOnlyFails(g)

\* Only a run's own steps touch its stage and its records.
LEMMA RunFrame ==
    ASSUME TypeOK, NEW w \in Triggers, RunAction(w)
    PROVE  /\ pc[w] # "idle"
           /\ pc' = [pc EXCEPT ![w] = pc'[w]]
           /\ items' = [items EXCEPT ![w] = items'[w]]
           /\ loaded' = [loaded EXCEPT ![w] = loaded'[w]]
           /\ \A v \in Triggers \ {w} :
                 pc'[v] = pc[v] /\ items'[v] = items[v] /\ loaded'[v] = loaded[v]
           /\ \/ lock' = lock /\ pc'[w] # "idle" /\ run' = run
              \/ lock' = NoOne /\ pc'[w] = "idle" /\ items'[w] = {}
<1> USE PipelineAssumption
<1>1. /\ w \in Threads
      /\ pc \in [Threads -> Stages \cup {"idle"}]
      /\ items \in [Threads -> SUBSET Items]
      /\ loaded \in [Threads -> SUBSET Items]
      /\ \A v \in Triggers : v \in Threads
  BY DEF TypeOK, Threads
<1>2. CASE RunFetch(w) \/ RunSaveCursor(w) \/ Resolve(w) \/ SaveCanonical(w) \/ SaveEvents(w)
  BY <1>1, <1>2 DEF RunFetch, Fetch, RunSaveCursor, Resolve, SaveCanonical, SaveEvents, Go, local
<1>3. CASE SaveBrief(w) \/ Summarise(w) \/ PublishOutputs(w) \/ SaveManifest(w) \/ RunFails(w)
  BY <1>1, <1>3 DEF SaveBrief, Summarise, PublishOutputs, SaveManifest, RunFails, Go, Stages, local
<1>4. CASE SaveLatest(w) \/ ReportFails(w)
  BY <1>1, <1>4 DEF SaveLatest, ReportFails, Release, Go
<1>5. QED
  BY <1>2, <1>3, <1>4 DEF RunAction, RunStep

\* An ingester's step leaves the runs alone.
LEMMA IngestFrame ==
    ASSUME TypeOK, NEW g \in Ingesters, IngestAction(g)
    PROVE  /\ \A v \in Triggers :
                 pc'[v] = pc[v] /\ items'[v] = items[v] /\ loaded'[v] = loaded[v]
           /\ \A h \in Ingesters \ {g} :
                 pc'[h] = pc[h] /\ items'[h] = items[h] /\ loaded'[h] = loaded[h]
           /\ UNCHANGED <<published, canonical, events, manifests, summary, latest, lock, run, status,
                          handed, leftOut, erased, clock, runs>>
           /\ wasted \subseteq wasted'
<1>1. g \in Threads /\ g \notin Triggers
  BY PipelineAssumption DEF Threads
<1>2. CASE IngestOnlyFetch(g) \/ IngestOnlySaveCursor(g)
  BY <1>1, <1>2 DEF TypeOK, Threads, IngestOnlyFetch, IngestOnlySaveCursor, Fetch, Go, disk
<1>3. CASE IngestOnlyFails(g)
  <2>1. pc[g] = "fetched" /\ BreakOff({g})
    BY <1>3 DEF IngestOnlyFails
  <2>2. UNCHANGED <<canonical, events, erased, manifests, summary, latest>>
    BY <1>1, <2>1 DEF BreakOff
  <2>3. QED
    BY <1>1, <1>3, <2>2 DEF TypeOK, Threads, IngestOnlyFails, Go
<1>4. QED
  BY <1>2, <1>3 DEF IngestAction

\* A step is one of a run, of an ingester, of the feed, or a crash.
LEMMA NextCases ==
    ASSUME [Next]_vars
    PROVE  \/ UNCHANGED vars \/ Publish \/ Crash
           \/ \E w \in Triggers : StartRun(w) \/ RunAction(w)
           \/ \E g \in Ingesters : IngestAction(g)
BY DEF Next, RunAction, IngestAction

\* Every step leaves at most the holder of the lock in a run.
LEMMA LockedNext == TypeOK /\ Locked /\ [Next]_vars => Locked'
<1> SUFFICES ASSUME TypeOK, Locked, [Next]_vars
             PROVE  Locked'
  OBVIOUS
<1>1. CASE UNCHANGED vars \/ Publish
  BY <1>1 DEF Locked, vars, Publish
<1>2. CASE Crash
  BY <1>2 DEF Locked, Crash, Threads
<1>3. ASSUME NEW w \in Triggers, StartRun(w)
      PROVE  Locked'
  BY <1>3, PipelineAssumption DEF Locked, StartRun, Go, TypeOK, Threads
<1>4. ASSUME NEW w \in Triggers, RunAction(w)
      PROVE  Locked'
  BY <1>4, RunFrame DEF Locked
<1>5. ASSUME NEW g \in Ingesters, IngestAction(g)
      PROVE  Locked'
  BY <1>5, IngestFrame DEF Locked
<1>6. QED
  BY <1>1, <1>2, <1>3, <1>4, <1>5, NextCases

\* At most one run_once is in progress, also across failures and restarts.
THEOREM OneRunAtATime == Spec => []Locked
<1>1. Init => Locked
  BY DEF Init, Locked, Threads
<1>2. QED
  BY <1>1, LockedNext, PipelineTypeCorrect, PTL DEF Spec

-----------------------------------------------------------------------------
(* The dedup history.                                                      *)

\* The records a run is about to write over events.json hold all that is there.
HistoryInv ==
    \A w \in Triggers : pc[w] \in {"resolved", "stored"} => events \subseteq loaded[w]

\* Every step keeps the records about to be written up to date.
LEMMA HistoryNext == TypeOK /\ Locked /\ HistoryInv /\ [Next]_vars => HistoryInv'
<1> SUFFICES ASSUME TypeOK, Locked, HistoryInv, [Next]_vars
             PROVE  HistoryInv'
  OBVIOUS
<1>1. CASE UNCHANGED vars \/ Publish
  BY <1>1 DEF HistoryInv, vars, Publish, disk, local
<1>2. CASE Crash
  BY <1>2 DEF HistoryInv, Crash, Threads
<1>3. ASSUME NEW w \in Triggers, StartRun(w)
      PROVE  HistoryInv'
  BY <1>3 DEF HistoryInv, StartRun, Go, TypeOK, Threads, disk
<1>4. ASSUME NEW w \in Triggers, RunAction(w)
      PROVE  HistoryInv'
  <2>1. \A v \in Triggers \ {w} : pc'[v] = "idle"
    BY <1>4, RunFrame, PipelineAssumption DEF Locked
  <2>2. ASSUME pc'[w] \in {"resolved", "stored"}
        PROVE  events' \subseteq loaded'[w]
    <3>1. w \in Threads
      BY DEF Threads
    <3>2. Resolve(w) \/ SaveCanonical(w)
      BY <1>4, <2>2, <3>1 DEF RunAction, RunStep, RunFetch, Fetch, RunSaveCursor, SaveEvents, SaveBrief,
            Summarise, PublishOutputs, SaveManifest, SaveLatest, RunFails, ReportFails, Release, Go, TypeOK
    <3>3. CASE Resolve(w)
      BY <3>1, <3>3 DEF Resolve, TypeOK, disk
    <3>4. CASE SaveCanonical(w)
      BY <3>4 DEF SaveCanonical, HistoryInv, local
    <3>5. QED
      BY <3>2, <3>3, <3>4
  <2>3. QED
    BY <2>1, <2>2 DEF HistoryInv
<1>5. ASSUME NEW g \in Ingesters, IngestAction(g)
      PROVE  HistoryInv'
  BY <1>5, IngestFrame DEF HistoryInv
<1>6. QED
  BY <1>1, <1>2, <1>3, <1>4, <1>5, NextCases

\* A fault that hits the runs ps empties at most the file that one of them writes.
LEMMA HistoryHit ==
    ASSUME TypeOK, Locked, NEW ps \in SUBSET Threads, BreakOff(ps), faults' = faults + 1
    PROVE  /\ canonical' = canonical \/ (canonical' = {} /\ Hit("resolved") /\ events' = events)
           /\ events' = events \/ (events' = {} /\ Hit("stored") /\ canonical' = canonical)
<1>1. \A p \in ps : pc[p] \in {"resolved", "stored"} => p \in Triggers
  BY DEF TypeOK, Threads
<1>2. ASSUME NEW p \in ps, NEW q \in ps, pc[p] = "resolved", pc[q] = "stored"
      PROVE  FALSE
  BY <1>1, <1>2 DEF Locked
<1>3. QED
  BY <1>1, <1>2 DEF BreakOff, Hit

\* A step keeps what canonical signals and event records there are, or a fault
\* hits the write of one of the files.
LEMMA HistoryStep ==
    ASSUME TypeOK, Locked, HistoryInv, [Next]_vars
    PROVE  /\ canonical \subseteq canonical' \/ (canonical' = {} /\ Hit("resolved") /\ events' = events)
           /\ events \subseteq events' \/ (events' = {} /\ Hit("stored") /\ canonical' = canonical)
<1>1. CASE UNCHANGED vars \/ Publish
  BY <1>1 DEF vars, Publish, disk
<1>2. CASE Crash
  BY <1>2, HistoryHit DEF Crash
<1>3. ASSUME NEW w \in Triggers, StartRun(w)
      PROVE  canonical \subseteq canonical' /\ events \subseteq events'
  BY <1>3 DEF StartRun, disk
<1>4. ASSUME NEW w \in Triggers, RunStep(w)
      PROVE  canonical \subseteq canonical' /\ events \subseteq events'
  <2>1. CASE SaveEvents(w)
    BY <2>1 DEF SaveEvents, HistoryInv
  <2>2. CASE SaveCanonical(w)
    BY <2>2 DEF SaveCanonical
  <2>3. QED
    BY <1>4, <2>1, <2>2 DEF RunStep, RunFetch, RunSaveCursor, Resolve, SaveBrief, Summarise,
          PublishOutputs, SaveManifest, SaveLatest, disk
<1>5. ASSUME NEW w \in Triggers, RunFails(w) \/ ReportFails(w)
      PROVE  /\ canonical' = canonical \/ (canonical' = {} /\ Hit("resolved") /\ events' = events)
             /\ events' = events \/ (events' = {} /\ Hit("stored") /\ canonical' = canonical)
  <2>1. BreakOff({w}) /\ faults' = faults + 1 /\ {w} \in SUBSET Threads
    BY <1>5 DEF RunFails, ReportFails, Threads
  <2>2. QED
    BY <2>1, HistoryHit
<1>6. ASSUME NEW g \in Ingesters, IngestAction(g)
      PROVE  canonical \subseteq canonical' /\ events \subseteq events'
  BY <1>6, IngestFrame
<1>7. QED
  BY <1>1, <1>2, <1>3, <1>4, <1>5, <1>6, NextCases DEF RunAction

\* The records about to be written are always up to date.
LEMMA HistoryAlways == Spec => []HistoryInv
<1>1. Init => HistoryInv
  BY DEF Init, HistoryInv, Threads
<1>2. QED
  BY <1>1, HistoryNext, PipelineTypeCorrect, OneRunAtATime, PTL DEF Spec

\* The dedup history shrinks only by a fault in the write of one of its files,
\* which empties that file, although a run replaces events.json by records it
\* loaded before its model calls.
THEOREM HistoryNeverShrinks == Spec => HistoryGrows
<1>1. TypeOK /\ Locked /\ HistoryInv /\ [Next]_vars =>
        [/\ canonical \subseteq canonical' \/ (canonical' = {} /\ Hit("resolved") /\ events' = events)
         /\ events \subseteq events' \/ (events' = {} /\ Hit("stored") /\ canonical' = canonical)]_vars
  BY HistoryStep
<1>2. QED
  BY <1>1, PipelineTypeCorrect, OneRunAtATime, HistoryAlways, PTL DEF Spec, HistoryGrows

-----------------------------------------------------------------------------
(* Dangling event references.                                              *)

\* The stages after the event store was saved, or after the run failed.
Settled == {"brief", "report", "publish", "manifest", "latest"}

\* A settled run's items have their events, lost them to a write that broke off,
\* or were given up by a failure; a signal without an event is between its run's
\* two saves, or lost it, or was given up.
DanglingInv ==
    /\ \A w \in Triggers : pc[w] \in Settled => items[w] \subseteq events \cup wasted \cup erased
    /\ \A i \in canonical \ events :
          i \in wasted \cup erased \/ \E w \in Triggers : pc[w] = "stored" /\ i \in items[w]

\* Every step keeps the account of signals without events.
LEMMA DanglingNext ==
    TypeOK /\ Locked /\ HistoryInv /\ DanglingInv /\ [Next]_vars => DanglingInv'
<1> SUFFICES ASSUME TypeOK, Locked, HistoryInv, DanglingInv, [Next]_vars
             PROVE  DanglingInv'
  OBVIOUS
<1>1. CASE UNCHANGED vars \/ Publish
  BY <1>1 DEF DanglingInv, vars, Publish, disk, local
<1>2. CASE Crash
  <2>1. /\ canonical' \subseteq canonical /\ events \subseteq events' \cup erased' /\ erased \subseteq erased'
        /\ \A w \in Triggers : pc'[w] = "idle" /\ items[w] \subseteq wasted'
        /\ wasted \subseteq wasted'
    BY <1>2, BreakOffKeeps DEF Crash, Threads
  <2>2. QED
    BY <2>1 DEF DanglingInv, Settled
<1>3. ASSUME NEW w \in Triggers, StartRun(w)
      PROVE  DanglingInv'
  <2>1. /\ \A v \in Triggers : pc'[v] = pc[v] \/ (pc'[v] = "ingest" /\ pc[v] = "idle")
        /\ items' = items /\ wasted' = wasted /\ canonical' = canonical /\ events' = events
        /\ erased' = erased
    BY <1>3, PipelineAssumption DEF StartRun, Go, disk, Locked, TypeOK, Threads
  <2>2. QED
    BY <2>1 DEF DanglingInv, Settled
<1>4. ASSUME NEW w \in Triggers, RunAction(w)
      PROVE  DanglingInv'
  <2>1. \A v \in Triggers \ {w} : pc[v] = "idle" /\ pc'[v] = "idle"
    BY <1>4, RunFrame, PipelineAssumption DEF Locked
  <2>2. w \in Threads
    BY DEF Threads
  <2>3. \A i \in canonical \ events : i \in wasted \cup erased \/ (pc[w] = "stored" /\ i \in items[w])
    BY <2>1 DEF DanglingInv
  <2>4. pc[w] \in Settled => items[w] \subseteq events \cup wasted \cup erased
    BY DEF DanglingInv
  <2>5. pc[w] = "stored" => events \subseteq loaded[w]
    BY DEF HistoryInv
  <2>6. /\ pc'[w] \in Settled => items'[w] \subseteq events' \cup wasted' \cup erased'
        /\ \A i \in canonical' \ events' : i \in wasted' \cup erased' \/ (pc'[w] = "stored" /\ i \in items'[w])
    <3>1. CASE SaveCanonical(w) \/ SaveEvents(w)
      BY <2>2, <2>3, <2>4, <2>5, <3>1 DEF SaveCanonical, SaveEvents, Go, TypeOK, local, Settled
    <3>2. CASE RunFetch(w) \/ RunSaveCursor(w) \/ Resolve(w)
      BY <2>2, <2>3, <2>4, <3>2 DEF RunFetch, Fetch, RunSaveCursor, Resolve, Go, TypeOK, local, disk, Settled
    <3>3. CASE SaveBrief(w) \/ Summarise(w) \/ PublishOutputs(w) \/ SaveManifest(w)
      BY <2>2, <2>3, <2>4, <3>3 DEF SaveBrief, Summarise, PublishOutputs, SaveManifest, Go, TypeOK, local,
            disk, Settled
    <3>4. CASE RunFails(w)
      <4>1. BreakOff({w}) /\ {w} \in SUBSET Threads
        BY <2>2, <3>4 DEF RunFails
      <4>2. /\ canonical' \subseteq canonical /\ events \subseteq events' \cup erased' /\ erased \subseteq erased'
        BY <4>1, BreakOffKeeps
      <4>3. items'[w] = {} /\ wasted' = wasted \cup items[w]
        BY <2>2, <3>4 DEF RunFails, TypeOK
      <4>4. QED
        BY <2>3, <2>4, <4>2, <4>3
    <3>5. CASE SaveLatest(w)
      BY <2>2, <2>3, <2>4, <3>5 DEF SaveLatest, Release, Go, TypeOK, Settled
    <3>6. CASE ReportFails(w)
      <4>1. BreakOff({w}) /\ {w} \in SUBSET Threads /\ pc[w] \in {"manifest", "latest"}
        BY <2>2, <3>6 DEF ReportFails
      <4>2. canonical' \subseteq canonical /\ events \subseteq events' \cup erased' /\ erased \subseteq erased'
        BY <4>1, BreakOffKeeps
      <4>3. items'[w] = {} /\ wasted' = wasted
        BY <2>2, <3>6 DEF ReportFails, Release, TypeOK
      <4>4. QED
        BY <2>3, <4>1, <4>2, <4>3
    <3>7. QED
      BY <1>4, <3>1, <3>2, <3>3, <3>4, <3>5, <3>6 DEF RunAction, RunStep
  <2>7. QED
    BY <2>1, <2>6 DEF DanglingInv, Settled
<1>5. ASSUME NEW g \in Ingesters, IngestAction(g)
      PROVE  DanglingInv'
  BY <1>5, IngestFrame DEF DanglingInv
<1>6. QED
  BY <1>1, <1>2, <1>3, <1>4, <1>5, NextCases

\* A signal that names an event the event store does not hold is between the two
\* saves of the run in progress, or a run ended there, or a write of events.json
\* that broke off erased the event.
THEOREM DanglingExplained == Spec => []DanglingIsExplained
<1>1. Init => DanglingInv
  BY DEF Init, DanglingInv, Threads, Settled
<1>2. DanglingInv => DanglingIsExplained
  BY DEF DanglingInv, DanglingIsExplained, InHand
<1>3. QED
  BY <1>1, <1>2, DanglingNext, PipelineTypeCorrect, OneRunAtATime, HistoryAlways, PTL DEF Spec

-----------------------------------------------------------------------------
(* No item vanishes.                                                       *)

\* The extractor reads all of what a source can list at once.
LEMMA ReadsAll ==
    ASSUME MaxPerFetch <= MaxInput, NEW k \in Nat,
           NEW s \in SUBSET {i \in 1..k : i + MaxPerFetch > k}
    PROVE  Read(s) = s
<1> USE PipelineAssumption
<1> SUFFICES ASSUME NEW i \in s
             PROVE  Cardinality({j \in s : j > i}) < MaxInput
  BY DEF Read
<1>1. i \in 1..k /\ i + MaxPerFetch > k
  OBVIOUS
<1>2. {j \in s : j > i} \in SUBSET ((i + 1)..k)
  <2>1. ASSUME NEW j \in s, j > i
        PROVE  j \in (i + 1)..k
    <3>1. j \in 1..k
      OBVIOUS
    <3>2. QED
      BY <1>1, <2>1, <3>1
  <2>2. QED
    BY <2>1
<1>3. i + 1 \in Int /\ k \in Int
  BY <1>1
<1>4. IsFiniteSet((i + 1)..k) /\ Cardinality((i + 1)..k) <= k - i
  <2>1. /\ IsFiniteSet((i + 1)..k)
        /\ Cardinality((i + 1)..k) = IF i + 1 > k THEN 0 ELSE k - (i + 1) + 1
    BY <1>3, FS_Interval
  <2>2. QED
    BY <1>1, <2>1
<1>5. /\ IsFiniteSet({j \in s : j > i})
      /\ Cardinality({j \in s : j > i}) <= Cardinality((i + 1)..k)
  BY <1>2, <1>4, FS_Subset
<1>6. Cardinality({j \in s : j > i}) \in Nat /\ Cardinality((i + 1)..k) \in Nat
  BY <1>4, <1>5, FS_CardinalityType
<1>7. QED
  BY <1>1, <1>4, <1>5, <1>6

\* A fetch emits items of the listing.
LEMMA EmittedIsListed ==
    ASSUME NEW seen
    PROVE  Emitted(seen) \subseteq {i \in 1..published : i + MaxPerFetch > published}
BY DEF Emitted, Newest

\* What is accounted for: in a brief, left out, given up, or in the hands of a run.
Accounted == handed \cup wasted \cup leftOut \cup InHand

\* The stages after the brief was saved, or after the run failed.
Briefed == {"report", "publish", "manifest", "latest"}

VanishInv ==
    /\ \A w \in Triggers : pc[w] \in {"idle", "ingest"} => items[w] = {}
    /\ \A w \in Triggers : pc[w] \in {"fetched", "extract"} =>
          \E k \in Nat : items[w] \subseteq {i \in 1..k : i + MaxPerFetch > k}
    /\ \A w \in Triggers : pc[w] \in Briefed => items[w] \subseteq handed \cup wasted \cup leftOut
    /\ \A i \in canonical :
          i \in handed \cup wasted \cup leftOut
            \/ \E w \in Triggers : pc[w] \in {"stored", "brief"} /\ i \in items[w]
    /\ cursor \subseteq Accounted
    /\ \A p \in Threads : pc[p] = "fetched" => loaded[p] \subseteq Accounted

\* The parts of VanishInv that concern one run.
LEMMA VanishRun ==
    ASSUME TypeOK, Locked, VanishInv, MaxPerFetch <= MaxInput, NEW w \in Triggers, RunAction(w)
    PROVE  /\ pc'[w] \in {"idle", "ingest"} => items'[w] = {}
           /\ pc'[w] \in {"fetched", "extract"} =>
                 \E k \in Nat : items'[w] \subseteq {i \in 1..k : i + MaxPerFetch > k}
           /\ pc'[w] \in Briefed => items'[w] \subseteq handed' \cup wasted' \cup leftOut'
           /\ \A i \in canonical' :
                 i \in handed' \cup wasted' \cup leftOut' \/ (pc'[w] \in {"stored", "brief"} /\ i \in items'[w])
           /\ items[w] \subseteq handed' \cup wasted' \cup leftOut' \cup items'[w]
           /\ handed \subseteq handed' /\ wasted \subseteq wasted' /\ leftOut \subseteq leftOut'
           /\ cursor' \subseteq cursor \cup items'[w] \cup IF pc[w] = "fetched" THEN loaded[w] ELSE {}
           /\ pc'[w] = "fetched" => loaded'[w] \subseteq cursor
<1> USE PipelineAssumption
<1>1. w \in Threads /\ items[w] \subseteq Items
  BY DEF Threads, TypeOK
<1>2. \A v \in Triggers \ {w} : pc[v] = "idle"
  BY RunFrame DEF Locked
<1>3. \A i \in canonical : i \in handed \cup wasted \cup leftOut \/ (pc[w] \in {"stored", "brief"} /\ i \in items[w])
  BY <1>2 DEF VanishInv
<1>4. /\ pc[w] \in {"idle", "ingest"} => items[w] = {}
      /\ pc[w] \in {"fetched", "extract"} =>
            \E k \in Nat : items[w] \subseteq {i \in 1..k : i + MaxPerFetch > k}
      /\ pc[w] \in Briefed => items[w] \subseteq handed \cup wasted \cup leftOut
  BY DEF VanishInv
<1>5. CASE RunFetch(w)
  <2>1. PICK seen \in {cursor, {}} : items'[w] = Emitted(seen) /\ loaded'[w] = seen
    <3>1. PICK seen \in {cursor, {}} : /\ items' = [items EXCEPT ![w] = Emitted(seen)]
                                       /\ loaded' = [loaded EXCEPT ![w] = seen]
      BY <1>5 DEF RunFetch, Fetch
    <3>2. items \in [Threads -> SUBSET Items] /\ loaded \in [Threads -> SUBSET Items]
      BY DEF TypeOK
    <3>3. items'[w] = Emitted(seen) /\ loaded'[w] = seen
      BY <1>1, <3>1, <3>2
    <3>4. QED
      BY <3>3
  <2>2. /\ pc[w] = "ingest" /\ pc'[w] = "fetched"
        /\ UNCHANGED <<cursor, canonical, handed, wasted, leftOut>>
    BY <1>1, <1>5 DEF RunFetch, Fetch, Go, TypeOK, disk
  <2>3. \E k \in Nat : items'[w] \subseteq {i \in 1..k : i + MaxPerFetch > k}
    BY <2>1, EmittedIsListed DEF TypeOK
  <2>4. QED
    BY <2>1, <2>2, <2>3, <1>3, <1>4 DEF Briefed
<1>6. CASE RunSaveCursor(w)
  <2>1. /\ pc[w] = "fetched" /\ pc'[w] = "extract" /\ items' = items
        /\ cursor' \subseteq loaded[w] \cup items[w]
        /\ UNCHANGED <<canonical, handed, wasted, leftOut>>
    BY <1>1, <1>6 DEF RunSaveCursor, SaveCursor, Go, TypeOK, local
  <2>2. QED
    BY <2>1, <1>3, <1>4 DEF Briefed
<1>7. CASE Resolve(w)
  <2>1. /\ pc[w] = "extract" /\ pc'[w] = "resolved"
        /\ UNCHANGED <<cursor, canonical, handed, wasted>>
    BY <1>1, <1>7 DEF Resolve, Go, TypeOK, disk
  <2>2. PICK got \in SUBSET Read(items[w]) :
           /\ \E kept \in Resolutions(got) : items' = [items EXCEPT ![w] = kept]
           /\ leftOut' = leftOut \cup (Read(items[w]) \ got)
    BY <1>7 DEF Resolve
  <2>3. PICK kept \in Resolutions(got) : items'[w] = kept
    BY <1>1, <2>2 DEF TypeOK
  <2>4. PICK k \in Nat : items[w] \in SUBSET {i \in 1..k : i + MaxPerFetch > k}
    BY <1>4, <2>1
  <2>5. Read(items[w]) = items[w]
    BY <2>4, ReadsAll
  <2>6. got \subseteq kept \cup canonical
    BY <2>3 DEF Resolutions
  <2>7. items[w] \subseteq kept \cup canonical \cup leftOut' /\ leftOut \subseteq leftOut'
    BY <2>2, <2>5, <2>6
  <2>8. QED
    BY <2>1, <2>3, <2>7, <1>3 DEF Briefed
<1>8. CASE SaveCanonical(w) \/ SaveEvents(w)
  BY <1>1, <1>3, <1>4, <1>8 DEF SaveCanonical, SaveEvents, Go, TypeOK, local, Briefed
<1>9. CASE SaveBrief(w) \/ Summarise(w) \/ PublishOutputs(w) \/ SaveManifest(w)
  BY <1>1, <1>3, <1>4, <1>9 DEF SaveBrief, Summarise, PublishOutputs, SaveManifest, Go, TypeOK, local, disk,
        Briefed
<1>10. CASE RunFails(w)
  <2>1. BreakOff({w}) /\ {w} \in SUBSET Threads
    BY <1>1, <1>10 DEF RunFails
  <2>2. canonical' \subseteq canonical /\ cursor' \subseteq cursor
    BY <2>1, BreakOffKeeps
  <2>3. /\ pc'[w] = "report" /\ items'[w] = {} /\ wasted' = wasted \cup items[w]
        /\ UNCHANGED <<handed, leftOut>>
    BY <1>1, <1>10 DEF RunFails, Go, TypeOK
  <2>4. QED
    BY <1>3, <2>2, <2>3 DEF Briefed
<1>11. CASE SaveLatest(w)
  BY <1>1, <1>3, <1>4, <1>11 DEF SaveLatest, Release, Go, TypeOK, Briefed
<1>12. CASE ReportFails(w)
  <2>1. BreakOff({w}) /\ {w} \in SUBSET Threads
    BY <1>1, <1>12 DEF ReportFails
  <2>2. canonical' \subseteq canonical /\ cursor' \subseteq cursor
    BY <2>1, BreakOffKeeps
  <2>3. /\ pc[w] \in Briefed /\ pc'[w] = "idle" /\ items'[w] = {}
        /\ UNCHANGED <<handed, wasted, leftOut>>
    BY <1>1, <1>12 DEF ReportFails, Release, Go, TypeOK, Briefed
  <2>4. QED
    BY <1>3, <1>4, <2>2, <2>3 DEF Briefed
<1>13. QED
  BY <1>5, <1>6, <1>7, <1>8, <1>9, <1>10, <1>11, <1>12 DEF RunAction, RunStep

\* What is accounted for stays accounted for.
LEMMA AccountedGrows ==
    ASSUME TypeOK, Locked, VanishInv, MaxPerFetch <= MaxInput, [Next]_vars
    PROVE  Accounted \subseteq Accounted'
<1>1. CASE UNCHANGED vars \/ Publish
  BY <1>1 DEF Accounted, InHand, vars, Publish, local
<1>2. CASE Crash
  BY <1>2 DEF Accounted, InHand, Crash
<1>3. ASSUME NEW w \in Triggers, StartRun(w)
      PROVE  Accounted \subseteq Accounted'
  BY <1>3 DEF Accounted, InHand, StartRun
<1>4. ASSUME NEW w \in Triggers, RunAction(w)
      PROVE  Accounted \subseteq Accounted'
  <2>1. /\ items[w] \subseteq handed' \cup wasted' \cup leftOut' \cup items'[w]
        /\ handed \subseteq handed' /\ wasted \subseteq wasted' /\ leftOut \subseteq leftOut'
    BY <1>4, VanishRun
  <2>2. \A v \in Triggers \ {w} : items'[v] = items[v]
    BY <1>4, RunFrame
  <2>3. QED
    BY <2>1, <2>2 DEF Accounted, InHand
<1>5. ASSUME NEW g \in Ingesters, IngestAction(g)
      PROVE  Accounted \subseteq Accounted'
  BY <1>5, IngestFrame DEF Accounted, InHand
<1>6. QED
  BY <1>1, <1>2, <1>3, <1>4, <1>5, NextCases

\* Every step keeps the account of items.
LEMMA VanishNext ==
    ASSUME TypeOK, Locked, VanishInv, MaxPerFetch <= MaxInput, [Next]_vars
    PROVE  VanishInv'
<1> USE PipelineAssumption
<1>1. Accounted \subseteq Accounted'
  BY AccountedGrows
<1>2. CASE UNCHANGED vars \/ Publish
  <2>1. /\ pc' = pc /\ items' = items /\ loaded' = loaded /\ handed' = handed /\ wasted' = wasted
        /\ leftOut' = leftOut /\ canonical' = canonical /\ cursor' = cursor
    BY <1>2 DEF vars, Publish, local, disk
  <2>2. QED
    BY <1>1, <2>1 DEF VanishInv
<1>3. CASE Crash
  <2>1. /\ \A p \in Threads : pc'[p] = "idle" /\ items'[p] = {}
        /\ canonical' \subseteq canonical /\ cursor' \subseteq cursor
        /\ handed' = handed /\ leftOut' = leftOut
        /\ wasted \subseteq wasted' /\ \A w \in Triggers : items[w] \subseteq wasted'
    BY <1>3, BreakOffKeeps DEF Crash
  <2>2. \A w \in Triggers : w \in Threads
    BY DEF Threads
  <2>3. \A i \in canonical : i \in handed' \cup wasted' \cup leftOut'
    BY <2>1 DEF VanishInv
  <2>4. QED
    BY <1>1, <2>1, <2>2, <2>3 DEF VanishInv, Briefed
<1>4. ASSUME NEW w \in Triggers, StartRun(w)
      PROVE  VanishInv'
  <2>1. /\ \A p \in Threads : pc'[p] = pc[p] \/ (pc'[p] = "ingest" /\ p = w /\ pc[w] = "idle")
        /\ items' = items /\ loaded' = loaded /\ handed' = handed /\ wasted' = wasted
        /\ leftOut' = leftOut /\ canonical' = canonical /\ cursor' = cursor
    BY <1>4 DEF StartRun, Go, disk, Locked, TypeOK, Threads
  <2>2. \A v \in Triggers : v \in Threads
    BY DEF Threads
  <2>3. QED
    BY <1>1, <2>1, <2>2 DEF VanishInv, Briefed
<1>5. ASSUME NEW w \in Triggers, RunAction(w)
      PROVE  VanishInv'
  <2>1. \A v \in Triggers \ {w} : pc[v] = "idle" /\ pc'[v] = "idle" /\ items'[v] = items[v]
    BY <1>5, RunFrame DEF Locked
  <2>2. /\ w \in Threads
        /\ \A p \in Threads \ {w} : pc'[p] = pc[p] /\ loaded'[p] = loaded[p]
    BY <1>5, RunFrame DEF Threads, TypeOK
  <2>3. items'[w] \subseteq Accounted'
    BY DEF Accounted, InHand
  <2>4. cursor' \subseteq Accounted'
    <3>1. cursor' \subseteq cursor \cup items'[w] \cup IF pc[w] = "fetched" THEN loaded[w] ELSE {}
      BY <1>5, VanishRun
    <3>2. cursor \subseteq Accounted /\ (pc[w] = "fetched" => loaded[w] \subseteq Accounted)
      BY <2>2 DEF VanishInv
    <3>3. QED
      BY <1>1, <2>3, <3>1, <3>2
  <2>5. \A p \in Threads : pc'[p] = "fetched" => loaded'[p] \subseteq Accounted'
    <3>1. pc'[w] = "fetched" => loaded'[w] \subseteq cursor
      BY <1>5, VanishRun
    <3>2. cursor \subseteq Accounted /\ \A p \in Threads : pc[p] = "fetched" => loaded[p] \subseteq Accounted
      BY DEF VanishInv
    <3>3. QED
      BY <1>1, <2>2, <3>1, <3>2
  <2>6. \A v \in Triggers : pc'[v] \in {"idle", "ingest"} => items'[v] = {}
    <3>1. pc'[w] \in {"idle", "ingest"} => items'[w] = {}
      BY <1>5, VanishRun
    <3>2. \A v \in Triggers \ {w} : items'[v] = {}
      BY <2>1 DEF VanishInv
    <3>3. QED
      BY <3>1, <3>2
  <2>7. /\ \A v \in Triggers : pc'[v] \in {"fetched", "extract"} =>
              \E k \in Nat : items'[v] \subseteq {i \in 1..k : i + MaxPerFetch > k}
        /\ \A v \in Triggers : pc'[v] \in Briefed => items'[v] \subseteq handed' \cup wasted' \cup leftOut'
        /\ \A i \in canonical' :
              i \in handed' \cup wasted' \cup leftOut'
                \/ \E v \in Triggers : pc'[v] \in {"stored", "brief"} /\ i \in items'[v]
    <3>1. /\ pc'[w] \in {"fetched", "extract"} =>
                \E k \in Nat : items'[w] \subseteq {i \in 1..k : i + MaxPerFetch > k}
          /\ pc'[w] \in Briefed => items'[w] \subseteq handed' \cup wasted' \cup leftOut'
          /\ \A i \in canonical' :
                i \in handed' \cup wasted' \cup leftOut' \/ (pc'[w] \in {"stored", "brief"} /\ i \in items'[w])
      BY <1>5, VanishRun
    <3>2. QED
      BY <2>1, <3>1 DEF Briefed
  <2>8. QED
    BY <2>4, <2>5, <2>6, <2>7 DEF VanishInv
<1>6. ASSUME NEW g \in Ingesters, IngestAction(g)
      PROVE  VanishInv'
  <2>1. g \in Threads /\ g \notin Triggers
    BY DEF Threads
  <2>2. /\ \A v \in Triggers : pc'[v] = pc[v] /\ items'[v] = items[v]
        /\ \A p \in Threads \ {g} : pc'[p] = pc[p] /\ loaded'[p] = loaded[p]
        /\ canonical' = canonical /\ handed' = handed /\ leftOut' = leftOut /\ wasted \subseteq wasted'
    BY <1>6, <2>1, IngestFrame DEF Threads
  <2>3. cursor' \subseteq Accounted'
    <3>1. \/ cursor' \subseteq cursor
          \/ /\ pc[g] = "fetched" /\ wasted' = wasted \cup items[g]
             /\ cursor' \subseteq loaded[g] \cup items[g]
      <4>1. CASE IngestOnlyFetch(g)
        BY <4>1 DEF IngestOnlyFetch, disk
      <4>2. CASE IngestOnlySaveCursor(g)
        BY <4>2 DEF IngestOnlySaveCursor, SaveCursor
      <4>3. CASE IngestOnlyFails(g)
        BY <4>3 DEF IngestOnlyFails, BreakOff
      <4>4. QED
        BY <1>6, <4>1, <4>2, <4>3 DEF IngestAction
    <3>2. cursor \subseteq Accounted /\ (pc[g] = "fetched" => loaded[g] \subseteq Accounted)
      BY <2>1 DEF VanishInv
    <3>3. QED
      BY <1>1, <3>1, <3>2 DEF Accounted
  <2>4. pc'[g] = "fetched" => loaded'[g] \subseteq cursor
    BY <1>6, <2>1 DEF IngestAction, IngestOnlyFetch, IngestOnlySaveCursor, IngestOnlyFails, Fetch, Go, TypeOK
  <2>5. \A p \in Threads : pc'[p] = "fetched" => loaded'[p] \subseteq Accounted'
    BY <1>1, <2>2, <2>4 DEF VanishInv
  <2>6. QED
    BY <2>2, <2>3, <2>5 DEF VanishInv
<1>7. QED
  BY <1>2, <1>3, <1>4, <1>5, <1>6, NextCases

\* If the extractor may read as many items as a fetch can bring, no item vanishes
\* between the cursor and the brief: runs, ingest_only calls that write cursors
\* over each other, discarded duplicates, failures and restarts included.
THEOREM NoItemVanishes ==
    ASSUME MaxPerFetch <= MaxInput
    PROVE  Spec => []NothingVanishes
<1>1. Init => VanishInv
  BY DEF Init, VanishInv, Threads, Briefed, Accounted
<1>2. TypeOK /\ Locked /\ VanishInv /\ [Next]_vars => VanishInv'
  BY VanishNext
<1>3. VanishInv => NothingVanishes
  BY DEF VanishInv, NothingVanishes, Accounted, InHand
<1>4. QED
  BY <1>1, <1>2, <1>3, PipelineTypeCorrect, OneRunAtATime, PTL DEF Spec

-----------------------------------------------------------------------------
(* Run ids, manifests and the daily summary.                               *)

\* Ids are as old as the clock; a run in progress has the newest, and latest.json
\* an older one.
IdInv ==
    /\ \A id \in DOMAIN manifests \cup DOMAIN summary : id[1] <= clock
    /\ latest # NoRun => latest \in DOMAIN manifests
    /\ \A w \in Triggers : pc[w] # "idle" =>
          run[w] = <<clock, w>> /\ (latest = NoRun \/ latest[1] < clock)
    /\ \A w \in Triggers : pc[w] = "latest" => run[w] \in DOMAIN manifests

\* What the reports say of the run in progress and of the run latest.json names.
ReportInv ==
    /\ LatestAgrees
    /\ \A w \in Triggers : pc[w] # "idle" =>
          /\ status[w] = "completed" /\ run[w] \in DOMAIN summary => summary[run[w]] = "completed"
          /\ pc[w] = "latest" => manifests[run[w]] = status[w]

\* A step changes the reports of the run in progress only.
LEMMA ReportStep ==
    ASSUME TypeOK, NEW w \in Triggers, RunAction(w)
    PROVE  /\ run[w] \in RunIds /\ clock' = clock
           /\ \/ summary' = summary
              \/ /\ DOMAIN summary' = DOMAIN summary \cup {run[w]}
                 /\ run[w] \notin DOMAIN summary => summary'[run[w]] = status[w]
                 /\ \A id \in DOMAIN summary : summary'[id] = summary[id]
           /\ \/ manifests' = manifests
              \/ /\ DOMAIN manifests' \subseteq DOMAIN manifests \cup {run[w]}
                 /\ \A id \in DOMAIN manifests : id # run[w] =>
                       id \in DOMAIN manifests' /\ manifests'[id] = manifests[id]
           /\ \/ latest' = latest
              \/ latest' = run[w] /\ pc[w] = "latest" /\ pc'[w] = "idle" /\ manifests' = manifests
              \/ latest' = NoRun /\ pc[w] = "latest" /\ faults' = faults + 1
           /\ pc'[w] # "idle" => status'[w] = status[w] \/ status'[w] = "failed"
           /\ pc'[w] = "latest" =>
                 run[w] \in DOMAIN manifests' /\ manifests'[run[w]] = status'[w]
<1> USE PipelineAssumption
<1>1. w \in Threads /\ run[w] \in RunIds /\ status[w] \in Statuses
  BY RunFrame DEF TypeOK, Threads
<1>2. CASE RunFetch(w) \/ RunSaveCursor(w) \/ Resolve(w) \/ SaveCanonical(w) \/ SaveEvents(w)
  BY <1>1, <1>2 DEF RunFetch, Fetch, RunSaveCursor, Resolve, SaveCanonical, SaveEvents, Go, TypeOK, local, disk
<1>3. CASE SaveBrief(w) \/ PublishOutputs(w)
  BY <1>1, <1>3 DEF SaveBrief, PublishOutputs, Go, TypeOK, local, disk
<1>4. CASE Summarise(w)
  <2>1. /\ UNCHANGED <<manifests, latest, status, clock>>
        /\ pc'[w] # "latest"
    BY <1>1, <1>4 DEF Summarise, Go, TypeOK, local
  <2>2. CASE AppendSummary(run[w], status[w])
    <3>1. summary \in Reports
      BY DEF TypeOK
    <3>2. QED
      BY <1>1, <2>1, <2>2, <3>1, AppendKeeps
  <2>3. QED
    BY <1>1, <1>4, <2>1, <2>2 DEF Summarise
<1>5. CASE SaveManifest(w)
  <2>1. UNCHANGED <<summary, latest, status, clock>>
    BY <1>5 DEF SaveManifest, local
  <2>2. manifests \in Reports
    BY DEF TypeOK
  <2>3. QED
    BY <1>1, <1>5, <2>1, <2>2, ManifestKeeps
<1>6. CASE SaveLatest(w)
  BY <1>1, <1>6 DEF SaveLatest, Release, Go, TypeOK
<1>7. CASE RunFails(w)
  <2>1. BreakOff({w}) /\ {w} \in SUBSET Threads /\ faults' = faults + 1
    BY <1>1, <1>7 DEF RunFails
  <2>2. status'[w] = "failed" /\ pc'[w] = "report" /\ clock' = clock
    BY <1>1, <1>7 DEF RunFails, Go, TypeOK
  <2>3. QED
    BY <1>1, <2>1, <2>2, BreakOffKeeps
<1>8. CASE ReportFails(w)
  <2>1. BreakOff({w}) /\ {w} \in SUBSET Threads /\ faults' = faults + 1
    BY <1>1, <1>8 DEF ReportFails
  <2>2. pc'[w] = "idle" /\ clock' = clock
    BY <1>1, <1>8 DEF ReportFails, Release, Go, TypeOK
  <2>3. QED
    BY <1>1, <2>1, <2>2, BreakOffKeeps
<1>9. QED
  BY <1>2, <1>3, <1>4, <1>5, <1>6, <1>7, <1>8 DEF RunAction, RunStep

\* Every step keeps run ids in the order of the clock.
LEMMA IdNext ==
    ASSUME DistinctIds, TypeOK, Locked, IdInv, [Next]_vars
    PROVE  IdInv'
<1> USE PipelineAssumption
<1>1. CASE UNCHANGED vars \/ Publish
  BY <1>1 DEF IdInv, vars, Publish, disk, local
<1>2. CASE Crash
  <2>1. \A v \in Triggers : pc'[v] = "idle"
    BY <1>2 DEF Crash, Threads
  <2>2. BreakOff(Threads) /\ clock' = clock
    BY <1>2 DEF Crash
  <2>3. /\ DOMAIN manifests' \subseteq DOMAIN manifests /\ summary' = summary
        /\ \A id \in DOMAIN manifests :
              id \in DOMAIN manifests' \/ \E w \in Triggers : pc[w] = "manifest" /\ id = run[w]
        /\ latest' = latest \/ latest' = NoRun
    BY <2>2, BreakOffKeeps
  <2>4. latest' # NoRun => latest' \in DOMAIN manifests'
    <3>1. SUFFICES ASSUME latest # NoRun
                   PROVE  latest \in DOMAIN manifests'
      BY <2>3
    <3>2. \A w \in Triggers : pc[w] = "manifest" => latest # run[w]
      <4>1. \A w \in Triggers : pc[w] # "idle" => run[w][1] = clock /\ latest[1] < clock
        BY <3>1 DEF IdInv
      <4>2. clock \in Nat
        BY DEF TypeOK
      <4>3. QED
        BY <4>1, <4>2
    <3>3. QED
      BY <2>3, <3>1, <3>2 DEF IdInv
  <2>5. QED
    BY <2>1, <2>2, <2>3, <2>4 DEF IdInv
<1>3. ASSUME NEW w \in Triggers, StartRun(w)
      PROVE  IdInv'
  <2>1. clock' = clock + 1 /\ clock \in Nat
    BY <1>3 DEF StartRun, TypeOK
  <2>2. pc'[w] = "ingest" /\ \A v \in Triggers : pc'[v] # "idle" => v = w
    BY <1>3 DEF StartRun, Locked, Go, TypeOK, Threads
  <2>3. run'[w] = <<clock', w>> /\ UNCHANGED <<manifests, summary, latest>>
    BY <1>3 DEF StartRun, TypeOK, disk
  <2>4. \A id \in DOMAIN manifests \cup DOMAIN summary : id[1] <= clock' /\ id[1] < clock'
    <3>1. \A id \in DOMAIN manifests \cup DOMAIN summary : id \in RunIds /\ id[1] <= clock
      BY ReportElim DEF IdInv, TypeOK
    <3>2. QED
      BY <2>1, <3>1 DEF RunIds
  <2>5. latest # NoRun => latest \in DOMAIN manifests
    BY DEF IdInv
  <2>6. QED
    BY <2>2, <2>3, <2>4, <2>5 DEF IdInv
<1>4. ASSUME NEW w \in Triggers, RunAction(w)
      PROVE  IdInv'
  <2>1. /\ \A v \in Triggers \ {w} : pc'[v] = "idle"
        /\ pc[w] # "idle" /\ (pc'[w] # "idle" => run' = run)
    BY <1>4, RunFrame DEF Locked
  <2>2. run[w] = <<clock, w>> /\ (latest = NoRun \/ latest[1] < clock)
    BY <2>1 DEF IdInv
  <2>3. clock' = clock /\ clock \in Nat
    <3>1. clock' = clock
      BY <1>4, ReportStep
    <3>2. clock \in Nat
      BY DEF TypeOK
    <3>3. QED
      BY <3>1, <3>2
  <2>4. \A id \in DOMAIN manifests' \cup DOMAIN summary' : id[1] <= clock'
    <3>1. /\ DOMAIN manifests' \subseteq DOMAIN manifests \cup {run[w]}
          /\ DOMAIN summary' \subseteq DOMAIN summary \cup {run[w]}
      <4>1. summary' = summary \/ DOMAIN summary' = DOMAIN summary \cup {run[w]}
        BY <1>4, ReportStep
      <4>2. DOMAIN manifests' \subseteq DOMAIN manifests \cup {run[w]}
        BY <1>4, ReportStep
      <4>3. QED
        BY <4>1, <4>2
    <3>2. run[w][1] <= clock
      BY <2>2, <2>3
    <3>3. QED
      BY <2>3, <3>1, <3>2 DEF IdInv
  <2>5. latest' # NoRun => latest' \in DOMAIN manifests'
    <3>1. CASE latest' = latest
      <4>1. SUFFICES ASSUME latest # NoRun
                     PROVE  latest \in DOMAIN manifests'
        BY <3>1
      <4>2. latest \in DOMAIN manifests /\ latest # run[w]
        BY <2>2, <2>3, <4>1 DEF IdInv
      <4>3. manifests' = manifests \/ \A id \in DOMAIN manifests : id # run[w] => id \in DOMAIN manifests'
        BY <1>4, ReportStep
      <4>4. QED
        BY <4>2, <4>3
    <3>2. CASE latest' = run[w] /\ pc[w] = "latest" /\ manifests' = manifests
      BY <3>2 DEF IdInv
    <3>3. QED
      BY <1>4, <3>1, <3>2, ReportStep
  <2>6. pc'[w] # "idle" => latest' = latest \/ latest' = NoRun
    BY <1>4, ReportStep
  <2>7. pc'[w] = "latest" => run[w] \in DOMAIN manifests'
    BY <1>4, ReportStep
  <2>8. QED
    BY <2>1, <2>2, <2>3, <2>4, <2>5, <2>6, <2>7 DEF IdInv
<1>5. ASSUME NEW g \in Ingesters, IngestAction(g)
      PROVE  IdInv'
  BY <1>5, IngestFrame DEF IdInv
<1>6. QED
  BY <1>1, <1>2, <1>3, <1>4, <1>5, NextCases

\* Every step keeps the two reports of the run in progress consistent.
LEMMA ReportNext ==
    ASSUME DistinctIds, TypeOK, Locked, IdInv, ReportInv, [Next]_vars
    PROVE  ReportInv'
<1> USE PipelineAssumption
<1>1. CASE UNCHANGED vars \/ Publish
  BY <1>1 DEF ReportInv, LatestAgrees, vars, Publish, disk, local
<1>2. CASE Crash
  <2>1. \A v \in Triggers : pc'[v] = "idle"
    BY <1>2 DEF Crash, Threads
  <2>2. IdInv'
    BY IdNext
  <2>3. BreakOff(Threads)
    BY <1>2 DEF Crash
  <2>4. /\ latest' = latest \/ latest' = NoRun
        /\ summary' = summary /\ \A id \in DOMAIN manifests' : manifests'[id] = manifests[id]
    BY <2>3, BreakOffKeeps
  <2>5. QED
    BY <2>1, <2>2, <2>4 DEF ReportInv, LatestAgrees, IdInv
<1>3. ASSUME NEW w \in Triggers, StartRun(w)
      PROVE  ReportInv'
  <2>1. clock' = clock + 1 /\ clock \in Nat
    BY <1>3 DEF StartRun, TypeOK
  <2>2. pc'[w] = "ingest" /\ \A v \in Triggers : pc'[v] # "idle" => v = w
    BY <1>3 DEF StartRun, Locked, Go, TypeOK, Threads
  <2>3. run'[w] = <<clock', w>> /\ UNCHANGED <<manifests, summary, latest>>
    BY <1>3 DEF StartRun, TypeOK, disk
  <2>4. run'[w] \notin DOMAIN summary
    <3>1. run'[w][1] = clock + 1
      BY <2>1, <2>3
    <3>2. \A id \in DOMAIN summary : id[1] <= clock /\ id \in RunIds
      BY ReportElim DEF IdInv, TypeOK
    <3>3. \A id \in DOMAIN summary : id[1] # clock + 1
      BY <2>1, <3>2 DEF RunIds
    <3>4. QED
      BY <3>1, <3>3
  <2>5. QED
    BY <2>2, <2>3, <2>4 DEF ReportInv, LatestAgrees
<1>4. ASSUME NEW w \in Triggers, RunAction(w)
      PROVE  ReportInv'
  <2>1. /\ \A v \in Triggers \ {w} : pc'[v] = "idle"
        /\ pc[w] # "idle" /\ (pc'[w] # "idle" => run' = run)
    BY <1>4, RunFrame DEF Locked
  <2>2. latest # NoRun => latest # run[w]
    <3>1. clock \in Nat
      BY DEF TypeOK
    <3>2. run[w] = <<clock, w>> /\ (latest = NoRun \/ latest[1] < clock)
      BY <2>1 DEF IdInv
    <3>3. QED
      BY <3>1, <3>2
  <2>3. /\ status[w] = "completed" /\ run[w] \in DOMAIN summary => summary[run[w]] = "completed"
        /\ pc[w] = "latest" => manifests[run[w]] = status[w]
    BY <2>1 DEF ReportInv
  <2>4. \/ summary' = summary
        \/ /\ DOMAIN summary' = DOMAIN summary \cup {run[w]}
           /\ run[w] \notin DOMAIN summary => summary'[run[w]] = status[w]
           /\ \A id \in DOMAIN summary : summary'[id] = summary[id]
    BY <1>4, ReportStep
  <2>5. /\ status'[w] = status[w] \/ status'[w] = "failed" \/ pc'[w] = "idle"
        /\ pc'[w] = "latest" => manifests'[run[w]] = status'[w]
    BY <1>4, ReportStep
  <2>6. pc'[w] # "idle" /\ status'[w] = "completed" /\ run[w] \in DOMAIN summary' =>
           summary'[run[w]] = "completed"
    BY <2>3, <2>4, <2>5
  <2>7. LatestAgrees'
    <3>1. CASE latest' = latest
      <4>1. SUFFICES ASSUME latest # NoRun
                     PROVE  LatestAgrees'
        BY <3>1 DEF LatestAgrees
      <4>2. /\ latest \in DOMAIN summary' => latest \in DOMAIN summary /\ summary'[latest] = summary[latest]
        BY <2>2, <2>4, <4>1
      <4>3. \/ manifests' = manifests
            \/ \A id \in DOMAIN manifests : id # run[w] =>
                  id \in DOMAIN manifests' /\ manifests'[id] = manifests[id]
        BY <1>4, ReportStep
      <4>4. latest \in DOMAIN manifests
        BY <4>1 DEF IdInv
      <4>5. latest \in DOMAIN manifests' /\ manifests'[latest] = manifests[latest]
        BY <2>2, <4>1, <4>3, <4>4
      <4>6. QED
        BY <3>1, <4>1, <4>2, <4>5 DEF LatestAgrees, ReportInv
    <3>2. CASE latest' = run[w] /\ pc[w] = "latest" /\ manifests' = manifests
      <4>1. run[w] \in DOMAIN manifests
        BY <3>2 DEF IdInv
      <4>2. QED
        BY <2>3, <2>4, <3>2, <4>1 DEF LatestAgrees
    <3>3. CASE latest' = NoRun
      BY <3>3 DEF LatestAgrees
    <3>4. QED
      BY <1>4, <3>1, <3>2, <3>3, ReportStep
  <2>8. QED
    BY <2>1, <2>5, <2>6, <2>7 DEF ReportInv
<1>5. ASSUME NEW g \in Ingesters, IngestAction(g)
      PROVE  ReportInv'
  BY <1>5, IngestFrame DEF ReportInv, LatestAgrees
<1>6. QED
  BY <1>1, <1>2, <1>3, <1>4, <1>5, NextCases

\* A step that moves latest.json moves it to an id that is newer than the one it
\* names and no older than any manifest's, or breaks off its write.
LEMMA LatestStep ==
    ASSUME DistinctIds, TypeOK, Locked, IdInv, [Next]_vars, latest' # latest
    PROVE  \/ latest' = NoRun /\ Hit("latest")
           \/ /\ latest # NoRun => latest'[1] > latest[1]
              /\ \A id \in DOMAIN manifests : latest'[1] >= id[1]
<1> USE PipelineAssumption
<1>1. CASE Crash
  <2>1. BreakOff(Threads) /\ faults' = faults + 1
    BY <1>1 DEF Crash
  <2>2. PICK p \in Threads : latest' = NoRun /\ pc[p] = "latest"
    BY <2>1, BreakOffKeeps
  <2>3. p \in Triggers
    BY <2>2 DEF TypeOK, Threads
  <2>4. QED
    BY <2>1, <2>2, <2>3 DEF Hit
<1>2. ASSUME NEW w \in Triggers, RunAction(w)
      PROVE  \/ latest' = NoRun /\ Hit("latest")
             \/ /\ latest # NoRun => latest'[1] > latest[1]
                /\ \A id \in DOMAIN manifests : latest'[1] >= id[1]
  <2>1. CASE latest' = NoRun /\ pc[w] = "latest" /\ faults' = faults + 1
    BY <2>1 DEF Hit
  <2>2. CASE latest' = run[w]
    <3>1. pc[w] # "idle" /\ clock \in Nat
      BY <1>2, RunFrame DEF TypeOK
    <3>2. run[w] = <<clock, w>> /\ (latest = NoRun \/ latest[1] < clock)
      BY <3>1 DEF IdInv
    <3>3. \A id \in DOMAIN manifests : id[1] <= clock /\ id[1] \in Nat
      BY ReportElim DEF IdInv, TypeOK, RunIds
    <3>4. latest # NoRun => latest[1] < clock /\ latest[1] \in Nat
      BY <3>2 DEF TypeOK, RunIds
    <3>5. QED
      BY <2>2, <3>1, <3>2, <3>3, <3>4
  <2>3. QED
    BY <1>2, <2>1, <2>2, ReportStep
<1>3. ASSUME NEW w \in Triggers, StartRun(w)
      PROVE  latest' = latest
  BY <1>3 DEF StartRun, disk
<1>4. ASSUME NEW g \in Ingesters, IngestAction(g)
      PROVE  latest' = latest
  BY <1>4, IngestFrame
<1>5. CASE UNCHANGED vars \/ Publish
  BY <1>5 DEF vars, disk, Publish
<1>6. QED
  BY <1>1, <1>2, <1>3, <1>4, <1>5, NextCases

\* Run ids are always in the order of the clock.
LEMMA IdAlways ==
    ASSUME DistinctIds
    PROVE  Spec => []IdInv
<1>1. Init => IdInv
  BY EmptyReportType DEF Init, IdInv, Threads
<1>2. TypeOK /\ Locked /\ IdInv /\ [Next]_vars => IdInv'
  BY IdNext
<1>3. QED
  BY <1>1, <1>2, PipelineTypeCorrect, OneRunAtATime, PTL DEF Spec

\* If run ids are distinct, the manifest and the summary row of the run that
\* latest.json names do not contradict each other, wherever that run failed.
THEOREM LatestRunAgrees ==
    ASSUME DistinctIds
    PROVE  Spec => []LatestAgrees
<1>1. Init => ReportInv
  BY DEF Init, ReportInv, LatestAgrees, Threads
<1>2. TypeOK /\ Locked /\ IdInv /\ ReportInv /\ [Next]_vars => ReportInv'
  BY ReportNext
<1>3. ReportInv => LatestAgrees
  BY DEF ReportInv
<1>4. QED
  BY <1>1, <1>2, <1>3, PipelineTypeCorrect, OneRunAtATime, IdAlways, PTL DEF Spec

\* If run ids are distinct, latest.json moves to later runs only, unless the write
\* of it breaks off.
THEOREM LatestRunIsNewer ==
    ASSUME DistinctIds
    PROVE  Spec => LatestMovesForward
<1>1. TypeOK /\ Locked /\ IdInv /\ [Next]_vars =>
        [latest' # latest =>
            \/ latest' = NoRun /\ Hit("latest")
            \/ /\ latest # NoRun => latest'[1] > latest[1]
               /\ \A id \in DOMAIN manifests : latest'[1] >= id[1]]_vars
  BY LatestStep
<1>2. QED
  BY <1>1, PipelineTypeCorrect, OneRunAtATime, IdAlways, PTL DEF Spec, LatestMovesForward
=============================================================================
