---------------------------- MODULE VersionProofs ----------------------------
(***************************************************************************)
(* Proofs about the versions of the strategy in ControlPlane: what a call  *)
(* makes of the state it has loaded, the numbers it issues, the deployed   *)
(* version and the configuration file.                                     *)
(***************************************************************************)
EXTENDS ControlProofs

-----------------------------------------------------------------------------
(* Steps.                                                                  *)

\* The stages at which a call holds a version.
Versioning == {"computed", "saved", "rows", "write"}

\* A call that holds a version stays as it is.
Steady(v) ==
    pc'[v] \in Versioning =>
        /\ pc'[v] = pc[v] /\ job'[v] = job[v]
        /\ \A f \in {"state", "history"} : f \in behind'[v] <=> f \in behind[v]

\* Only a call that loads or saves a version, and a restart, change what is known of
\* versions.
LEMMA VersionSteps ==
    ASSUME CoreOK, GhostsOK, [Next]_vars
    PROVE  \/ /\ UNCHANGED <<state, history>> /\ undone \subseteq undone'
              /\ \A v \in Workers : Steady(v)
           \/ \E w \in Workers : LoadState(w) \/ SaveState(w) \/ LoadHistory(w) \/ SaveHistory(w)
           \/ Restart
<1> DEFINE Quiet == /\ UNCHANGED <<state, history>> /\ undone \subseteq undone'
                    /\ \A v \in Workers : Steady(v)
<1>0. pc \in [Workers -> Stages] /\ job \in [Workers -> Jobs] /\ behind \in [Workers -> SUBSET Files]
  BY DEF CoreOK, CallsOK, GhostsOK
<1>1. ASSUME NEW w \in Workers, NEW stage \in Stages \ Versioning, Go(w, stage),
             \A v \in Workers \ {w} : /\ job'[v] = job[v]
                                      /\ \A f \in {"state", "history"} : f \in behind'[v] <=> f \in behind[v]
      PROVE  \A v \in Workers : Steady(v)
  BY <1>0, <1>1 DEF Go, Steady
<1>2. ASSUME NEW w \in Workers, Asks(w)
      PROVE  Quiet
  <2>1. PICK stage \in {"built", "diagnose", "form"} : \E call : Begin(w, call, stage)
    <3>1. CASE AskToGenerate(w)
      BY <3>1 DEF AskToGenerate, Build
    <3>2. CASE AskForAdvice(w) \/ AskToPatch(w) \/ OpenForm(w)
      BY <3>2 DEF AskForAdvice, AskToPatch, OpenForm
    <3>3. CASE AskToDeploy(w)
      BY <3>3 DEF AskToDeploy, Build
    <3>4. QED
      BY <1>2, <3>1, <3>2, <3>3 DEF Asks
  <2>2. \A v \in Workers \ {w} : job'[v] = job[v] /\ behind'[v] = behind[v]
    BY <1>0, <2>1 DEF Begin
  <2>3. Go(w, stage)
    BY <2>1 DEF Begin
  <2>4. UNCHANGED <<state, history, undone>>
    BY <1>2 DEF Asks, AskToGenerate, AskForAdvice, AskToPatch, AskToDeploy, Build, OpenForm, CallFrame, disk
  <2>5. QED
    BY <1>1, <2>2, <2>3, <2>4 DEF Stages, Versioning
<1>3. ASSUME NEW w \in Workers,
             AdviceTaken(w) \/ LinksResolved(w) \/ RefuseToOverwrite(w)
             \/ WriteElsewhere(w) \/ Reload(w) \/ CallFails(w)
      PROVE  Quiet
  <2>1. PICK stage \in {"idle", "built", "set_config"} : Go(w, stage)
    BY <1>3 DEF AdviceTaken, LinksResolved, RefuseToOverwrite, WriteElsewhere, Reload, CallFails, EndCall
  <2>2. \A v \in Workers \ {w} : job'[v] = job[v]
    BY <1>0, <1>3 DEF AdviceTaken, LinksResolved, RefuseToOverwrite, WriteElsewhere, Reload, CallFails, EndCall
  <2>3. \A v \in Workers \ {w} : behind'[v] = behind[v]
    BY <1>0, <1>3 DEF AdviceTaken, LinksResolved, RefuseToOverwrite, WriteElsewhere, Reload, CallFails, Reads, ghosts
  <2>4. UNCHANGED <<state, history, undone>>
    BY <1>3 DEF AdviceTaken, LinksResolved, RefuseToOverwrite, WriteElsewhere, Reload, CallFails, disk, ghosts
  <2>5. QED
    BY <1>1, <2>1, <2>2, <2>3, <2>4 DEF Stages, Versioning
<1>4. ASSUME NEW w \in Workers, WriteFile(w) \/ Panel(w)
      PROVE  Quiet
  <2>1. PICK stage \in {"set_config", "sections", "reload"} : Go(w, stage)
    BY <1>4 DEF WriteFile, Panel, SaveSections, SaveRoot
  <2>2. UNCHANGED <<state, history, job>> /\ Writes(w, "file")
    BY <1>4 DEF WriteFile, Panel, SaveSections, SaveRoot
  <2>3. \A v \in Workers \ {w} : \A f \in {"state", "history"} : f \in behind'[v] <=> f \in behind[v]
    BY <2>2 DEF Writes
  <2>4. undone \subseteq undone'
    BY <2>2 DEF Writes
  <2>5. QED
    BY <1>1, <2>1, <2>2, <2>3, <2>4 DEF Stages, Versioning
<1>5. ASSUME NEW w \in Workers, SetsPart(w)
      PROVE  Quiet
  <2>1. PICK stage \in {"set_ingestion", "set_engines", "idle"} : Go(w, stage)
    BY <1>5 DEF SetsPart, SetConfig, SetIngestion, SetEngines, EndCall
  <2>2. \A v \in Workers \ {w} : job'[v] = job[v]
    BY <1>0, <1>5 DEF SetsPart, SetConfig, SetIngestion, SetEngines, EndCall
  <2>3. \E part \in Parts : \E stamp : SetPart(w, part, stamp)
    BY <1>5 DEF SetsPart, SetConfig, SetIngestion, SetEngines, Parts
  <2>4. \A v \in Workers \ {w} : \A f \in {"state", "history"} : f \in behind'[v] <=> f \in behind[v]
    BY <2>3 DEF SetPart
  <2>5. undone \subseteq undone'
    BY <2>3 DEF SetPart
  <2>6. UNCHANGED <<state, history>>
    BY <1>5 DEF SetsPart, SetConfig, SetIngestion, SetEngines, disk
  <2>7. QED
    BY <1>1, <2>1, <2>2, <2>4, <2>5, <2>6 DEF Stages, Versioning
<1>6. CASE RunSteps \/ TimePasses \/ UNCHANGED vars
  <2>1. UNCHANGED <<state, history, undone, behind, pc, job>>
    BY <1>6 DEF RunSteps, RunBegin, RunRefreshed, RunRefreshFails, RunIngest, RunAnalyse, TimePasses, vars,
                disk, ghosts, callVars
  <2>2. QED
    BY <2>1 DEF Steady
<1>7. QED
  BY <1>2, <1>3, <1>4, <1>5, <1>6, ControlSteps DEF Works

-----------------------------------------------------------------------------
(* What a call makes of the state it has loaded.                           *)

Numbered(s) == 1 <= s.version /\ s.deployed <= s.version

RowOf(s) == [version |-> s.version, config |-> s.gen.config]

\* A call that is about to save a state.
Computed(call) ==
    /\ Numbered(call.state)
    /\ call.rows = <<>> \/ call.rows = <<RowOf(call.state)>>
    /\ Deploys(call) => call.state.deployed = call.state.version /\ call.config = call.state.gen.config

\* A configuration that a patch makes of a strategy.
LocalTo(p, config, gen) ==
    /\ Effective(gen.config) \ Effective(config) \subseteq p.out
    /\ Effective(config) \ Effective(gen.config) \subseteq p.in \cup gen.listed

\* What it makes of the state it has loaded.
Derived(call, seen) ==
    /\ call.rows = <<>> => /\ seen # NoState /\ call.state.version = seen.version
                           /\ call.state.gen.config = seen.gen.config
    /\ (call.rows # <<>> /\ seen # NoState) => call.state.version > seen.version
    /\ ~Deploys(call) => call.state.deployed = DeployedOf(seen)
    /\ call.kind \in {"patch", "amend"} =>
          \E p \in PatchWith : LocalTo(p, call.state.gen.config, seen.gen)

\* A call that has saved a deployed state knows what to write.
Settled(call) == state.deployed = state.version /\ call.config = state.gen.config

\* What a call knows.
CallDerived(w) ==
    /\ pc[w] = "computed" => Computed(job[w])
    /\ (pc[w] = "computed" /\ "state" \notin behind[w]) => Derived(job[w], state)
    /\ pc[w] = "saved" => Len(job[w].rows) = 1
    /\ pc[w] = "rows" => Len(job[w].rows) > 0
    /\ pc[w] = "write" => Deploys(job[w])
    /\ (pc[w] \in {"saved", "rows", "write"} /\ Deploys(job[w]) /\ "state" \notin behind[w]) =>
          Settled(job[w])

\* The calls know what they have made of a state that is still the one on disk.
DerivedInv ==
    /\ state # NoState => Numbered(state)
    /\ \A w \in Workers : CallDerived(w)

\* A call computes a state, a row and a configuration from what it has loaded.
LEMMA LoadDerives ==
    ASSUME NEW call \in Jobs, NEW updates, Fits("built", call, updates),
           NEW seen \in States \cup {NoState}, seen # NoState => Sound(seen.gen) /\ Numbered(seen),
           Accepted(call, seen),
           NEW next, next.kind = call.kind, next.state = NewState(call, seen),
           next.config = (IF Deploys(call) THEN Target(call, NewState(call, seen)) ELSE Initial),
           next.rows = (IF MakesVersion(call, seen) THEN <<RowOf(NewState(call, seen))>> ELSE <<>>)
    PROVE  Computed(next) /\ Derived(next, seen)
<1>1. /\ NewState(call, seen) \in States
      /\ MakesVersion(call, seen) \/ seen # NoState
  BY NewStateTypes
<1>2. seen # NoState => /\ seen \in States /\ seen.version \in Nat /\ seen.deployed \in Nat
                        /\ seen.gen \in SoundGens
  BY DEF States, SoundGens
<1>3. /\ NewState(call, seen).version =
            (IF MakesVersion(call, seen) THEN NextVersion(seen) ELSE seen.version)
      /\ NewState(call, seen).deployed =
            (IF Deploys(call) THEN NewState(call, seen).version ELSE DeployedOf(seen))
      /\ NewState(call, seen).gen = NewGen(call, seen)
  BY DEF NewState
<1>4. Numbered(NewState(call, seen))
  BY <1>1, <1>2, <1>3 DEF Numbered, NextVersion, DeployedOf
<1>5. Deploys(next) = Deploys(call)
  BY DEF Deploys
<1>6. Deploys(call) => Target(call, NewState(call, seen)) = NewState(call, seen).gen.config
  BY <1>3 DEF Target, NewGen, SameConfig
<1>7. Computed(next)
  BY <1>3, <1>4, <1>5, <1>6 DEF Computed
<1>8. next.rows = <<>> <=> ~MakesVersion(call, seen)
  OBVIOUS
<1>9. ~MakesVersion(call, seen) => NewGen(call, seen).config = seen.gen.config
  <2>1. CASE call.kind \in {"draft", "replace"}
    BY <2>1 DEF MakesVersion, NewGen, SameConfig
  <2>2. CASE call.kind \in {"patch", "amend", "current"}
    BY <2>2 DEF NewGen
  <2>3. QED
    BY <2>1, <2>2 DEF Fits
<1>10. (MakesVersion(call, seen) /\ seen # NoState) => NewState(call, seen).version > seen.version
  BY <1>2, <1>3 DEF NextVersion
<1>11. ASSUME call.kind \in {"patch", "amend"}
       PROVE  \E p \in PatchWith : LocalTo(p, NewState(call, seen).gen.config, seen.gen)
  <2>1. call.patch \in PatchWith /\ call.patch \in Patches /\ seen # NoState
    BY <1>11, ControlAssumption DEF Fits, Accepted
  <2>2. NewGen(call, seen) \in {ApplyPatch(seen.gen, call.patch), seen.gen}
    BY <1>11 DEF NewGen
  <2>3. LocalTo(call.patch, NewGen(call, seen).config, seen.gen)
    BY <1>2, <2>1, <2>2, PatchTypes DEF LocalTo
  <2>4. QED
    BY <1>3, <2>1, <2>3
<1>12. next.rows = <<>> => /\ seen # NoState /\ next.state.version = seen.version
                           /\ next.state.gen.config = seen.gen.config
  BY <1>1, <1>3, <1>8, <1>9
<1>13. (next.rows # <<>> /\ seen # NoState) => next.state.version > seen.version
  BY <1>8, <1>10
<1>14. ~Deploys(next) => next.state.deployed = DeployedOf(seen)
  BY <1>3, <1>5
<1>15. QED
  BY <1>7, <1>11, <1>12, <1>13, <1>14 DEF Derived

\* The calls other than one stay.
Stay(w) == \A v \in Workers \ {w} : pc'[v] = pc[v] /\ job'[v] = job[v]

\* A step of one call leaves the others where they are.
LEMMA OthersStay ==
    ASSUME CoreOK, NEW w \in Workers, LoadState(w) \/ SaveState(w) \/ LoadHistory(w) \/ SaveHistory(w)
    PROVE  Stay(w)
<1> USE DEF CoreOK, CallsOK, Stay
<1>1. CASE LoadState(w)
  BY <1>1 DEF LoadState, Go, EndCall
<1>2. CASE SaveState(w)
  BY <1>2 DEF SaveState, Go, EndCall
<1>3. CASE LoadHistory(w)
  BY <1>3 DEF LoadHistory, Go
<1>4. CASE SaveHistory(w)
  BY <1>4 DEF SaveHistory, Go, EndCall
<1>5. QED
  BY <1>1, <1>2, <1>3, <1>4

\* Who loads the state makes something of it or ends.
LEMMA LoadStep ==
    ASSUME CoreOK, GhostsOK, DerivedInv, NEW w \in Workers, LoadState(w)
    PROVE  /\ pc'[w] \in {"computed", "idle"}
           /\ pc'[w] = "computed" => Computed(job'[w])
           /\ (pc'[w] = "computed" /\ "state" \notin behind'[w]) => Derived(job'[w], state)
           /\ \A v \in Workers \ {w} : behind'[v] = behind[v]
           /\ UNCHANGED <<state, history, undone, file, astray>>
<1>0. /\ pc \in [Workers -> Stages] /\ job \in [Workers -> Jobs] /\ behind \in [Workers -> SUBSET Files]
      /\ Fits("built", job[w], DOMAIN applied)
  BY DEF CoreOK, CallsOK, GhostsOK, JobOK, LoadState
<1>1. PICK torn \in BOOLEAN :
         LET seen == IF torn THEN NoState ELSE state
             next == NewState(job[w], seen)
         IN  /\ behind' = [behind EXCEPT ![w] = IF torn THEN @ \cup {"state"} ELSE @ \ {"state"}]
             /\ IF Accepted(job[w], seen)
                THEN /\ Go(w, "computed")
                     /\ job' = [job EXCEPT ![w] =
                          [NoJob EXCEPT !.kind = job[w].kind, !.state = next,
                                        !.config = IF Deploys(job[w]) THEN Target(job[w], next) ELSE Initial,
                                        !.rows = IF MakesVersion(job[w], seen)
                                                 THEN <<[version |-> next.version, config |-> next.gen.config]>>
                                                 ELSE <<>>]]
                ELSE EndCall(w)
  BY DEF LoadState
<1> DEFINE seen == IF torn THEN NoState ELSE state
<1>2. /\ seen \in States \cup {NoState} /\ (seen # NoState => Sound(seen.gen) /\ Numbered(seen))
      /\ "state" \notin behind'[w] => seen = state
  BY <1>0, <1>1 DEF CoreOK, DiskOK, DerivedInv
<1>3. CASE ~Accepted(job[w], seen)
  <2>1. pc' = [pc EXCEPT ![w] = "idle"]
    BY <1>1, <1>3 DEF EndCall, Go
  <2>2. pc'[w] = "idle"
    BY <1>0, <2>1
  <2>3. QED
    BY <1>0, <1>1, <2>2 DEF LoadState, disk
<1>4. CASE Accepted(job[w], seen)
  <2> DEFINE next == NewState(job[w], seen)
  <2>1. /\ pc' = [pc EXCEPT ![w] = "computed"]
        /\ job' = [job EXCEPT ![w] =
                          [NoJob EXCEPT !.kind = job[w].kind, !.state = next,
                                        !.config = IF Deploys(job[w]) THEN Target(job[w], next) ELSE Initial,
                                        !.rows = IF MakesVersion(job[w], seen)
                                                 THEN <<RowOf(next)>> ELSE <<>>]]
    BY <1>1, <1>4 DEF Go, RowOf
  <2> HIDE DEF next, seen
  <2>2. /\ job'[w].kind = job[w].kind /\ job'[w].state = next
        /\ job'[w].config = (IF Deploys(job[w]) THEN Target(job[w], next) ELSE Initial)
        /\ job'[w].rows = (IF MakesVersion(job[w], seen) THEN <<RowOf(next)>> ELSE <<>>)
    BY <1>0, <2>1, NoJobTypes DEF Jobs
  <2>3. Computed(job'[w]) /\ Derived(job'[w], seen)
    BY <1>0, <1>2, <1>4, <2>2, LoadDerives DEF next
  <2>4. pc'[w] = "computed"
    BY <1>0, <2>1
  <2>5. QED
    BY <1>0, <1>1, <1>2, <2>3, <2>4 DEF LoadState, disk
<1>5. QED
  BY <1>3, <1>4

\* The other calls keep what they know while the state stays, and need not know
\* anything once it is replaced.
LEMMA OthersDerived ==
    ASSUME NEW v \in Workers, CallDerived(v), pc'[v] = pc[v], job'[v] = job[v],
           "state" \in behind'[v] \/ (state' = state /\ ("state" \notin behind'[v] => "state" \notin behind[v]))
    PROVE  CallDerived(v)'
BY DEF CallDerived, Settled

\* Loads and saves keep what the calls know.
LEMMA DerivedNext == CoreOK /\ GhostsOK /\ DerivedInv /\ [Next]_vars => DerivedInv'
<1> SUFFICES ASSUME CoreOK, GhostsOK, DerivedInv, [Next]_vars
             PROVE  DerivedInv'
  OBVIOUS
<1>0. /\ pc \in [Workers -> Stages] /\ job \in [Workers -> Jobs] /\ behind \in [Workers -> SUBSET Files]
      /\ state # NoState => Numbered(state)
      /\ \A w \in Workers : CallDerived(w)
  BY DEF CoreOK, CallsOK, GhostsOK, DerivedInv
<1>1. SUFFICES (state' # NoState => Numbered(state')) /\ \A w \in Workers : CallDerived(w)'
  BY DEF DerivedInv
<1>2. CASE UNCHANGED <<state, history>> /\ \A v \in Workers : Steady(v)
  <2>1. ASSUME NEW v \in Workers
        PROVE  CallDerived(v)'
    <3>1. CASE pc'[v] \notin Versioning
      BY <3>1 DEF CallDerived, Versioning
    <3>2. CASE pc'[v] \in Versioning
      BY <1>0, <1>2, <3>2, OthersDerived DEF Steady
    <3>3. QED
      BY <3>1, <3>2
  <2>2. QED
    BY <1>0, <1>2, <2>1
<1>3. ASSUME NEW w \in Workers, LoadState(w)
      PROVE  (state' # NoState => Numbered(state')) /\ \A v \in Workers : CallDerived(v)'
  <2>1. CallDerived(w)'
    BY <1>3, LoadStep DEF CallDerived
  <2>2. \A v \in Workers \ {w} : CallDerived(v)'
    BY <1>0, <1>3, LoadStep, OthersStay, OthersDerived DEF Stay
  <2>3. QED
    BY <1>0, <1>3, <2>1, <2>2, LoadStep
<1>4. ASSUME NEW w \in Workers, SaveState(w)
      PROVE  (state' # NoState => Numbered(state')) /\ \A v \in Workers : CallDerived(v)'
  <2>1. pc[w] = "computed" /\ state' = job[w].state /\ Computed(job[w])
    BY <1>0, <1>4 DEF SaveState, CallDerived
  <2>2. \A v \in Workers \ {w} : "state" \in behind'[v]
    BY <1>0, <1>4 DEF SaveState, Writes
  <2>3. \A v \in Workers \ {w} : CallDerived(v)'
    BY <1>0, <1>4, <2>2, OthersStay, OthersDerived DEF Stay
  <2>4. CASE AfterState(job[w]) = "idle"
    <3>1. pc'[w] = "idle"
      BY <1>0, <1>4, <2>4 DEF SaveState, EndCall, Go
    <3>2. QED
      BY <2>1, <2>3, <3>1 DEF CallDerived, Computed
  <2>5. CASE AfterState(job[w]) # "idle"
    <3>1. pc'[w] = AfterState(job[w]) /\ job'[w] = job[w]
      BY <1>0, <1>4, <2>5 DEF SaveState, Go
    <3>2. AfterState(job[w]) = "saved" => Len(job[w].rows) = 1
      <4>1. AfterState(job[w]) = "saved" => job[w].rows # <<>>
        BY DEF AfterState
      <4>2. Len(<<RowOf(job[w].state)>>) = 1
        OBVIOUS
      <4>3. QED
        BY <2>1, <4>1, <4>2 DEF Computed
    <3>3. AfterState(job[w]) \in {"saved", "write"} /\ (AfterState(job[w]) = "write" => Deploys(job[w]))
      BY <2>5 DEF AfterState
    <3>4. Deploys(job[w]) => Settled(job[w])'
      BY <2>1, <3>1 DEF Computed, Settled
    <3>5. CallDerived(w)'
      BY <3>1, <3>2, <3>3, <3>4 DEF CallDerived, Settled
    <3>6. QED
      BY <2>1, <2>3, <3>5 DEF Computed
  <2>6. QED
    BY <2>4, <2>5
<1>5. ASSUME NEW w \in Workers, LoadHistory(w)
      PROVE  (state' # NoState => Numbered(state')) /\ \A v \in Workers : CallDerived(v)'
  <2>1. /\ pc[w] = "saved" /\ pc'[w] = "rows" /\ state' = state
        /\ \A v \in Workers : "state" \notin behind'[v] => "state" \notin behind[v]
    BY <1>0, <1>5 DEF LoadHistory, Go, disk
  <2>2. PICK rows \in {history, <<>>} :
             job' = [job EXCEPT ![w] = [job[w] EXCEPT !.rows = rows \o job[w].rows]]
    BY <1>0, <1>5 DEF LoadHistory
  <2>3. job'[w] = [job[w] EXCEPT !.rows = rows \o job[w].rows]
    BY <1>0, <2>2
  <2>4. /\ job'[w].rows = rows \o job[w].rows
        /\ job'[w].kind = job[w].kind /\ job'[w].config = job[w].config
    BY <1>0, <2>3 DEF Jobs
  <2>5. Len(job[w].rows) = 1 /\ job[w].rows \in Seq(Rows)
    BY <1>0, <2>1 DEF CallDerived, Jobs
  <2>6. rows \in Seq(Rows)
    <3>1. history \in Seq(Rows) /\ <<>> \in Seq(Rows)
      BY DEF CoreOK, DiskOK
    <3>2. QED
      BY <2>2, <3>1
  <2>7. Len(job'[w].rows) > 0
    <3> DEFINE mine == job[w].rows
    <3>0. mine \in Seq(Rows)
      BY <2>5
    <3> HIDE DEF mine
    <3>1. Len(rows \o mine) = Len(rows) + Len(mine)
      BY <2>6, <3>0, ConcatProperties
    <3>3. Len(rows) \in Nat
      BY <2>6, LenProperties
    <3>2. QED
      BY <2>4, <2>5, <3>1, <3>3 DEF mine
  <2>8. Deploys(job'[w]) = Deploys(job[w])
    BY <2>4 DEF Deploys
  <2>9. CallDerived(w)'
    BY <1>0, <2>1, <2>4, <2>7, <2>8 DEF CallDerived, Settled
  <2>10. \A v \in Workers \ {w} : CallDerived(v)'
    BY <1>0, <1>5, <2>1, OthersStay, OthersDerived DEF Stay
  <2>11. QED
    BY <1>0, <2>1, <2>9, <2>10
<1>6. ASSUME NEW w \in Workers, SaveHistory(w)
      PROVE  (state' # NoState => Numbered(state')) /\ \A v \in Workers : CallDerived(v)'
  <2>1. /\ pc[w] = "rows" /\ state' = state
        /\ \A v \in Workers : "state" \notin behind'[v] => "state" \notin behind[v]
    BY <1>0, <1>6 DEF SaveHistory, Writes
  <2>2. \A v \in Workers \ {w} : CallDerived(v)'
    BY <1>0, <1>6, <2>1, OthersStay, OthersDerived DEF Stay
  <2>3. CASE Deploys(job[w])
    <3>1. pc'[w] = "write" /\ job'[w] = [job[w] EXCEPT !.rows = <<>>]
      BY <1>0, <1>6, <2>3 DEF SaveHistory, Go
    <3>2. job'[w].kind = job[w].kind /\ job'[w].config = job[w].config
      BY <1>0, <3>1 DEF Jobs
    <3>3. Deploys(job'[w])
      BY <2>3, <3>2 DEF Deploys
    <3>4. CallDerived(w)'
      BY <1>0, <2>1, <2>3, <3>1, <3>2, <3>3 DEF CallDerived, Settled
    <3>5. QED
      BY <1>0, <2>1, <2>2, <3>4
  <2>4. CASE ~Deploys(job[w])
    <3>1. pc'[w] = "idle"
      BY <1>0, <1>6, <2>4 DEF SaveHistory, EndCall, Go
    <3>2. QED
      BY <1>0, <2>1, <2>2, <3>1 DEF CallDerived
  <2>5. QED
    BY <2>3, <2>4
<1>7. CASE Restart
  BY <1>0, <1>7 DEF Restart, CrashFile, CallDerived
<1>8. QED
  BY <1>2, <1>3, <1>4, <1>5, <1>6, <1>7, VersionSteps

\* Initially nobody has a version.
LEMMA DerivedAlways == Spec => [](CoreOK /\ GhostsOK /\ DerivedInv)
<1>1. Init => DerivedInv
  BY DEF Init, DerivedInv, CallDerived
<1>2. QED
  BY <1>1, DerivedNext, CoreAlways, GhostsAlways, PTL DEF Spec

-----------------------------------------------------------------------------
(* Patches.                                                                *)

\* A patch takes only its own token away from what the pipeline looks for and
\* brings only its own and those of the strategy's lists (service.py:620), for
\* every strategy, patch and interleaving.
THEOREM PatchesAreLocal == Spec => PatchIsLocal
<1>1. ASSUME CoreOK /\ GhostsOK /\ DerivedInv, NEW w \in Workers, SaveState(w),
             job[w].kind \in {"patch", "amend"}, "state" \notin behind[w]
      PROVE  \E p \in PatchWith : LocalTo(p, state'.gen.config, state.gen)
  BY <1>1 DEF DerivedInv, CallDerived, Derived, SaveState
<1>2. CoreOK /\ GhostsOK /\ DerivedInv =>
         \A w \in Workers :
            (SaveState(w) /\ job[w].kind \in {"patch", "amend"} /\ "state" \notin behind[w]) =>
                LET old == Effective(state.gen.config)
                    new == Effective(state'.gen.config)
                IN  \E p \in PatchWith :
                        /\ old \ new \subseteq p.out
                        /\ new \ old \subseteq p.in \cup state.gen.listed
  BY <1>1 DEF LocalTo
<1>3. QED
  BY <1>2, DerivedAlways, PTL DEF PatchIsLocal

-----------------------------------------------------------------------------
(* Versions.                                                               *)

\* The row a call is about to append, or has appended to what it loaded.
Pending(call) == call.rows[Len(call.rows)]
Holds(w) == pc[w] \in {"saved", "rows"}

\* Nobody has saved the state or the history on top of another save.
Orderly == undone \cap {"state", "history"} = {}

\* A row that agrees with a state.
Agreeing(row, s) ==
    /\ 1 <= row.version /\ row.version <= s.version
    /\ row.version = s.version => row.config = s.gen.config

RowsOf(w, s, rows) ==
    /\ Agreeing(Pending(job[w]), s)
    /\ \A i \in DOMAIN rows : Pending(job[w]).version # rows[i].version

\* Every version is in one row, of the history or of a call that will append it;
\* who has loaded the history of this moment will append its row to it.
VersionInv ==
    Orderly =>
        /\ state = NoState => history = <<>> /\ \A w \in Workers : ~Holds(w)
        /\ \A i \in DOMAIN history : Agreeing(history[i], state)
        /\ \A i, j \in DOMAIN history : i # j => history[i].version # history[j].version
        /\ \A w \in Workers : Holds(w) => RowsOf(w, state, history)
        /\ \A v, w \in Workers : (Holds(v) /\ Holds(w) /\ v # w) =>
              Pending(job[v]).version # Pending(job[w]).version
        /\ \A w \in Workers : (pc[w] = "rows" /\ "history" \notin behind[w]) =>
              job[w].rows = Append(history, Pending(job[w]))

\* The versions stay as they are if the files and the rows that calls hold do.
LEMMA VersionsStay ==
    ASSUME VersionInv, UNCHANGED <<state, history>>, undone \subseteq undone',
           \A w \in Workers : Holds(w)' => Holds(w) /\ Pending(job'[w]) = Pending(job[w]),
           \A w \in Workers : (pc'[w] = "rows" /\ "history" \notin behind'[w]) =>
              job'[w].rows = Append(history, Pending(job'[w]))
    PROVE  VersionInv'
<1> SUFFICES ASSUME Orderly'
             PROVE  VersionInv'
  BY DEF VersionInv
<1>1. Orderly
  BY DEF Orderly
<1>2. \A w \in Workers : Holds(w)' => RowsOf(w, state, history)'
  BY <1>1 DEF VersionInv, RowsOf
<1>3. \A v, w \in Workers : (Holds(v)' /\ Holds(w)' /\ v # w) =>
              Pending(job'[v]).version # Pending(job'[w]).version
  BY <1>1 DEF VersionInv
<1>4. QED
  BY <1>1, <1>2, <1>3 DEF VersionInv

\* A saved state names a new version and a row for it, or the version there was.
LEMMA VersionsSaved ==
    ASSUME CoreOK, GhostsOK, DerivedInv, VersionInv, NEW w \in Workers, SaveState(w)
    PROVE  VersionInv'
<1> SUFFICES ASSUME Orderly'
             PROVE  VersionInv'
  BY DEF VersionInv
<1>0. pc \in [Workers -> Stages] /\ job \in [Workers -> Jobs] /\ behind \in [Workers -> SUBSET Files]
  BY DEF CoreOK, CallsOK, GhostsOK
<1>1. "state" \notin behind[w] /\ Orderly
  BY DEF SaveState, Writes, Orderly
<1>2. /\ pc[w] = "computed" /\ state' = job[w].state /\ history' = history
      /\ Computed(job[w]) /\ Derived(job[w], state)
  BY <1>1 DEF SaveState, DerivedInv, CallDerived
<1>3. state' \in States /\ state' # NoState
  BY <1>0, <1>2, NoStateAssumption DEF CoreOK, CallsOK, JobOK, Fits
<1>4. Stay(w) /\ \A v \in Workers \ {w} : "history" \in behind'[v] <=> "history" \in behind[v]
  BY <1>0, OthersStay DEF SaveState, Writes
<1>5. state # NoState => /\ state.version \in Nat /\ state'.version \in Nat
                         /\ state'.version >= state.version
                         /\ state'.version = state.version => state'.gen.config = state.gen.config
  BY <1>2, <1>3 DEF Derived, States, CoreOK, DiskOK
<1>6. \A row \in Rows : (state # NoState /\ Agreeing(row, state)) => Agreeing(row, state')
  BY <1>5 DEF Agreeing, Rows
<1>7. \A i \in DOMAIN history : history[i] \in Rows
  BY ElementOfSeq, LenProperties DEF CoreOK, DiskOK
<1>8. \A v \in Workers : Holds(v) => Pending(job[v]) \in Rows
  <2> SUFFICES ASSUME NEW v \in Workers, Holds(v)
               PROVE  Pending(job[v]) \in Rows
    OBVIOUS
  <2>1. job[v].rows \in Seq(Rows) /\ Len(job[v].rows) > 0
    <3>1. job[v].rows \in Seq(Rows)
      BY <1>0 DEF Jobs
    <3>2. CASE pc[v] = "saved"
      <4>1. \E row \in Rows : job[v].rows = <<row>>
        BY <3>1, <3>2 DEF DerivedInv, CallDerived
      <4>2. QED
        BY <3>1, <4>1
    <3>3. CASE pc[v] = "rows"
      BY <3>1, <3>3 DEF DerivedInv, CallDerived
    <3>4. QED
      BY <3>1, <3>2, <3>3 DEF Holds
  <2>2. QED
    BY <2>1, ElementOfSeq, LenProperties DEF Pending
<1>9. \A i \in DOMAIN history : Agreeing(history[i], state')
  BY <1>1, <1>6, <1>7 DEF VersionInv
<1>10. \A v \in Workers \ {w} : Holds(v)' => Holds(v) /\ Pending(job'[v]) = Pending(job[v])
  BY <1>4 DEF Holds, Stay
<1>11. \A v \in Workers \ {w} : Holds(v)' => RowsOf(v, state, history)'
  BY <1>1, <1>2, <1>6, <1>8, <1>10 DEF VersionInv, RowsOf
<1>12. \A v \in Workers \ {w} : (pc'[v] = "rows" /\ "history" \notin behind'[v]) =>
              job'[v].rows = Append(history', Pending(job'[v]))
  BY <1>1, <1>2, <1>4 DEF VersionInv, Stay
<1>13. CASE job[w].rows = <<>>
  <2>1. ~Holds(w)' /\ pc'[w] # "rows"
    BY <1>0, <1>13 DEF SaveState, AfterState, EndCall, Go, Holds
  <2>2. QED
    BY <1>1, <1>2, <1>3, <1>9, <1>10, <1>11, <1>12, <2>1 DEF VersionInv
<1>14. CASE job[w].rows # <<>>
  <2>1. pc'[w] = "saved" /\ job'[w] = job[w]
    BY <1>0, <1>14 DEF SaveState, AfterState, Go
  <2>2. Pending(job'[w]) = RowOf(state')
    <3>1. job'[w].rows = <<RowOf(state')>>
      BY <1>2, <1>14, <2>1 DEF Computed
    <3>2. Len(<<RowOf(state')>>) = 1 /\ <<RowOf(state')>>[1] = RowOf(state')
      OBVIOUS
    <3>3. QED
      BY <3>1, <3>2 DEF Pending
  <2>3. RowOf(state').version = state'.version /\ Agreeing(RowOf(state'), state')
    BY <1>2, <1>3 DEF RowOf, Agreeing, Computed, Numbered, States
  <2>4. ASSUME NEW row \in Rows, state # NoState, Agreeing(row, state)
        PROVE  row.version # state'.version
    <3>1. state'.version > state.version /\ row.version <= state.version
      BY <1>2, <1>14, <2>4 DEF Derived, Agreeing
    <3>2. QED
      BY <1>5, <2>4, <3>1 DEF Rows
  <2>5. \A i \in DOMAIN history : history[i].version # state'.version
    BY <1>1, <1>7, <2>4 DEF VersionInv
  <2>6. RowsOf(w, state, history)'
    BY <1>2, <2>2, <2>3, <2>5 DEF RowsOf
  <2>7. \A v \in Workers \ {w} : Holds(v)' => Pending(job'[v]).version # Pending(job'[w]).version
    BY <1>1, <1>8, <1>10, <2>2, <2>3, <2>4 DEF VersionInv, RowsOf
  <2>8. \A u, v \in Workers : (Holds(u)' /\ Holds(v)' /\ u # v) =>
              Pending(job'[u]).version # Pending(job'[v]).version
    <3>1. \A u, v \in Workers \ {w} : (Holds(u)' /\ Holds(v)' /\ u # v) =>
              Pending(job'[u]).version # Pending(job'[v]).version
      BY <1>1, <1>10 DEF VersionInv
    <3>2. QED
      BY <2>7, <3>1
  <2>9. \A i, j \in DOMAIN history' : i # j => history'[i].version # history'[j].version
    BY <1>1, <1>2 DEF VersionInv
  <2>10. QED
    BY <1>2, <1>3, <1>9, <1>11, <1>12, <2>1, <2>6, <2>8, <2>9 DEF VersionInv
<1>15. QED
  BY <1>13, <1>14

\* A row is appended to the rows there are.
LEMMA VersionsAppended ==
    ASSUME CoreOK, GhostsOK, DerivedInv, VersionInv, NEW w \in Workers, SaveHistory(w)
    PROVE  /\ Orderly' => Orderly /\ history' = Append(history, Pending(job[w]))
           /\ VersionInv'
<1>0. pc \in [Workers -> Stages] /\ job \in [Workers -> Jobs] /\ behind \in [Workers -> SUBSET Files]
  BY DEF CoreOK, CallsOK, GhostsOK
<1> SUFFICES ASSUME Orderly'
             PROVE  Orderly /\ history' = Append(history, Pending(job[w])) /\ VersionInv'
  BY DEF VersionInv
<1>1. "history" \notin behind[w] /\ Orderly
  BY DEF SaveHistory, Writes, Orderly
<1>2. pc[w] = "rows" /\ state' = state /\ history' = job[w].rows
  BY DEF SaveHistory
<1>3. history' = Append(history, Pending(job[w]))
  BY <1>1, <1>2 DEF VersionInv
<1>4. ~Holds(w)' /\ pc'[w] # "rows"
  BY <1>0 DEF SaveHistory, EndCall, Go, Holds
<1>5. Stay(w) /\ \A v \in Workers \ {w} : "history" \in behind'[v]
  BY <1>0, OthersStay DEF SaveHistory, Writes
<1>6. \A v \in Workers : Holds(v)' => v # w /\ Holds(v) /\ Pending(job'[v]) = Pending(job[v])
  BY <1>4, <1>5 DEF Stay, Holds
<1>7. Holds(w) /\ RowsOf(w, state, history)
  BY <1>1, <1>2 DEF VersionInv, Holds
<1>8. /\ DOMAIN history = 1..Len(history) /\ DOMAIN history' = 1..(Len(history) + 1) /\ Len(history) \in Nat
      /\ \A i \in DOMAIN history : history'[i] = history[i]
      /\ history'[Len(history) + 1] = Pending(job[w])
  <2>1. history \in Seq(Rows)
    BY DEF CoreOK, DiskOK
  <2>2. QED
    BY <1>3, <2>1, AppendProperties, LenProperties
<1>9. \A i \in DOMAIN history' : i \in DOMAIN history \/ i = Len(history) + 1
  BY <1>8
<1>10. \A i \in DOMAIN history' : Agreeing(history'[i], state')
  BY <1>1, <1>2, <1>7, <1>8, <1>9 DEF VersionInv, RowsOf
<1>11. \A i, j \in DOMAIN history' : i # j => history'[i].version # history'[j].version
  <2>1. \A i, j \in DOMAIN history : i # j => history'[i].version # history'[j].version
    BY <1>1, <1>8 DEF VersionInv
  <2>2. \A i \in DOMAIN history : history'[i].version # history'[Len(history) + 1].version
    BY <1>7, <1>8 DEF RowsOf
  <2>3. QED
    BY <1>9, <2>1, <2>2
<1>12. \A v \in Workers : Holds(v)' => RowsOf(v, state, history)'
  <2> SUFFICES ASSUME NEW v \in Workers, Holds(v)'
               PROVE  RowsOf(v, state, history)'
    OBVIOUS
  <2>1. v # w /\ Holds(v) /\ Pending(job'[v]) = Pending(job[v]) /\ RowsOf(v, state, history)
    BY <1>1, <1>6 DEF VersionInv
  <2>2. Pending(job[v]).version # Pending(job[w]).version
    BY <1>1, <1>7, <2>1 DEF VersionInv
  <2>3. \A i \in DOMAIN history' : Pending(job[v]).version # history'[i].version
    BY <1>8, <1>9, <2>1, <2>2 DEF RowsOf
  <2>4. QED
    BY <1>2, <2>1, <2>3 DEF RowsOf
<1>13. \A u, v \in Workers : (Holds(u)' /\ Holds(v)' /\ u # v) =>
              Pending(job'[u]).version # Pending(job'[v]).version
  BY <1>1, <1>6 DEF VersionInv
<1>14. state # NoState
  BY <1>1, <1>7 DEF VersionInv
<1>15. VersionInv'
  BY <1>2, <1>4, <1>5, <1>10, <1>11, <1>12, <1>13, <1>14 DEF VersionInv
<1>16. QED
  BY <1>1, <1>3, <1>15

\* A call that loads the history keeps its row.
LEMMA LoadedRows ==
    ASSUME CoreOK, DerivedInv, NEW w \in Workers, LoadHistory(w), GhostsOK
    PROVE  /\ pc[w] = "saved" /\ pc'[w] = "rows" /\ Pending(job'[w]) = Pending(job[w])
           /\ "history" \notin behind'[w] => job'[w].rows = Append(history, Pending(job[w]))
           /\ \A v \in Workers \ {w} : behind'[v] = behind[v]
           /\ UNCHANGED <<state, history, undone, file, astray>>
<1>0. pc \in [Workers -> Stages] /\ job \in [Workers -> Jobs] /\ behind \in [Workers -> SUBSET Files]
  BY DEF CoreOK, CallsOK, GhostsOK
<1>1. PICK torn \in BOOLEAN :
         /\ job' = [job EXCEPT ![w] = [job[w] EXCEPT !.rows = (IF torn THEN <<>> ELSE history) \o job[w].rows]]
         /\ behind' = [behind EXCEPT ![w] = IF torn THEN @ \cup {"history"} ELSE @ \ {"history"}]
  BY <1>0 DEF LoadHistory
<1> DEFINE rows == IF torn THEN <<>> ELSE history
           mine == job[w].rows
<1>2. rows \in Seq(Rows)
  <2>1. history \in Seq(Rows) /\ <<>> \in Seq(Rows)
    BY DEF CoreOK, DiskOK
  <2>2. QED
    BY <2>1
<1>3. pc[w] = "saved" /\ mine \in Seq(Rows) /\ Len(mine) = 1
  BY <1>0 DEF LoadHistory, DerivedInv, CallDerived, Jobs
<1>4. job'[w].rows = rows \o mine
  <2>1. job'[w] = [job[w] EXCEPT !.rows = rows \o mine]
    BY <1>0, <1>1
  <2> HIDE DEF rows, mine
  <2>2. QED
    BY <1>0, <2>1 DEF Jobs
<1>5. "history" \notin behind'[w] => rows = history
  BY <1>0, <1>1
<1> HIDE DEF rows
<1>6. Pending(job[w]) = mine[1] /\ Pending(job[w]) \in Rows /\ mine = <<Pending(job[w])>>
  BY <1>3 DEF Pending
<1> HIDE DEF mine
<1>7. rows \o <<Pending(job[w])>> = Append(rows, Pending(job[w]))
  BY <1>2, <1>6, AppendIsConcat
<1>8. job'[w].rows = Append(rows, Pending(job[w]))
  BY <1>4, <1>6, <1>7
<1>9. Pending(job'[w]) = Pending(job[w])
  <2>1. /\ Len(Append(rows, Pending(job[w]))) = Len(rows) + 1
        /\ Append(rows, Pending(job[w]))[Len(rows) + 1] = Pending(job[w])
    BY <1>2, <1>6, AppendProperties
  <2>2. QED
    BY <1>8, <2>1 DEF Pending
<1>10. pc'[w] = "rows"
  BY <1>0 DEF LoadHistory, Go
<1>11. UNCHANGED <<state, history, undone, file, astray>>
  BY DEF LoadHistory, disk
<1>12. QED
  BY <1>0, <1>1, <1>3, <1>5, <1>8, <1>9, <1>10, <1>11

\* Every step keeps the versions apart, or is one that undoes another's.
LEMMA VersionNext == CoreOK /\ GhostsOK /\ DerivedInv /\ VersionInv /\ [Next]_vars => VersionInv'
<1> SUFFICES ASSUME CoreOK, GhostsOK, DerivedInv, VersionInv, [Next]_vars
             PROVE  VersionInv'
  OBVIOUS
<1>0. pc \in [Workers -> Stages] /\ job \in [Workers -> Jobs] /\ behind \in [Workers -> SUBSET Files]
  BY DEF CoreOK, CallsOK, GhostsOK
<1>1. Orderly => \A w \in Workers : (pc[w] = "rows" /\ "history" \notin behind[w]) =>
              job[w].rows = Append(history, Pending(job[w]))
  BY DEF VersionInv
<1>2. CASE /\ UNCHANGED <<state, history>> /\ undone \subseteq undone'
           /\ \A v \in Workers : Steady(v)
  <2>1. \A w \in Workers : Holds(w)' => Holds(w) /\ Pending(job'[w]) = Pending(job[w])
    BY <1>2 DEF Holds, Steady, Versioning
  <2>2. \A w \in Workers : (pc'[w] = "rows" /\ "history" \notin behind'[w]) =>
              job'[w] = job[w] /\ pc[w] = "rows" /\ "history" \notin behind[w]
    BY <1>2 DEF Steady, Versioning
  <2>3. CASE Orderly
    BY <1>1, <1>2, <2>1, <2>2, <2>3, VersionsStay
  <2>4. CASE ~Orderly
    BY <1>2, <2>4 DEF VersionInv, Orderly
  <2>5. QED
    BY <2>3, <2>4
<1>3. ASSUME NEW w \in Workers, LoadState(w)
      PROVE  VersionInv'
  <2>1. /\ UNCHANGED <<state, history, undone>> /\ Stay(w) /\ pc'[w] \in {"computed", "idle"}
        /\ \A v \in Workers \ {w} : behind'[v] = behind[v]
    BY <1>3, LoadStep, OthersStay
  <2>2. \A v \in Workers : Holds(v)' => Holds(v) /\ Pending(job'[v]) = Pending(job[v])
    BY <2>1 DEF Holds, Stay
  <2>3. \A v \in Workers : (pc'[v] = "rows" /\ "history" \notin behind'[v]) =>
              job'[v] = job[v] /\ pc[v] = "rows" /\ "history" \notin behind[v]
    BY <2>1 DEF Stay
  <2>4. CASE Orderly
    BY <1>1, <2>1, <2>2, <2>3, <2>4, VersionsStay
  <2>5. CASE ~Orderly
    BY <2>1, <2>5 DEF VersionInv, Orderly
  <2>6. QED
    BY <2>4, <2>5
<1>4. ASSUME NEW w \in Workers, LoadHistory(w)
      PROVE  VersionInv'
  <2>1. /\ UNCHANGED <<state, history, undone>> /\ Stay(w)
        /\ pc[w] = "saved" /\ Pending(job'[w]) = Pending(job[w])
        /\ "history" \notin behind'[w] => job'[w].rows = Append(history, Pending(job'[w]))
        /\ \A v \in Workers \ {w} : behind'[v] = behind[v]
    BY <1>4, LoadedRows, OthersStay
  <2>2. \A v \in Workers : Holds(v)' => Holds(v) /\ Pending(job'[v]) = Pending(job[v])
    BY <2>1 DEF Holds, Stay
  <2>3. \A v \in Workers \ {w} : (pc'[v] = "rows" /\ "history" \notin behind'[v]) =>
              job'[v] = job[v] /\ pc[v] = "rows" /\ "history" \notin behind[v]
    BY <2>1 DEF Stay
  <2>4. CASE Orderly
    BY <1>1, <2>1, <2>2, <2>3, <2>4, VersionsStay
  <2>5. CASE ~Orderly
    BY <2>1, <2>5 DEF VersionInv, Orderly
  <2>6. QED
    BY <2>4, <2>5
<1>5. CASE Restart
  <2>1. \A w \in Workers : ~Holds(w)' /\ pc'[w] # "rows"
    BY <1>5 DEF Restart, Holds
  <2>2. undone \subseteq undone' /\ (Orderly' => UNCHANGED <<state, history>>)
    BY <1>5 DEF Restart, CrashFile, Orderly
  <2>3. CASE Orderly'
    BY <2>1, <2>2, <2>3, VersionsStay
  <2>4. CASE ~Orderly'
    BY <2>4 DEF VersionInv
  <2>5. QED
    BY <2>3, <2>4
<1>6. QED
  BY <1>2, <1>3, <1>4, <1>5, VersionsSaved, VersionsAppended, VersionSteps

\* The versions are apart always.
LEMMA VersionAlways == Spec => [](CoreOK /\ GhostsOK /\ DerivedInv /\ VersionInv)
<1>1. Init => VersionInv
  BY DEF Init, VersionInv, Holds
<1>2. QED
  BY <1>1, VersionNext, DerivedAlways, PTL DEF Spec

\* A version number names one configuration, unless a call saved on top of
\* another one's save or a write was torn.
THEOREM VersionsAreDistinct == Spec => []VersionsNameOneStrategy
<1>1. VersionInv => VersionsNameOneStrategy
  BY DEF VersionInv, VersionsNameOneStrategy, Orderly, Agreeing
<1>2. QED
  BY <1>1, VersionAlways, PTL

-----------------------------------------------------------------------------
(* The deployed version and the configuration file.                        *)

\* The steps leave config.yaml alone, but for deployments and the panel.
LEMMA FileFrame ==
    ASSUME [Next]_vars
    PROVE  \/ UNCHANGED <<file, astray>>
           \/ \E w \in Workers : WriteFile(w) \/ Panel(w) \/ SaveState(w)
<1> USE DEF CallFrame
<1>1. ASSUME NEW w \in Workers, Asks(w)
      PROVE  UNCHANGED <<file, astray>>
  BY <1>1 DEF Asks, AskToGenerate, AskForAdvice, AskToPatch, AskToDeploy, Build, OpenForm, disk
<1>2. ASSUME NEW w \in Workers, Works(w)
      PROVE  UNCHANGED <<file, astray>>
  BY <1>2 DEF Works, AdviceTaken, LinksResolved, LoadState, LoadHistory, RefuseToOverwrite, WriteElsewhere, Reload,
              CallFails, disk, ghosts
<1>3. ASSUME NEW w \in Workers, SetsPart(w) \/ SaveHistory(w)
      PROVE  UNCHANGED <<file, astray>>
  BY <1>3 DEF SetsPart, SetConfig, SetIngestion, SetEngines, SaveHistory, disk
<1>4. CASE RunSteps \/ Restart \/ TimePasses \/ UNCHANGED vars
  BY <1>4 DEF RunSteps, RunBegin, RunRefreshed, RunRefreshFails, RunIngest, RunAnalyse, Restart, TimePasses,
              vars, disk, ghosts
<1>5. QED
  BY <1>1, <1>2, <1>3, <1>4, ControlSteps

\* A row of the deployed version names what is in the file.
Rightly(row, s, f) == row.version = s.deployed => f = row.config

\* The file holds the deployed version, whether its row is in the history yet
\* or held by a call.
DeployInv ==
    (~astray /\ Orderly /\ state # NoState) =>
        /\ state.deployed = state.version => file = state.gen.config
        /\ \A i \in DOMAIN history : Rightly(history[i], state, file)
        /\ \A w \in Workers : Holds(w) => Rightly(Pending(job[w]), state, file)

\* The deployed version stays on disk if the files and the rows that calls hold do.
LEMMA DeployedStays ==
    ASSUME DeployInv, UNCHANGED <<state, history, file, astray>>, undone \subseteq undone',
           \A w \in Workers : Holds(w)' => Holds(w) /\ Pending(job'[w]) = Pending(job[w])
    PROVE  DeployInv'
<1>1. Orderly' => Orderly
  BY DEF Orderly
<1>2. \A row : Rightly(row, state', file') <=> Rightly(row, state, file)
  BY DEF Rightly
<1>3. QED
  BY <1>1, <1>2 DEF DeployInv

\* A version that is saved without being deployed leaves the deployed one.
LEMMA DeployedSaved ==
    ASSUME CoreOK, GhostsOK, DerivedInv, VersionInv, DeployInv, NEW w \in Workers, SaveState(w)
    PROVE  DeployInv'
<1> SUFFICES ASSUME ~astray', Orderly'
             PROVE  DeployInv'
  BY DEF DeployInv
<1>0. pc \in [Workers -> Stages] /\ job \in [Workers -> Jobs] /\ behind \in [Workers -> SUBSET Files]
  BY DEF CoreOK, CallsOK, GhostsOK
<1>1. "state" \notin behind[w] /\ Orderly /\ ~astray /\ ~Deploys(job[w])
  BY DEF SaveState, Writes, Orderly
<1>2. /\ pc[w] = "computed" /\ state' = job[w].state /\ history' = history /\ file' = file
      /\ Computed(job[w]) /\ Derived(job[w], state)
  BY <1>1 DEF SaveState, DerivedInv, CallDerived
<1>3. state' \in States /\ state' # NoState /\ 1 <= state'.version
  BY <1>0, <1>2, NoStateAssumption DEF CoreOK, CallsOK, JobOK, Fits, Computed, Numbered
<1>4. Stay(w)
  BY OthersStay
<1>5. \A v \in Workers \ {w} : Holds(v)' => Holds(v) /\ Pending(job'[v]) = Pending(job[v])
  BY <1>4 DEF Holds, Stay
<1>6. state'.deployed = DeployedOf(state)
  BY <1>1, <1>2 DEF Derived
<1>7. state # NoState => \A row : Rightly(row, state', file') <=> Rightly(row, state, file)
  BY <1>2, <1>6 DEF Rightly, DeployedOf
<1>8. Holds(w)' => job[w].rows = <<RowOf(state')>> /\ job'[w] = job[w]
  <2>1. CASE job[w].rows = <<>>
    BY <1>0, <1>1, <2>1 DEF SaveState, AfterState, EndCall, Go, Holds
  <2>2. CASE job[w].rows # <<>>
    BY <1>0, <1>2, <2>2 DEF SaveState, AfterState, Go, Computed
  <2>3. QED
    BY <2>1, <2>2
<1>9. job[w].rows # <<>> => state'.deployed # state'.version
  <2> SUFFICES ASSUME job[w].rows # <<>>
               PROVE  state'.deployed # state'.version
    OBVIOUS
  <2>1. CASE state = NoState
    BY <1>3, <1>6, <2>1 DEF DeployedOf, States
  <2>2. CASE state # NoState
    <3>1. state'.deployed = state.deployed /\ state'.version > state.version
      BY <1>2, <1>6, <2>2 DEF DeployedOf, Derived
    <3>2. state.deployed <= state.version /\ state \in States
      BY <2>2 DEF DerivedInv, Numbered, CoreOK, DiskOK
    <3>3. QED
      BY <1>3, <3>1, <3>2 DEF States
  <2>3. QED
    BY <2>1, <2>2
<1>10. Holds(w)' => Rightly(Pending(job'[w]), state', file')
  <2> SUFFICES ASSUME Holds(w)'
               PROVE  Rightly(Pending(job'[w]), state', file')
    OBVIOUS
  <2>1. Len(<<RowOf(state')>>) = 1 /\ <<RowOf(state')>>[1] = RowOf(state') /\ <<RowOf(state')>> # <<>>
    OBVIOUS
  <2>2. Pending(job'[w]) = RowOf(state') /\ job[w].rows # <<>>
    BY <1>8, <2>1 DEF Pending
  <2>3. RowOf(state').version # state'.deployed
    BY <1>9, <2>2 DEF RowOf
  <2>4. QED
    BY <2>2, <2>3 DEF Rightly
<1>11. CASE state = NoState
  <2>1. history' = <<>> /\ \A v \in Workers \ {w} : ~Holds(v)'
    BY <1>1, <1>2, <1>5, <1>11 DEF VersionInv
  <2>2. state'.deployed # state'.version
    BY <1>3, <1>6, <1>11 DEF DeployedOf, States
  <2>3. QED
    BY <1>10, <2>1, <2>2 DEF DeployInv
<1>12. CASE state # NoState
  <2>1. state'.deployed = state'.version => file' = state'.gen.config
    <3>1. CASE job[w].rows = <<>>
      BY <1>1, <1>2, <1>6, <1>12, <3>1 DEF Derived, DeployInv, DeployedOf
    <3>2. QED
      BY <1>9, <3>1
  <2>2. \A i \in DOMAIN history' : Rightly(history'[i], state', file')
    BY <1>1, <1>2, <1>7, <1>12 DEF DeployInv
  <2>3. \A v \in Workers \ {w} : Holds(v)' => Rightly(Pending(job'[v]), state', file')
    BY <1>1, <1>5, <1>7, <1>12 DEF DeployInv
  <2>4. QED
    BY <1>10, <2>1, <2>2, <2>3 DEF DeployInv
<1>13. QED
  BY <1>11, <1>12

\* A deployment whose version is still the one on disk writes it to the file.
LEMMA DeployedWritten ==
    ASSUME CoreOK, GhostsOK, DerivedInv, VersionInv, NEW w \in Workers, WriteFile(w)
    PROVE  DeployInv'
<1> SUFFICES ASSUME ~astray', Orderly', state' # NoState
             PROVE  DeployInv'
  BY DEF DeployInv
<1>0. pc \in [Workers -> Stages] /\ job \in [Workers -> Jobs]
  BY DEF CoreOK, CallsOK
<1>1. "state" \notin behind[w] /\ pc[w] = "write" /\ UNCHANGED <<state, history, job>> /\ file' = job[w].config
  BY DEF WriteFile
<1>2. Orderly
  BY DEF WriteFile, Writes, Orderly
<1>3. Settled(job[w])
  BY <1>1 DEF DerivedInv, CallDerived
<1>4. \A row : Agreeing(row, state) => Rightly(row, state', file')
  BY <1>1, <1>3 DEF Agreeing, Rightly, Settled
<1>5. \A v \in Workers : Holds(v)' => Holds(v) /\ Pending(job'[v]) = Pending(job[v])
  BY <1>0, <1>1 DEF WriteFile, Go, Holds
<1>6. \A i \in DOMAIN history' : Rightly(history'[i], state', file')
  BY <1>1, <1>2, <1>4 DEF VersionInv
<1>7. \A v \in Workers : Holds(v)' => Rightly(Pending(job'[v]), state', file')
  BY <1>2, <1>4, <1>5 DEF VersionInv, RowsOf
<1>8. QED
  BY <1>1, <1>3, <1>6, <1>7 DEF DeployInv, Settled

\* Every step keeps the deployed version in the file, or is one that may not.
LEMMA DeployNext ==
    CoreOK /\ GhostsOK /\ DerivedInv /\ VersionInv /\ DeployInv /\ [Next]_vars => DeployInv'
<1> SUFFICES ASSUME CoreOK, GhostsOK, DerivedInv, VersionInv, DeployInv, [Next]_vars
             PROVE  DeployInv'
  OBVIOUS
<1>0. pc \in [Workers -> Stages] /\ job \in [Workers -> Jobs] /\ behind \in [Workers -> SUBSET Files]
  BY DEF CoreOK, CallsOK, GhostsOK
<1>1. ASSUME NEW w \in Workers, Panel(w)
      PROVE  DeployInv'
  BY <1>1 DEF Panel, SaveSections, SaveRoot, DeployInv
<1>2. CASE /\ UNCHANGED <<file, astray>>
           /\ UNCHANGED <<state, history>> /\ undone \subseteq undone'
           /\ \A v \in Workers : Steady(v)
  <2>1. \A w \in Workers : Holds(w)' => Holds(w) /\ Pending(job'[w]) = Pending(job[w])
    BY <1>2 DEF Holds, Steady, Versioning
  <2>2. QED
    BY <1>2, <2>1, DeployedStays
<1>3. ASSUME NEW w \in Workers, LoadState(w)
      PROVE  DeployInv'
  <2>1. UNCHANGED <<state, history, undone, file, astray>> /\ Stay(w) /\ pc'[w] \in {"computed", "idle"}
    BY <1>3, LoadStep, OthersStay
  <2>2. \A v \in Workers : Holds(v)' => Holds(v) /\ Pending(job'[v]) = Pending(job[v])
    BY <2>1 DEF Holds, Stay
  <2>3. QED
    BY <2>1, <2>2, DeployedStays
<1>4. ASSUME NEW w \in Workers, LoadHistory(w)
      PROVE  DeployInv'
  <2>1. /\ UNCHANGED <<state, history, undone, file, astray>> /\ Stay(w)
        /\ pc[w] = "saved" /\ Pending(job'[w]) = Pending(job[w])
    BY <1>4, LoadedRows, OthersStay
  <2>2. \A v \in Workers : Holds(v)' => Holds(v) /\ Pending(job'[v]) = Pending(job[v])
    BY <2>1 DEF Holds, Stay
  <2>3. QED
    BY <2>1, <2>2, DeployedStays
<1>5. ASSUME NEW w \in Workers, SaveHistory(w)
      PROVE  DeployInv'
  <2> SUFFICES ASSUME ~astray', Orderly', state' # NoState
               PROVE  DeployInv'
    BY DEF DeployInv
  <2>1. /\ Orderly /\ history' = Append(history, Pending(job[w]))
        /\ UNCHANGED <<state, file, astray>> /\ pc[w] = "rows"
    BY <1>5, VersionsAppended DEF SaveHistory
  <2>2. \A row : Rightly(row, state', file') <=> Rightly(row, state, file)
    BY <2>1 DEF Rightly
  <2>3. ~Holds(w)' /\ Stay(w) /\ Holds(w)
    BY <1>0, <1>5, <2>1, OthersStay DEF SaveHistory, EndCall, Go, Holds
  <2>4. \A v \in Workers : Holds(v)' => Holds(v) /\ Pending(job'[v]) = Pending(job[v])
    BY <2>3 DEF Stay, Holds
  <2>5. \A i \in DOMAIN history' : \/ i \in DOMAIN history /\ history'[i] = history[i]
                                   \/ history'[i] = Pending(job[w])
    <3>1. history \in Seq(Rows)
      BY DEF CoreOK, DiskOK
    <3> DEFINE row == Pending(job[w])
    <3>2. /\ DOMAIN history = 1..Len(history) /\ DOMAIN history' = 1..(Len(history) + 1)
          /\ Len(history) \in Nat
          /\ \A i \in 1..Len(history) : history'[i] = history[i]
          /\ history'[Len(history) + 1] = row
      BY <2>1, <3>1, AppendProperties, LenProperties
    <3>3. QED
      BY <3>2
  <2>6. \A i \in DOMAIN history' : Rightly(history'[i], state', file')
    BY <2>1, <2>2, <2>3, <2>5 DEF DeployInv
  <2>7. QED
    BY <2>1, <2>2, <2>4, <2>6 DEF DeployInv
<1>6. CASE Restart
  <2>1. (\A w \in Workers : ~Holds(w)') /\ UNCHANGED <<file, astray>>
    BY <1>6 DEF Restart, Holds
  <2>2. undone \subseteq undone' /\ (Orderly' => UNCHANGED <<state, history>>)
    BY <1>6 DEF Restart, CrashFile, Orderly
  <2>3. CASE Orderly'
    BY <2>1, <2>2, <2>3, DeployedStays
  <2>4. CASE ~Orderly'
    BY <2>4 DEF DeployInv
  <2>5. QED
    BY <2>3, <2>4
<1>7. QED
  BY <1>1, <1>2, <1>3, <1>4, <1>5, <1>6, VersionSteps, FileFrame, DeployedSaved, DeployedWritten

\* The version that state.json calls deployed is the one in config.yaml, unless
\* a deployment ended between the two writes or wrote to another file
\* (service.py:565), the panel wrote since, or an update was lost.
THEOREM DeployedVersionIsInTheFile == Spec => []DeployedIsOnDisk
<1>1. Init => DeployInv
  BY DEF Init, DeployInv
<1>2. DeployInv => DeployedIsOnDisk
  BY DEF DeployInv, DeployedIsOnDisk, Orderly, Rightly
<1>3. QED
  BY <1>1, <1>2, DeployNext, VersionAlways, PTL DEF Spec
=============================================================================
