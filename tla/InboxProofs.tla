---------------------------- MODULE InboxProofs -----------------------------
(***************************************************************************)
(* Proofs about Inbox, for every set of threads, tracking ids and urls.    *)
(***************************************************************************)
EXTENDS Inbox, FiniteSetTheorems, TLAPS

Row == Store!Row

-----------------------------------------------------------------------------
(* Books: what loading, upserting and marking return.                      *)

\* A table in Books maps ids to rows.
LEMMA BookElim ==
    ASSUME NEW b \in Books
    PROVE  /\ DOMAIN b \subseteq Tids
           /\ \A t \in DOMAIN b : b[t] \in Row
           /\ b = [t \in DOMAIN b |-> b[t]]
<1>1. PICK S \in SUBSET Tids : b \in [S -> Row]
  BY DEF Books, Store!Books, Row
<1>2. QED
  BY <1>1

\* A function from ids to rows is a table.
LEMMA BookIntro ==
    ASSUME NEW b,
           DOMAIN b \subseteq Tids,
           \A t \in DOMAIN b : b[t] \in Row,
           b = [t \in DOMAIN b |-> b[t]]
    PROVE  b \in Books
<1>1. b \in [DOMAIN b -> Row]
  OBVIOUS
<1>2. QED
  BY <1>1 DEF Books, Store!Books, Row

\* The empty table is a table.
LEMMA EmptyBookType == EmptyBook \in Books /\ DOMAIN EmptyBook = {}
<1>1. DOMAIN EmptyBook = {} /\ EmptyBook = [t \in DOMAIN EmptyBook |-> EmptyBook[t]]
  BY DEF EmptyBook, Store!EmptyBook
<1>2. QED
  BY <1>1, BookIntro

\* A batch in Batches maps ids to sets of urls.
LEMMA BatchElim ==
    ASSUME NEW b \in Store!Batches
    PROVE  /\ DOMAIN b \subseteq Tids
           /\ \A t \in DOMAIN b : b[t] \in SUBSET Urls
<1>1. PICK S \in SUBSET Tids : b \in [S -> SUBSET Urls]
  BY DEF Store!Batches
<1>2. QED
  BY <1>1

\* An upsert keeps every row, its identity and its mark, and adds urls to it.
LEMMA UpsertKeeps ==
    ASSUME NEW book \in Books, NEW b \in Store!Batches, NEW g \in Gens
    PROVE  /\ Store!Upsert(book, b, g) \in Books
           /\ DOMAIN Store!Upsert(book, b, g) = DOMAIN book \cup DOMAIN b
           /\ \A t \in DOMAIN book :
                 /\ Store!Upsert(book, b, g)[t].gen = book[t].gen
                 /\ Store!Upsert(book, b, g)[t].briefed <=> book[t].briefed
                 /\ book[t].urls \subseteq Store!Upsert(book, b, g)[t].urls
           /\ \A t \in DOMAIN b : b[t] \subseteq Store!Upsert(book, b, g)[t].urls
           /\ \A t \in DOMAIN b \ DOMAIN book : ~Store!Upsert(book, b, g)[t].briefed
<1> DEFINE up == Store!Upsert(book, b, g)
<1>1. DOMAIN up = DOMAIN book \cup DOMAIN b /\ up = [t \in DOMAIN up |-> up[t]]
  BY DEF Store!Upsert
<1>2. DOMAIN up \subseteq Tids
  BY <1>1, BookElim, BatchElim
<1>3. ASSUME NEW t \in DOMAIN up
      PROVE  /\ up[t] \in Row
             /\ t \in DOMAIN book => /\ up[t].gen = book[t].gen
                                     /\ up[t].briefed <=> book[t].briefed
                                     /\ book[t].urls \subseteq up[t].urls
             /\ t \in DOMAIN b => b[t] \subseteq up[t].urls
             /\ t \notin DOMAIN book => ~up[t].briefed
  <2>1. CASE t \notin DOMAIN b
    <3>1. up[t] = book[t] /\ t \in DOMAIN book
      BY <2>1, <1>1 DEF Store!Upsert
    <3>2. QED
      BY <3>1, <2>1, BookElim
  <2>2. CASE t \in DOMAIN b /\ t \in DOMAIN book
    <3>1. up[t] = [book[t] EXCEPT !.urls = @ \cup b[t]]
      BY <2>2, <1>1 DEF Store!Upsert
    <3>2. book[t] \in Row /\ b[t] \in SUBSET Urls
      BY <2>2, BookElim, BatchElim
    <3>3. QED
      BY <3>1, <3>2, <2>2 DEF Row, Store!Row
  <2>3. CASE t \in DOMAIN b /\ t \notin DOMAIN book
    <3>1. up[t] = [gen |-> g, urls |-> b[t], briefed |-> FALSE]
      BY <2>3, <1>1 DEF Store!Upsert
    <3>2. b[t] \in SUBSET Urls
      BY <2>3, BatchElim
    <3>3. up[t] \in Row
      BY <3>1, <3>2 DEF Row, Store!Row
    <3>4. b[t] \subseteq up[t].urls /\ ~up[t].briefed
      BY <3>1
    <3>5. QED
      BY <3>3, <3>4, <2>3
  <2>4. QED
    BY <2>1, <2>2, <2>3
<1>4. up \in Books
  BY <1>1, <1>2, <1>3, BookIntro
<1>5. QED
  BY <1>1, <1>3, <1>4

\* Marking keeps every row, its identity and its urls, and marks only what it is asked to.
LEMMA WithMarksKeeps ==
    ASSUME NEW book \in Books, NEW ts
    PROVE  /\ Store!WithMarks(book, ts) \in Books
           /\ DOMAIN Store!WithMarks(book, ts) = DOMAIN book
           /\ \A t \in DOMAIN book :
                 /\ Store!WithMarks(book, ts)[t].gen = book[t].gen
                 /\ Store!WithMarks(book, ts)[t].urls = book[t].urls
                 /\ Store!WithMarks(book, ts)[t].briefed <=> (book[t].briefed \/ t \in ts)
<1> DEFINE wm == Store!WithMarks(book, ts)
<1>1. DOMAIN wm = DOMAIN book /\ wm = [t \in DOMAIN wm |-> wm[t]]
  BY DEF Store!WithMarks
<1>2. ASSUME NEW t \in DOMAIN book
      PROVE  /\ wm[t] \in Row
             /\ wm[t].gen = book[t].gen
             /\ wm[t].urls = book[t].urls
             /\ wm[t].briefed <=> (book[t].briefed \/ t \in ts)
  <2>1. book[t] \in Row
    BY BookElim
  <2>2. wm[t] = IF t \in ts THEN [book[t] EXCEPT !.briefed = TRUE] ELSE book[t]
    BY DEF Store!WithMarks
  <2>3. CASE t \in ts
    <3>1. wm[t] = [book[t] EXCEPT !.briefed = TRUE]
      BY <2>2, <2>3
    <3>2. wm[t] \in Row /\ wm[t].gen = book[t].gen /\ wm[t].urls = book[t].urls
      BY <3>1, <2>1 DEF Row, Store!Row
    <3>3. wm[t].briefed = TRUE
      BY <3>1, <2>1 DEF Row, Store!Row
    <3>4. QED
      BY <3>2, <3>3, <2>3
  <2>4. CASE t \notin ts
    BY <2>1, <2>2, <2>4
  <2>5. QED
    BY <2>3, <2>4
<1>3. wm \in Books
  BY <1>1, <1>2, BookElim, BookIntro
<1>4. QED
  BY <1>1, <1>2, <1>3

\* What a load reads is a table, also from a file in the middle of a write.
LEMMA LoadType ==
    ASSUME TypeOK
    PROVE  Load \in Books
BY EmptyBookType DEF TypeOK, Disk, Load

\* The rows a refresh selects for the brief.
LEMMA UnbriefedBook ==
    ASSUME NEW book \in Books
    PROVE  /\ [t \in Store!Unbriefed(book) |-> book[t]] \in Books
           /\ Store!Unbriefed(book) \subseteq DOMAIN book
<1>1. Store!Unbriefed(book) \subseteq DOMAIN book
  BY DEF Store!Unbriefed
<1>2. \A t \in DOMAIN book : t \in Tids /\ book[t] \in Row
  BY BookElim
<1> DEFINE b == [t \in Store!Unbriefed(book) |-> book[t]]
<1>3. DOMAIN b \subseteq Tids /\ \A t \in DOMAIN b : b[t] \in Row
  BY <1>1, <1>2
<1>4. b \in Books
  BY <1>3, BookIntro
<1>5. QED
  BY <1>1, <1>4

-----------------------------------------------------------------------------
(* Type correctness.                                                       *)

\* The types hold at the start.
LEMMA InitType == Init => TypeOK
<1> SUFFICES ASSUME Init PROVE TypeOK
  OBVIOUS
<1>1. 0 \in 0..MaxCalls /\ 0 \in 0..MaxFaults
  BY InboxAssumption
<1>2. disk \in Disk
  BY EmptyBookType DEF Init, Disk
<1>3. Run \notin Callers
  BY InboxAssumption
<1>4. QED
  BY <1>1, <1>2, <1>3, EmptyBookType
  DEF Init, TypeOK, PCs, Threads, Signals

\* The bookkeeping after a save keeps the types of what it touches.
LEMMA SavedType ==
    ASSUME TypeOK, NEW p \in Threads, Saved(p)
    PROVE  /\ pc' \in [Threads -> PCs]
           /\ \A c \in Callers : pc'[c] \in {"idle", "ingest", "ingestOpen"}
           /\ pc'[Run] \notin {"ingest", "ingestOpen"}
           /\ buf' \in [Threads -> Books]
           /\ batch' \in [Callers -> Store!Batches \cup {EmptyBook}]
           /\ brief' \in Books
           /\ acked' \subseteq Tids \X SUBSET Urls
           /\ UNCHANGED <<shown, selected, calls, faults>>
<1>1. buf' \in [Threads -> Books] /\ UNCHANGED <<shown, selected, calls, faults>>
  BY EmptyBookType DEF TypeOK, Saved
<1>2. CASE p = Run
  <2>1. /\ pc' \in [Threads -> PCs]
        /\ \A c \in Callers : pc'[c] \in {"idle", "ingest", "ingestOpen"}
        /\ pc'[Run] \notin {"ingest", "ingestOpen"}
    BY <1>2, InboxAssumption DEF TypeOK, Saved, PCs, Threads
  <2>2. buf[Run] \in Books
    BY DEF TypeOK, Threads
  <2>3. brief' \in Books
    BY <1>2, <2>2, UnbriefedBook, EmptyBookType DEF TypeOK, Saved
  <2>4. batch' = batch /\ acked' = acked
    BY <1>2 DEF Saved
  <2>5. QED
    BY <1>1, <2>1, <2>3, <2>4 DEF TypeOK
<1>3. CASE p \in Callers /\ p # Run
  <2>1. /\ pc' \in [Threads -> PCs]
        /\ \A c \in Callers : pc'[c] \in {"idle", "ingest", "ingestOpen"}
        /\ pc'[Run] \notin {"ingest", "ingestOpen"}
    BY <1>3, InboxAssumption DEF TypeOK, Saved, PCs, Threads
  <2>2. batch' \in [Callers -> Store!Batches \cup {EmptyBook}] /\ brief' = brief
    BY <1>3 DEF TypeOK, Saved
  <2>3. \A t \in DOMAIN batch[p] : t \in Tids /\ batch[p][t] \in SUBSET Urls
    <3>1. batch[p] \in Store!Batches \/ batch[p] = EmptyBook
      BY <1>3 DEF TypeOK
    <3>2. QED
      BY <3>1, BatchElim, EmptyBookType
  <2>4. acked' = acked \cup {<<t, batch[p][t]>> : t \in DOMAIN batch[p]}
    BY <1>3 DEF Saved
  <2>5. acked' \subseteq Tids \X SUBSET Urls
    BY <2>3, <2>4 DEF TypeOK
  <2>6. QED
    BY <1>1, <2>1, <2>2, <2>5 DEF TypeOK
<1>4. QED
  BY <1>2, <1>3, InboxAssumption DEF Threads

\* Every step keeps the types.
LEMMA NextType == TypeOK /\ [Next]_vars => TypeOK'
<1> SUFFICES ASSUME TypeOK, [Next]_vars PROVE TypeOK'
  OBVIOUS
<1> USE InboxAssumption
<1>1. ASSUME NEW c \in Callers, NEW b \in Store!Batches, IngestLoad(c, b)
      PROVE  TypeOK'
  <2>1. calls' \in Gens /\ calls' \in 0..MaxCalls
    BY <1>1 DEF TypeOK, IngestLoad, Gens
  <2>2. Store!Upsert(Load, b, calls') \in Books
    BY <2>1, LoadType, UpsertKeeps
  <2>3. /\ pc' \in [Threads -> PCs]
        /\ \A d \in Callers : pc'[d] \in {"idle", "ingest", "ingestOpen"}
        /\ pc'[Run] \notin {"ingest", "ingestOpen"}
    BY <1>1 DEF TypeOK, IngestLoad, PCs, Writing, Threads
  <2>4. buf' \in [Threads -> Books]
    BY <1>1, <2>2 DEF TypeOK, IngestLoad
  <2>5. batch' \in [Callers -> Store!Batches \cup {EmptyBook}]
    BY <1>1 DEF TypeOK, IngestLoad
  <2>6. QED
    BY <1>1, <2>1, <2>3, <2>4, <2>5 DEF TypeOK, IngestLoad
<1>2. CASE RefreshLoad
  <2>1. /\ pc' \in [Threads -> PCs]
        /\ \A d \in Callers : pc'[d] \in {"idle", "ingest", "ingestOpen"}
        /\ pc'[Run] \notin {"ingest", "ingestOpen"}
    BY <1>2 DEF TypeOK, RefreshLoad, PCs, Writing, Threads
  <2>2. buf' \in [Threads -> Books] /\ brief' \in Books
    BY <1>2, LoadType, EmptyBookType DEF TypeOK, RefreshLoad
  <2>3. QED
    BY <1>2, <2>1, <2>2 DEF TypeOK, RefreshLoad
<1>3. ASSUME NEW cards, shown' = ShownWith(cards)
      PROVE  shown' \in [Signals -> Nat]
  BY <1>3 DEF ShownWith, TypeOK
<1>4. CASE NotifySent
  <2>1. /\ pc' \in [Threads -> PCs]
        /\ \A d \in Callers : pc'[d] \in {"idle", "ingest", "ingestOpen"}
        /\ pc'[Run] \notin {"ingest", "ingestOpen"}
    BY <1>4 DEF TypeOK, NotifySent, PCs, Threads
  <2>2. shown' \in [Signals -> Nat]
    BY <1>3, <1>4 DEF NotifySent
  <2>3. \A t \in DOMAIN brief : t \in Tids /\ brief[t].gen \in Gens /\ brief[t].urls \in SUBSET Urls
    BY BookElim DEF TypeOK, Row, Store!Row
  <2>4. selected' \subseteq Tids \X Gens \X SUBSET Urls
    BY <1>4, <2>3 DEF TypeOK, NotifySent
  <2>5. QED
    BY <1>4, <2>1, <2>2, <2>4 DEF TypeOK, NotifySent
<1>5. CASE NotifyFails
  <2>1. /\ pc' \in [Threads -> PCs]
        /\ \A d \in Callers : pc'[d] \in {"idle", "ingest", "ingestOpen"}
        /\ pc'[Run] \notin {"ingest", "ingestOpen"}
    BY <1>5 DEF TypeOK, NotifyFails, PCs, Threads
  <2>2. shown' \in [Signals -> Nat]
    BY <1>3, <1>5 DEF NotifyFails
  <2>3. faults' \in 0..MaxFaults /\ brief' \in Books
    BY <1>5, EmptyBookType DEF TypeOK, NotifyFails
  <2>4. QED
    BY <1>5, <2>1, <2>2, <2>3 DEF TypeOK, NotifyFails
<1>6. CASE MarkLoad
  <2>1. /\ pc' \in [Threads -> PCs]
        /\ \A d \in Callers : pc'[d] \in {"idle", "ingest", "ingestOpen"}
        /\ pc'[Run] \notin {"ingest", "ingestOpen"}
    BY <1>6 DEF TypeOK, MarkLoad, PCs, Writing, Threads
  <2>2. Store!WithMarks(Load, Marked(Load)) \in Books
    BY LoadType, WithMarksKeeps
  <2>3. buf' \in [Threads -> Books] /\ brief' \in Books
    BY <1>6, <2>2, EmptyBookType DEF TypeOK, MarkLoad
  <2>4. QED
    BY <1>6, <2>1, <2>3 DEF TypeOK, MarkLoad
<1>7. ASSUME NEW p \in Threads, SaveStep(p)
      PROVE  TypeOK'
  <2>1. CASE Save(p)
    <3>1. disk' \in Disk
      BY <2>1 DEF TypeOK, Save, Disk
    <3>2. QED
      BY <2>1, <3>1, SavedType DEF TypeOK, Save
  <2>2. CASE Truncate(p)
    <3>1. disk' \in Disk
      BY <2>2 DEF TypeOK, Truncate, Disk
    <3>2. /\ pc' \in [Threads -> PCs]
          /\ \A d \in Callers : pc'[d] \in {"idle", "ingest", "ingestOpen"}
          /\ pc'[Run] \notin {"ingest", "ingestOpen"}
      BY <2>2 DEF TypeOK, Truncate, PCs, Opened, Writing, Threads
    <3>3. QED
      BY <2>2, <3>1, <3>2 DEF TypeOK, Truncate
  <2>3. CASE Flush(p)
    <3>1. disk' \in Disk
      BY <2>3 DEF TypeOK, Flush, Disk
    <3>2. QED
      BY <2>3, <3>1, SavedType DEF TypeOK, Flush
  <2>4. QED
    BY <1>7, <2>1, <2>2, <2>3 DEF SaveStep
<1>8. ASSUME NEW p \in Threads, Abort(p)
      PROVE  TypeOK'
  <2>1. /\ pc' \in [Threads -> PCs]
        /\ \A d \in Callers : pc'[d] \in {"idle", "ingest", "ingestOpen"}
        /\ pc'[Run] \notin {"ingest", "ingestOpen"}
    BY <1>8 DEF TypeOK, Abort, PCs, Threads
  <2>2. buf' \in [Threads -> Books] /\ brief' \in Books
    BY <1>8, EmptyBookType DEF TypeOK, Abort
  <2>3. batch' \in [Callers -> Store!Batches \cup {EmptyBook}] /\ faults' \in 0..MaxFaults
    BY <1>8 DEF TypeOK, Abort
  <2>4. QED
    BY <1>8, <2>1, <2>2, <2>3 DEF TypeOK, Abort
<1>9. CASE Crash
  <2>1. /\ pc' \in [Threads -> PCs]
        /\ \A d \in Callers : pc'[d] \in {"idle", "ingest", "ingestOpen"}
        /\ pc'[Run] \notin {"ingest", "ingestOpen"}
    BY <1>9 DEF TypeOK, Crash, PCs, Threads
  <2>2. buf' \in [Threads -> Books] /\ brief' \in Books
    BY <1>9, EmptyBookType DEF Crash
  <2>3. batch' \in [Callers -> Store!Batches \cup {EmptyBook}] /\ faults' \in 0..MaxFaults
    BY <1>9 DEF TypeOK, Crash
  <2>4. QED
    BY <1>9, <2>1, <2>2, <2>3 DEF TypeOK, Crash
<1>10. CASE UNCHANGED vars
  BY <1>10 DEF TypeOK, vars
<1>11. Run \in Threads /\ Callers \subseteq Threads
  BY DEF Threads
<1>12. QED
  BY <1>1, <1>2, <1>4, <1>5, <1>6, <1>7, <1>8, <1>9, <1>10, <1>11 DEF Next, RunStep

\* Every behaviour of the inbox, with any number of threads and with or without
\* overlapping or torn writes, keeps its variables in their types.
THEOREM TypeCorrect == Spec => []TypeOK
BY InitType, NextType, PTL DEF Spec

-----------------------------------------------------------------------------
(* Marks.  A mark is written to a list that is loaded, changed and saved   *)
(* while other threads do the same, so the argument follows the marks      *)
(* through every copy: whatever evidence E a mark needs, if every mark on  *)
(* disk and in every thread's list has it, and the run only begins to mark *)
(* signals that have it, then no step makes a mark without it.             *)

MarksOf(book, E) == \A t \in DOMAIN book : book[t].briefed => <<t, book[t].gen>> \in E

MarksHave(E) ==
    /\ MarksOf(disk.rows, E)
    /\ \A p \in Threads : MarksOf(buf[p], E)
    /\ pc[Run] = "notified" => \A t \in DOMAIN brief : <<t, brief[t].gen>> \in E

\* An empty table has no marks to justify.
LEMMA EmptyMarks == \A E : MarksOf(EmptyBook, E)
BY EmptyBookType DEF MarksOf

\* At the start no row is marked.
LEMMA InitMarks == Init => \A E : MarksHave(E)
<1> SUFFICES ASSUME Init, NEW E PROVE MarksHave(E)
  OBVIOUS
<1>1. disk.rows = EmptyBook /\ \A p \in Threads : buf[p] = EmptyBook
  BY DEF Init
<1>2. pc[Run] = "idle"
  BY DEF Init, Threads
<1>3. QED
  BY <1>1, <1>2, EmptyMarks DEF MarksHave

\* The bookkeeping after a save creates no mark without evidence.
LEMMA SavedMarks ==
    ASSUME TypeOK, NEW p \in Threads, Saved(p), NEW E, MarksHave(E)
    PROVE  /\ \A q \in Threads : MarksOf(buf'[q], E)
           /\ pc'[Run] = "notified" => \A t \in DOMAIN brief' : <<t, brief'[t].gen>> \in E
<1>1. \A q \in Threads : MarksOf(buf'[q], E)
  BY EmptyMarks DEF TypeOK, Saved, MarksHave
<1>2. CASE p = Run
  BY <1>1, <1>2 DEF TypeOK, Saved, Threads
<1>3. CASE p # Run
  BY <1>1, <1>3 DEF TypeOK, Saved, MarksHave, Threads
<1>4. QED
  BY <1>2, <1>3

\* Marks keep their evidence, whichever evidence it is, as long as it only grows.
LEMMA NextMarks ==
    ASSUME TypeOK, [Next]_vars, NEW E, NEW F, MarksHave(E), E \subseteq F,
           NotifySent => \A t \in DOMAIN brief : <<t, brief[t].gen>> \in F
    PROVE  MarksHave(F)'
<1> USE InboxAssumption
<1>0. MarksHave(F)
  BY DEF MarksHave, MarksOf
<1>a. MarksOf(Load, F)
  BY <1>0, EmptyMarks DEF Load, MarksHave
<1>b. Run \in Threads /\ Callers \subseteq Threads
  BY DEF Threads
<1>1. ASSUME NEW c \in Callers, NEW b \in Store!Batches, IngestLoad(c, b)
      PROVE  MarksHave(F)'
  <2>1. calls' \in Gens
    BY <1>1 DEF TypeOK, IngestLoad, Gens
  <2>2. MarksOf(Store!Upsert(Load, b, calls'), F)
    <3> DEFINE up == Store!Upsert(Load, b, calls')
    <3> SUFFICES ASSUME NEW t \in DOMAIN up, up[t].briefed
                 PROVE  <<t, up[t].gen>> \in F
      BY DEF MarksOf
    <3>1. /\ DOMAIN up = DOMAIN Load \cup DOMAIN b
          /\ \A d \in DOMAIN Load : up[d].gen = Load[d].gen /\ (up[d].briefed <=> Load[d].briefed)
          /\ \A d \in DOMAIN b \ DOMAIN Load : ~up[d].briefed
      BY <2>1, LoadType, UpsertKeeps
    <3> HIDE DEF up
    <3>2. t \in DOMAIN Load /\ up[t].gen = Load[t].gen /\ Load[t].briefed
      BY <3>1
    <3>3. QED
      BY <3>2, <1>a DEF MarksOf
  <2>3. \A p \in Threads : MarksOf(buf'[p], F)
    BY <1>1, <2>2, <1>0 DEF IngestLoad, MarksHave, TypeOK
  <2>4. pc'[Run] = pc[Run] /\ brief' = brief /\ disk' = disk
    BY <1>1 DEF IngestLoad, TypeOK
  <2>5. QED
    BY <2>3, <2>4, <1>0 DEF MarksHave
<1>2. CASE RefreshLoad
  <2>1. \A p \in Threads : MarksOf(buf'[p], F)
    BY <1>2, <1>a, <1>0 DEF RefreshLoad, MarksHave, TypeOK
  <2>2. pc'[Run] # "notified" /\ disk' = disk
    BY <1>2, <1>b DEF RefreshLoad, TypeOK
  <2>3. QED
    BY <2>1, <2>2, <1>0 DEF MarksHave
<1>3. CASE NotifySent
  <2>1. UNCHANGED <<disk, buf, brief>>
    BY <1>3 DEF NotifySent
  <2>2. QED
    BY <2>1, <1>0, <1>3 DEF MarksHave
<1>4. CASE NotifyFails
  <2>1. UNCHANGED <<disk, buf>> /\ pc'[Run] = "idle"
    BY <1>4, <1>b DEF NotifyFails, TypeOK
  <2>2. QED
    BY <2>1, <1>0 DEF MarksHave
<1>5. CASE MarkLoad
  <2>1. \A t \in Marked(Load) : t \in DOMAIN brief /\ Load[t].gen = brief[t].gen
    BY DEF Marked
  <2>2. \A t \in Marked(Load) : <<t, Load[t].gen>> \in F
    BY <2>1, <1>5, <1>0 DEF MarkLoad, MarksHave
  <2>3. MarksOf(Store!WithMarks(Load, Marked(Load)), F)
    BY <2>2, <1>a, LoadType, WithMarksKeeps DEF MarksOf
  <2>4. \A p \in Threads : MarksOf(buf'[p], F)
    BY <1>5, <2>3, <1>0, EmptyMarks DEF MarkLoad, MarksHave, TypeOK
  <2>5. pc'[Run] # "notified" /\ disk' = disk
    BY <1>5, <1>b DEF MarkLoad, TypeOK
  <2>6. QED
    BY <2>4, <2>5, <1>0 DEF MarksHave
<1>6. ASSUME NEW p \in Threads, SaveStep(p)
      PROVE  MarksHave(F)'
  <2>1. CASE Save(p)
    <3>1. disk'.rows = buf[p]
      BY <2>1 DEF Save
    <3>2. MarksOf(disk'.rows, F)
      BY <3>1, <1>0 DEF MarksHave
    <3>3. QED
      BY <2>1, <3>2, <1>0, SavedMarks DEF Save, MarksHave
  <2>2. CASE Truncate(p)
    <3>1. disk'.rows = disk.rows /\ UNCHANGED <<buf, brief>>
      BY <2>2 DEF Truncate, TypeOK, Disk
    <3>2. pc'[Run] = "notified" => pc[Run] = "notified"
      BY <2>2, <1>b DEF Truncate, TypeOK
    <3>3. QED
      BY <3>1, <3>2, <1>0 DEF MarksHave
  <2>3. CASE Flush(p)
    <3>1. disk'.rows = buf[p]
      BY <2>3 DEF Flush
    <3>2. MarksOf(disk'.rows, F)
      BY <3>1, <1>0 DEF MarksHave
    <3>3. QED
      BY <2>3, <3>2, <1>0, SavedMarks DEF Flush, MarksHave
  <2>4. QED
    BY <1>6, <2>1, <2>2, <2>3 DEF SaveStep
<1>7. ASSUME NEW p \in Threads, Abort(p)
      PROVE  MarksHave(F)'
  <2>1. \A q \in Threads : MarksOf(buf'[q], F)
    BY <1>7, <1>0, EmptyMarks DEF Abort, MarksHave, TypeOK
  <2>2. pc'[Run] = "notified" => pc[Run] = "notified" /\ brief' = brief
    BY <1>7, <1>b DEF Abort, TypeOK
  <2>3. QED
    BY <1>7, <2>1, <2>2, <1>0 DEF Abort, MarksHave
<1>8. CASE Crash
  <2>1. \A q \in Threads : MarksOf(buf'[q], F)
    BY <1>8, EmptyMarks DEF Crash
  <2>2. pc'[Run] = "idle" /\ disk' = disk
    BY <1>8, <1>b DEF Crash
  <2>3. QED
    BY <2>1, <2>2, <1>0 DEF MarksHave
<1>9. CASE UNCHANGED vars
  BY <1>9, <1>0 DEF vars, MarksHave
<1>10. QED
  BY <1>1, <1>2, <1>3, <1>4, <1>5, <1>6, <1>7, <1>8, <1>9, <1>b DEF Next, RunStep

\* The signals some sent brief held.
Taken == {<<s[1], s[2]>> : s \in selected}

\* However threads interleave, tear and lose each other's writes, abort and
\* crash: a signal that the file says was briefed was in the brief of a run
\* whose notification was sent.
THEOREM MarkedOnlySelected == Spec => []MarkedWasSelected
<1>1. Init => MarksHave(Taken)
  BY InitMarks
<1>2. TypeOK /\ MarksHave(Taken) /\ [Next]_vars => MarksHave(Taken)'
  <2> SUFFICES ASSUME TypeOK, MarksHave(Taken), [Next]_vars PROVE MarksHave(Taken)'
    OBVIOUS
  <2>1. Taken \subseteq Taken'
    BY DEF Next, RunStep, IngestLoad, RefreshLoad, NotifySent, NotifyFails, MarkLoad,
           SaveStep, Save, Truncate, Flush, Saved, Abort, Crash, vars, Taken
  <2>2. ASSUME NotifySent, NEW t \in DOMAIN brief
        PROVE  <<t, brief[t].gen>> \in Taken'
    <3>1. <<t, brief[t].gen, brief[t].urls>> \in selected'
      BY <2>2 DEF NotifySent
    <3>2. QED
      BY <3>1 DEF Taken
  <2>3. QED
    BY <2>1, <2>2, NextMarks DEF MarksHave
<1>3. TypeOK /\ MarksHave(Taken) => MarkedWasSelected
  <2> SUFFICES ASSUME TypeOK, MarksHave(Taken), NEW t \in DOMAIN disk.rows, disk.rows[t].briefed
               PROVE  \E us \in SUBSET Urls : <<t, disk.rows[t].gen, us>> \in selected
    BY DEF MarkedWasSelected
  <2>1. <<t, disk.rows[t].gen>> \in Taken
    BY DEF MarksHave, MarksOf
  <2>2. PICK s \in selected : <<t, disk.rows[t].gen>> = <<s[1], s[2]>>
    BY <2>1 DEF Taken
  <2>3. s = <<s[1], s[2], s[3]>> /\ s[3] \in SUBSET Urls
    BY DEF TypeOK
  <2>4. QED
    BY <2>2, <2>3
<1>4. QED
  BY <1>1, <1>2, <1>3, TypeCorrect, PTL DEF Spec

-----------------------------------------------------------------------------
(* Without overlap.  When every load-save sequence runs alone, what a      *)
(* thread is about to save is still a change of what the file holds.       *)

SerialInv ==
    /\ disk.state = "ok"
    /\ \A p \in Threads : pc[p] \notin Opened
    /\ \A p, q \in Threads : pc[p] \in Writing /\ pc[q] \in Writing => p = q
    /\ \A c \in Callers : pc[c] = "ingest" =>
          /\ batch[c] \in Store!Batches
          /\ \E g \in Gens : buf[c] = Store!Upsert(disk.rows, batch[c], g)
    /\ pc[Run] = "refresh" => buf[Run] = disk.rows
    /\ pc[Run] = "mark" =>
          \E ts \in SUBSET Store!Unbriefed(disk.rows) : buf[Run] = Store!WithMarks(disk.rows, ts)
    /\ pc[Run] = "refreshed" =>
          \A t \in DOMAIN brief :
              t \in DOMAIN disk.rows /\ disk.rows[t].gen = brief[t].gen /\ ~disk.rows[t].briefed

\* What a read of the file returns while no write is torn.
LEMMA SerialLoad == SerialInv => Load = disk.rows
BY DEF SerialInv, Load

\* The serial invariant holds at the start.
LEMMA InitSerial == Init => SerialInv
<1> SUFFICES ASSUME Init PROVE SerialInv
  OBVIOUS
<1>1. \A p \in Threads : pc[p] = "idle"
  BY DEF Init
<1>2. Run \in Threads /\ Callers \subseteq Threads
  BY DEF Threads
<1>3. disk.state = "ok"
  BY DEF Init
<1>4. QED
  BY <1>1, <1>2, <1>3 DEF SerialInv, Opened, Writing

\* A step that leaves the file and the lists of the threads that stay in the
\* middle of a save alone, and lets nobody start to save, keeps the invariant.
LEMMA QuietSerial ==
    ASSUME SerialInv,
           disk' = disk,
           \A p \in Threads : pc'[p] = pc[p] \/ pc'[p] \in {"idle", "notified"},
           \A p \in Threads : pc'[p] \in Writing => buf'[p] = buf[p],
           \A c \in Callers : pc'[c] = "ingest" => batch'[c] = batch[c],
           pc'[Run] = "refreshed" => brief' = brief
    PROVE  SerialInv'
<1> Run \in Threads /\ Callers \subseteq Threads
  BY DEF Threads
<1>1. \A p \in Threads : pc'[p] \in Writing => pc[p] = pc'[p]
  BY DEF Writing
<1>2. disk'.state = "ok" /\ \A p \in Threads : pc'[p] \notin Opened
  BY DEF SerialInv, Opened
<1>3. \A p, q \in Threads : pc'[p] \in Writing /\ pc'[q] \in Writing => p = q
  BY <1>1 DEF SerialInv
<1>4. \A c \in Callers : pc'[c] = "ingest" =>
          batch'[c] \in Store!Batches /\ \E g \in Gens : buf'[c] = Store!Upsert(disk'.rows, batch'[c], g)
  BY <1>1 DEF SerialInv, Writing
<1>5. /\ pc'[Run] = "refresh" => buf'[Run] = disk'.rows
      /\ pc'[Run] = "mark" =>
            \E ts \in SUBSET Store!Unbriefed(disk'.rows) : buf'[Run] = Store!WithMarks(disk'.rows, ts)
  BY <1>1 DEF SerialInv, Writing
<1>6. pc'[Run] = "refreshed" =>
          \A t \in DOMAIN brief' :
              t \in DOMAIN disk'.rows /\ disk'.rows[t].gen = brief'[t].gen /\ ~disk'.rows[t].briefed
  BY DEF SerialInv
<1>7. QED
  BY <1>2, <1>3, <1>4, <1>5, <1>6 DEF SerialInv, Store!Unbriefed, Store!WithMarks, Store!Upsert

\* A step that loads the file while nobody else is between a load and a save.
LEMMA LoadSerial ==
    ASSUME TypeOK, SerialInv, NEW p \in Threads, MayLoad(p), ~Overlap,
           disk' = disk,
           \A q \in Threads \ {p} : pc'[q] = pc[q]
    PROVE  /\ disk'.state = "ok"
           /\ \A q \in Threads \ {p} : pc'[q] \notin Writing
           /\ \A q \in Threads \ {p} : pc'[q] \notin Opened
           /\ pc'[p] \notin Opened => \A q \in Threads : pc'[q] \notin Opened
           /\ \A q, r \in Threads : pc'[q] \in Writing /\ pc'[r] \in Writing => q = r
<1>1. \A q \in Threads \ {p} : pc'[q] \notin Writing /\ pc'[q] \notin Opened
  BY DEF MayLoad, Busy
<1>2. QED
  BY <1>1 DEF SerialInv

\* A save while nobody else is between a load and a save.
LEMMA SaveSerial ==
    ASSUME TypeOK, SerialInv, NEW p \in Threads, Save(p)
    PROVE  SerialInv'
<1> Run \in Threads /\ Callers \subseteq Threads
  BY DEF Threads
<1>1. /\ disk'.state = "ok" /\ disk'.rows = buf[p]
      /\ pc[p] \in Writing
      /\ Saved(p)
  BY DEF Save
<1>2. \A q \in Threads \ {p} : pc[q] \notin Writing
  BY <1>1 DEF SerialInv
<1>3. pc'[p] \in {"idle", "refreshed"} /\ \A q \in Threads \ {p} : pc'[q] = pc[q]
  BY <1>1 DEF Saved, TypeOK
<1>4. \A q \in Threads : pc'[q] \notin Writing /\ pc'[q] \notin Opened
  BY <1>2, <1>3 DEF SerialInv, Writing, Opened
<1>5. ASSUME pc'[Run] = "refreshed", NEW t \in DOMAIN brief'
      PROVE  t \in DOMAIN disk'.rows /\ disk'.rows[t].gen = brief'[t].gen /\ ~disk'.rows[t].briefed
  <2>1. CASE p = Run
    <3>1. pc[Run] = "refresh"
      BY <1>1, <1>5, <2>1 DEF Saved, TypeOK, Writing, SerialInv, Opened
    <3>2. brief' = [d \in Store!Unbriefed(buf[Run]) |-> buf[Run][d]]
      BY <1>1, <2>1, <3>1 DEF Saved
    <3>3. QED
      BY <1>1, <1>5, <2>1, <3>2 DEF Store!Unbriefed
  <2>2. CASE p # Run
    <3>1. p \in Callers /\ pc[p] = "ingest"
      BY <1>1, <2>2 DEF Threads, TypeOK, Writing
    <3>2. PICK g \in Gens : buf[p] = Store!Upsert(disk.rows, batch[p], g)
      BY <3>1 DEF SerialInv
    <3>3. disk.rows \in Books /\ batch[p] \in Store!Batches
      BY <3>1 DEF SerialInv, TypeOK, Disk
    <3>4. \A d \in DOMAIN disk.rows :
              /\ d \in DOMAIN buf[p]
              /\ buf[p][d].gen = disk.rows[d].gen
              /\ buf[p][d].briefed <=> disk.rows[d].briefed
      <4> DEFINE old == disk.rows
                 up == Store!Upsert(old, batch[p], g)
      <4>1. old \in Books /\ buf[p] = up
        BY <3>2, <3>3
      <4> HIDE DEF old
      <4>2. /\ DOMAIN up = DOMAIN old \cup DOMAIN batch[p]
            /\ \A d \in DOMAIN old : up[d].gen = old[d].gen /\ (up[d].briefed <=> old[d].briefed)
        <5> DEFINE bat == batch[p]
        <5>1. bat \in Store!Batches /\ old \in Books
          BY <3>3, <4>1
        <5> HIDE DEF bat
        <5>2. /\ DOMAIN Store!Upsert(old, bat, g) = DOMAIN old \cup DOMAIN bat
              /\ \A d \in DOMAIN old :
                    /\ Store!Upsert(old, bat, g)[d].gen = old[d].gen
                    /\ Store!Upsert(old, bat, g)[d].briefed <=> old[d].briefed
          BY <5>1, UpsertKeeps
        <5>3. QED
          BY <5>2 DEF bat
      <4> HIDE DEF up
      <4>3. \A d \in DOMAIN old :
                /\ d \in DOMAIN buf[p]
                /\ buf[p][d].gen = old[d].gen
                /\ buf[p][d].briefed <=> old[d].briefed
        BY <4>1, <4>2
      <4>4. QED
        BY <4>3 DEF old
    <3>5. pc[Run] = "refreshed" /\ brief' = brief
      BY <1>1, <1>3, <1>5, <2>2 DEF Saved
    <3>6. QED
      BY <1>1, <1>5, <3>4, <3>5 DEF SerialInv
  <2>3. QED
    BY <2>1, <2>2
<1>6. QED
  BY <1>1, <1>4, <1>5 DEF SerialInv, Writing

\* Every step keeps the serial invariant.
LEMMA NextSerial ==
    ASSUME TypeOK, SerialInv, [Next]_vars, ~Overlap, ~TornWrites
    PROVE  SerialInv'
<1> USE InboxAssumption
<1>0. Run \in Threads /\ Callers \subseteq Threads /\ Run \notin Callers
  BY DEF Threads
<1>1. ASSUME NEW c \in Callers, NEW b \in Store!Batches, IngestLoad(c, b)
      PROVE  SerialInv'
  <2>1. /\ pc'[c] = "ingest" /\ batch'[c] = b /\ disk' = disk
        /\ buf'[c] = Store!Upsert(disk.rows, b, calls')
        /\ \A q \in Threads \ {c} : pc'[q] = pc[q]
        /\ brief' = brief
    BY <1>0, <1>1, SerialLoad DEF IngestLoad, TypeOK
  <2>2. calls' \in Gens
    BY <1>1 DEF TypeOK, IngestLoad, Gens
  <2>3. /\ disk'.state = "ok"
        /\ \A q \in Threads : pc'[q] \notin Opened
        /\ \A q \in Threads \ {c} : pc'[q] \notin Writing
        /\ \A q, r \in Threads : pc'[q] \in Writing /\ pc'[r] \in Writing => q = r
    BY <1>0, <1>1, <2>1, LoadSerial DEF IngestLoad, Opened
  <2>4. pc'[Run] = pc[Run] /\ pc'[Run] \notin Writing
    BY <1>0, <2>1, <2>3
  <2>5. \A d \in Callers : pc'[d] = "ingest" => d = c
    BY <1>0, <2>3 DEF Writing
  <2>6. QED
    BY <2>1, <2>2, <2>3, <2>4, <2>5 DEF SerialInv, Writing
<1>2. CASE RefreshLoad
  <2>1. /\ pc'[Run] \in {"refresh", "refreshed"} /\ disk' = disk
        /\ buf'[Run] = disk.rows
        /\ \A q \in Threads \ {Run} : pc'[q] = pc[q]
        /\ DOMAIN brief' = {}
    BY <1>0, <1>2, SerialLoad, EmptyBookType DEF RefreshLoad, TypeOK
  <2>2. /\ disk'.state = "ok"
        /\ \A q \in Threads : pc'[q] \notin Opened
        /\ \A q \in Threads \ {Run} : pc'[q] \notin Writing
        /\ \A q, r \in Threads : pc'[q] \in Writing /\ pc'[r] \in Writing => q = r
    BY <1>0, <1>2, <2>1, LoadSerial DEF RefreshLoad, Opened
  <2>3. \A d \in Callers : pc'[d] # "ingest"
    BY <1>0, <2>2 DEF Writing
  <2>4. QED
    BY <2>1, <2>2, <2>3 DEF SerialInv
<1>3. CASE NotifySent
  <2>1. /\ disk' = disk /\ buf' = buf /\ batch' = batch
        /\ pc'[Run] \in {"idle", "notified"}
        /\ \A q \in Threads \ {Run} : pc'[q] = pc[q]
    BY <1>0, <1>3 DEF NotifySent, TypeOK
  <2>2. QED
    BY <2>1, QuietSerial
<1>4. CASE NotifyFails
  <2>1. /\ disk' = disk /\ buf' = buf /\ batch' = batch
        /\ pc'[Run] = "idle"
        /\ \A q \in Threads \ {Run} : pc'[q] = pc[q]
    BY <1>0, <1>4 DEF NotifyFails, TypeOK
  <2>2. QED
    BY <2>1, QuietSerial
<1>5. CASE MarkLoad
  <2>1. /\ disk' = disk /\ batch' = batch
        /\ \A q \in Threads \ {Run} : pc'[q] = pc[q]
        /\ pc'[Run] \in {"idle", "mark"}
    BY <1>0, <1>5 DEF MarkLoad, TypeOK
  <2>2. pc'[Run] = "mark" => buf'[Run] = Store!WithMarks(disk.rows, Marked(disk.rows))
    BY <1>0, <1>5, SerialLoad DEF MarkLoad, TypeOK
  <2>3. Marked(disk.rows) \in SUBSET Store!Unbriefed(disk.rows)
    BY DEF Marked
  <2>4. /\ disk'.state = "ok"
        /\ \A q \in Threads : pc'[q] \notin Opened
        /\ \A q \in Threads \ {Run} : pc'[q] \notin Writing
        /\ \A q, r \in Threads : pc'[q] \in Writing /\ pc'[r] \in Writing => q = r
    BY <1>0, <1>5, <2>1, LoadSerial DEF MarkLoad, Opened
  <2>5. \A d \in Callers : pc'[d] # "ingest"
    BY <1>0, <2>4 DEF Writing
  <2>6. QED
    BY <2>1, <2>2, <2>3, <2>4, <2>5 DEF SerialInv
<1>6. ASSUME NEW p \in Threads, SaveStep(p)
      PROVE  SerialInv'
  <2>1. CASE Save(p)
    BY <2>1, SaveSerial
  <2>2. ~Truncate(p) /\ ~Flush(p)
    BY DEF Truncate, Flush, SerialInv
  <2>3. QED
    BY <1>6, <2>1, <2>2 DEF SaveStep
<1>7. ASSUME NEW p \in Threads, Abort(p)
      PROVE  SerialInv'
  <2>1. disk' = disk /\ pc'[p] = "idle" /\ \A q \in Threads \ {p} : pc'[q] = pc[q] /\ buf'[q] = buf[q]
    BY <1>7 DEF Abort, TypeOK
  <2>2. \A c \in Callers : c # p => batch'[c] = batch[c]
    BY <1>7 DEF Abort
  <2>3. p # Run => brief' = brief
    BY <1>7 DEF Abort
  <2>4. QED
    BY <1>0, <2>1, <2>2, <2>3, QuietSerial DEF Writing
<1>8. CASE Crash
  <2>1. disk' = disk /\ \A q \in Threads : pc'[q] = "idle"
    BY <1>8 DEF Crash
  <2>2. QED
    BY <1>0, <2>1, QuietSerial DEF Writing
<1>9. CASE UNCHANGED vars
  BY <1>9, QuietSerial DEF vars
<1>10. QED
  BY <1>1, <1>2, <1>3, <1>4, <1>5, <1>6, <1>7, <1>8, <1>9, <1>0 DEF Next, RunStep

\* Without overlap and torn writes the serial invariant always holds.
LEMMA SerialCorrect ==
    ASSUME ~Overlap, ~TornWrites
    PROVE  Spec => []SerialInv
<1>1. TypeOK /\ SerialInv /\ [Next]_vars => SerialInv'
  BY NextSerial
<1>2. QED
  BY <1>1, InitSerial, TypeCorrect, PTL DEF Spec

\* A save keeps every row and every url of the file, and adds what the caller submitted.
LEMMA SaveGrows ==
    ASSUME TypeOK, SerialInv, NEW p \in Threads, Save(p)
    PROVE  /\ \A t \in DOMAIN disk.rows :
                  t \in DOMAIN disk'.rows /\ disk.rows[t].urls \subseteq disk'.rows[t].urls
           /\ p \in Callers => \A t \in DOMAIN batch[p] :
                  t \in DOMAIN disk'.rows /\ batch[p][t] \subseteq disk'.rows[t].urls
<1> DEFINE old == disk.rows
<1>1. old \in Books /\ disk'.rows = buf[p] /\ pc[p] \in Writing
  BY DEF TypeOK, Disk, Save
<1> HIDE DEF old
<1>0. p = Run => p \notin Callers
  BY InboxAssumption
<1>2. CASE p \in Callers
  <2>1. pc[p] = "ingest"
    BY <1>1, <1>2 DEF TypeOK, Writing
  <2>2. PICK g \in Gens : buf[p] = Store!Upsert(old, batch[p], g)
    BY <1>2, <2>1 DEF SerialInv, old
  <2>3. batch[p] \in Store!Batches
    BY <1>2, <2>1 DEF SerialInv
  <2> DEFINE up == Store!Upsert(old, batch[p], g)
  <2>4. /\ DOMAIN up = DOMAIN old \cup DOMAIN batch[p]
        /\ \A t \in DOMAIN old : old[t].urls \subseteq up[t].urls
        /\ \A t \in DOMAIN batch[p] : batch[p][t] \subseteq up[t].urls
    <3> DEFINE bat == batch[p]
    <3>1. bat \in Store!Batches /\ old \in Books
      BY <1>1, <2>3
    <3> HIDE DEF bat
    <3>2. /\ DOMAIN Store!Upsert(old, bat, g) = DOMAIN old \cup DOMAIN bat
          /\ \A t \in DOMAIN old : old[t].urls \subseteq Store!Upsert(old, bat, g)[t].urls
          /\ \A t \in DOMAIN bat : bat[t] \subseteq Store!Upsert(old, bat, g)[t].urls
      BY <3>1, UpsertKeeps
    <3>3. QED
      BY <3>2 DEF bat
  <2>5. disk'.rows = up
    BY <1>1, <2>2
  <2> HIDE DEF up
  <2>6. QED
    BY <2>4, <2>5 DEF old
<1>3. CASE p = Run /\ pc[Run] = "mark"
  <2>1. PICK ts \in SUBSET Store!Unbriefed(old) : buf[Run] = Store!WithMarks(old, ts)
    BY <1>3 DEF SerialInv, old
  <2> DEFINE wm == Store!WithMarks(old, ts)
  <2>2. DOMAIN wm = DOMAIN old /\ \A t \in DOMAIN old : wm[t].urls = old[t].urls
    <3>1. old \in Books
      BY <1>1
    <3>2. QED
      BY <3>1, WithMarksKeeps
  <2>3. disk'.rows = wm
    BY <1>1, <1>3, <2>1
  <2> HIDE DEF wm
  <2>4. QED
    BY <1>0, <1>3, <2>2, <2>3 DEF old
<1>4. CASE p = Run /\ pc[Run] = "refresh"
  BY <1>0, <1>1, <1>4 DEF SerialInv, old
<1>5. p \in Callers \/ (p = Run /\ (pc[Run] = "mark" \/ pc[Run] = "refresh"))
  BY <1>1 DEF Threads, TypeOK, Writing
<1>6. QED
  BY <1>2, <1>3, <1>4, <1>5

\* While no two operations on the file overlap and no write is torn, no
\* acknowledged submission is ever lost, whatever runs, aborts and crashes do.
\* inbox_lost shows that the assumption is needed.
THEOREM SerialNoLoss ==
    ASSUME ~Overlap, ~TornWrites
    PROVE  Spec => []NoLostSubmission
<1>1. Init => NoLostSubmission
  BY DEF Init, NoLostSubmission
<1>2. TypeOK /\ SerialInv /\ SerialInv' /\ NoLostSubmission /\ [Next]_vars => NoLostSubmission'
  <2> SUFFICES ASSUME TypeOK, SerialInv, SerialInv', NoLostSubmission, [Next]_vars
               PROVE  NoLostSubmission'
    OBVIOUS
  <2>1. Load = disk.rows /\ Load' = disk'.rows
    BY DEF SerialInv, Load
  <2>2. ASSUME NEW p \in Threads, Save(p)
        PROVE  NoLostSubmission'
    <3> SUFFICES ASSUME NEW s \in acked'
                 PROVE  s[1] \in DOMAIN disk'.rows /\ s[2] \subseteq disk'.rows[s[1]].urls
      BY <2>1 DEF NoLostSubmission
    <3>1. CASE s \in acked
      BY <2>1, <2>2, <3>1, SaveGrows DEF NoLostSubmission
    <3>2. CASE s \notin acked
      <4>1. p \in Callers /\ \E t \in DOMAIN batch[p] : s = <<t, batch[p][t]>>
        BY <2>2, <3>2 DEF Save, Saved, Threads
      <4>2. QED
        BY <2>2, <4>1, SaveGrows
    <3>3. QED
      BY <3>1, <3>2
  <2>3. CASE ~(\E p \in Threads : Save(p))
    <3>1. \A p \in Threads : ~Truncate(p) /\ ~Flush(p)
      BY DEF Truncate, Flush, SerialInv, Opened
    <3>2. \A p \in Threads : ~SaveStep(p)
      BY <2>3, <3>1 DEF SaveStep
    <3>3. /\ \A c \in Callers : ~SaveStep(c)
          /\ ~SaveStep(Run)
      BY <3>2 DEF Threads
    <3>4. disk' = disk /\ acked' = acked
      BY <3>3 DEF Next, RunStep, IngestLoad, RefreshLoad, NotifySent, NotifyFails, MarkLoad,
                  Abort, Crash, vars
    <3>5. QED
      BY <2>1, <3>4 DEF NoLostSubmission
  <2>4. QED
    BY <2>2, <2>3
<1>3. QED
  BY <1>1, <1>2, TypeCorrect, SerialCorrect, PTL DEF Spec

-----------------------------------------------------------------------------
(* Marked means shown.  This holds where a channel sends a card for every  *)
(* selected signal: the composer filled every block and the inbox fits     *)
(* into MaxCards cards.                                                    *)

EveryCardFits == TemplateFallback /\ IsFiniteSet(Tids) /\ Cardinality(Tids) <= MaxCards

\* The signals that reached the user.
Shown == {s \in Signals : shown[s] > 0}

\* When every selected signal gets a card, all of the brief is shown.
LEMMA AllCards ==
    ASSUME TypeOK, EveryCardFits, NEW cards \in CardSets
    PROVE  cards = DOMAIN brief
<1>1. DOMAIN brief \subseteq Tids /\ cards \subseteq DOMAIN brief
  BY BookElim DEF TypeOK, CardSets
<1>2. IsFiniteSet(Tids)
  BY DEF EveryCardFits
<1>3. IsFiniteSet(DOMAIN brief) /\ Cardinality(DOMAIN brief) \in Nat
      /\ Cardinality(DOMAIN brief) <= Cardinality(Tids) /\ Cardinality(Tids) \in Nat
  BY <1>1, <1>2, FS_Subset, FS_CardinalityType
<1>4. Cardinality(cards) = MaxCards \/ cards = DOMAIN brief
  BY DEF CardSets, EveryCardFits
<1>5. CASE Cardinality(cards) = MaxCards
  <2>1. Cardinality(DOMAIN brief) <= Cardinality(cards)
    BY <1>3, <1>5, InboxAssumption DEF EveryCardFits
  <2>2. IsFiniteSet(cards) /\ Cardinality(cards) \in Nat
        /\ Cardinality(cards) <= Cardinality(DOMAIN brief)
        /\ (Cardinality(cards) = Cardinality(DOMAIN brief) => cards = DOMAIN brief)
    BY <1>1, <1>3, FS_Subset, FS_CardinalityType
  <2>3. QED
    BY <1>3, <2>1, <2>2
<1>6. QED
  BY <1>4, <1>5

\* No step takes back what reached the user, and after a notification was sent
\* every signal of the brief has reached the user.
LEMMA ShownGrows ==
    ASSUME TypeOK, [Next]_vars
    PROVE  Shown \subseteq Shown'
<1>1. ASSUME NEW cards, shown' = ShownWith(cards)
      PROVE  Shown \subseteq Shown'
  BY <1>1 DEF Shown, ShownWith, TypeOK
<1>2. CASE NotifySent \/ NotifyFails
  BY <1>1, <1>2 DEF NotifySent, NotifyFails
<1>3. CASE ~NotifySent /\ ~NotifyFails
  <2>1. shown' = shown
    BY <1>3 DEF Next, RunStep, IngestLoad, RefreshLoad, MarkLoad,
                SaveStep, Save, Truncate, Flush, Saved, Abort, Crash, vars
  <2>2. QED
    BY <2>1 DEF Shown
<1>4. QED
  BY <1>2, <1>3

\* A notification that was sent adds the whole brief to what was shown.
LEMMA SentIsShown ==
    ASSUME TypeOK, EveryCardFits, NotifySent
    PROVE  \A t \in DOMAIN brief : <<t, brief[t].gen>> \in Shown'
<1>1. shown' = ShownWith(DOMAIN brief)
  BY AllCards DEF NotifySent
<1>2. ASSUME NEW t \in DOMAIN brief
      PROVE  <<t, brief[t].gen>> \in Shown'
  <2>1. brief \in Books
    BY DEF TypeOK
  <2>2. t \in Tids /\ brief[t].gen \in Gens
    BY <2>1, BookElim DEF Row, Store!Row
  <2>3. <<t, brief[t].gen>> \in Signals
    BY <2>2 DEF Signals
  <2>4. shown[<<t, brief[t].gen>>] \in Nat
    BY <2>3 DEF TypeOK
  <2>5. shown'[<<t, brief[t].gen>>] = shown[<<t, brief[t].gen>>] + 1
    BY <1>1, <2>3 DEF ShownWith
  <2>6. QED
    BY <2>3, <2>4, <2>5 DEF Shown
<1>3. QED
  BY <1>2

\* When all of the brief is shown, marks stand for shown signals.
LEMMA MarksShown ==
    ASSUME EveryCardFits
    PROVE  Spec => []MarksHave(Shown)
<1>1. Init => MarksHave(Shown)
  BY InitMarks
<1>2. TypeOK /\ MarksHave(Shown) /\ [Next]_vars => MarksHave(Shown)'
  BY ShownGrows, SentIsShown, NextMarks DEF MarksHave
<1>3. QED
  BY <1>1, <1>2, TypeCorrect, PTL DEF Spec

\* Where every card fits, a signal that the file says was briefed has reached
\* the user, in spite of overlapping and torn writes, aborts and crashes.
\* inbox_unshown shows that the assumption is needed: both renderers stop at three.
THEOREM MarkedOnlyShown ==
    ASSUME EveryCardFits
    PROVE  Spec => []MarkedWasShown
<1>1. MarksHave(Shown) => MarkedWasShown
  BY DEF MarksHave, MarksOf, Shown, MarkedWasShown
<1>2. QED
  BY <1>1, MarksShown, PTL

-----------------------------------------------------------------------------
(* The file implements the table.                                          *)

\* The initial states of the inbox are initial states of the store.
LEMMA InitStore == Init => Store!StoreInit
BY DEF Init, Store!StoreInit, EmptyBook, Store!EmptyBook, Signals

\* Notifying is Show(cards): what the run took from the file is still in it
\* and still unbriefed, since the run is the only thread that marks.
LEMMA NotifyShows ==
    ASSUME TypeOK, SerialInv, pc[Run] = "refreshed",
           NEW cards \in SUBSET DOMAIN brief, shown' = ShownWith(cards), disk' = disk
    PROVE  Store!StoreNext
<1>1. \A t \in cards : t \in DOMAIN disk.rows /\ disk.rows[t].gen = brief[t].gen /\ ~disk.rows[t].briefed
  BY DEF SerialInv
<1>2. cards \subseteq Store!Unbriefed(disk.rows)
  BY <1>1 DEF Store!Unbriefed
<1>3. shown' = [s \in Tids \X Gens |->
                   shown[s] + (IF s[1] \in cards /\ s[2] = disk.rows[s[1]].gen THEN 1 ELSE 0)]
  BY <1>1 DEF ShownWith, Signals
<1>4. Store!Show(cards)
  BY <1>2, <1>3 DEF Store!Show
<1>5. cards \in SUBSET Tids
  <2>1. brief \in Books
    BY DEF TypeOK
  <2>2. QED
    BY <2>1, BookElim
<1>6. QED
  BY <1>4, <1>5 DEF Store!StoreNext

\* Saving is the submission the caller made, or the marking of signals that
\* were shown, or the rewriting of the file with what it holds.
LEMMA SaveImplements ==
    ASSUME TypeOK, SerialInv, MarksHave(Shown), NEW p \in Threads, Save(p)
    PROVE  Store!StoreNext \/ UNCHANGED Store!storeVars
<1>1. disk'.rows = buf[p] /\ shown' = shown /\ pc[p] \in Writing
  BY DEF Save, Saved
<1>2. CASE p \in Callers
  <2>1. pc[p] = "ingest"
    BY <1>1, <1>2 DEF TypeOK, Writing
  <2>2. PICK g \in Gens : buf[p] = Store!Upsert(disk.rows, batch[p], g)
    BY <1>2, <2>1 DEF SerialInv
  <2>3. batch[p] \in Store!Batches
    BY <1>2, <2>1 DEF SerialInv
  <2>4. Store!Submit(batch[p], g)
    BY <1>1, <2>2 DEF Store!Submit
  <2>5. QED
    BY <2>3, <2>4 DEF Store!StoreNext
<1>3. CASE p = Run /\ pc[Run] = "mark"
  <2>1. PICK ts \in SUBSET Store!Unbriefed(disk.rows) : buf[Run] = Store!WithMarks(disk.rows, ts)
    BY <1>3 DEF SerialInv
  <2> DEFINE old == disk.rows
             wm == Store!WithMarks(old, ts)
  <2>2. old \in Books
    BY DEF TypeOK, Disk
  <2>3. ts \subseteq DOMAIN old
    BY <2>1 DEF Store!Unbriefed
  <2>4. MarksOf(wm, Shown)
    BY <1>3, <2>1 DEF MarksHave
  <2>5. DOMAIN old \subseteq Tids
    BY <2>2, BookElim
  <2>6. /\ DOMAIN wm = DOMAIN old
        /\ \A t \in DOMAIN old : wm[t].gen = old[t].gen /\ (wm[t].briefed <=> old[t].briefed \/ t \in ts)
    <3> HIDE DEF old
    <3>1. QED
      BY <2>2, WithMarksKeeps
  <2>7. \A t \in ts : shown[<<t, old[t].gen>>] > 0
    <3> HIDE DEF old, wm
    <3>1. \A t \in ts : <<t, old[t].gen>> \in Shown
      BY <2>3, <2>4, <2>6 DEF MarksOf
    <3>2. QED
      BY <3>1 DEF Shown
  <2>8. Store!MarkShown(ts)
    BY <1>1, <1>3, <2>1, <2>7 DEF Store!MarkShown
  <2>9. ts \in SUBSET Tids
    BY <2>3, <2>5
  <2>10. QED
    BY <2>8, <2>9 DEF Store!StoreNext
<1>4. CASE p = Run /\ pc[Run] = "refresh"
  BY <1>1, <1>4 DEF SerialInv, Store!storeVars
<1>5. QED
  BY <1>1, <1>2, <1>3, <1>4 DEF Threads, TypeOK, Writing

\* Every step of the inbox is a step of the store or a stutter.
LEMMA StepImplements ==
    ASSUME TypeOK, SerialInv, MarksHave(Shown), [Next]_vars
    PROVE  [Store!StoreNext]_Store!storeVars
<1>1. CASE NotifySent
  <2>1. PICK cards \in CardSets : shown' = ShownWith(cards)
    BY <1>1 DEF NotifySent
  <2>2. QED
    BY <1>1, <2>1, NotifyShows DEF NotifySent, CardSets
<1>2. CASE NotifyFails
  <2>1. PICK cards \in CardSets : \E out \in SUBSET cards : shown' = ShownWith(out)
    BY <1>2 DEF NotifyFails
  <2>2. QED
    BY <1>2, <2>1, NotifyShows DEF NotifyFails, CardSets
<1>3. CASE \E p \in Threads : Save(p)
  BY <1>3, SaveImplements
<1>4. CASE ~NotifySent /\ ~NotifyFails /\ ~(\E p \in Threads : Save(p))
  <2>1. \A p \in Threads : SaveStep(p) => disk'.rows = disk.rows /\ shown' = shown
    <3> SUFFICES ASSUME NEW p \in Threads, SaveStep(p)
                 PROVE  disk'.rows = disk.rows /\ shown' = shown
      OBVIOUS
    <3>1. ~Flush(p)
      BY DEF Flush, SerialInv
    <3>2. Truncate(p)
      BY <1>4, <3>1 DEF SaveStep
    <3>3. QED
      BY <3>2 DEF Truncate, TypeOK, Disk
  <2>2. /\ \A c \in Callers : SaveStep(c) => disk'.rows = disk.rows /\ shown' = shown
        /\ SaveStep(Run) => disk'.rows = disk.rows /\ shown' = shown
    BY <2>1 DEF Threads
  <2>3. disk'.rows = disk.rows /\ shown' = shown
    BY <1>4, <2>2 DEF Next, RunStep, IngestLoad, RefreshLoad, MarkLoad, Abort, Crash, vars
  <2>4. QED
    BY <2>3 DEF Store!storeVars
<1>5. QED
  BY <1>1, <1>2, <1>3, <1>4

\* With no two operations on the file overlapping and a card for every selected
\* signal, the load-modify-save code implements the atomic table of InboxStore:
\* every save is one submission, one marking of shown signals, or no change.
THEOREM InboxImplementsStore ==
    ASSUME ~Overlap, ~TornWrites, EveryCardFits
    PROVE  Spec => ImplementsStore
<1>1. TypeOK /\ SerialInv /\ MarksHave(Shown) /\ [Next]_vars => [Store!StoreNext]_Store!storeVars
  BY StepImplements
<1>2. QED
  BY <1>1, InitStore, TypeCorrect, SerialCorrect, MarksShown, PTL
     DEF Spec, ImplementsStore, Store!StoreSpec

-----------------------------------------------------------------------------
(* Repetitions.  A signal can be shown again only while some copy of the   *)
(* list still has it unbriefed: the file, the list of a thread that will   *)
(* write it back, or the brief.  Each such copy is one notification the    *)
(* signal may still get, so the account kept here is what was shown plus   *)
(* what the copies can still cause.  A run's copy follows on the file, an  *)
(* ingest call adds one, and a notification trades the brief's for a card. *)

Waiting(book, s) == s[1] \in DOMAIN book /\ book[s[1]].gen = s[2] /\ ~book[s[1]].briefed

\* The callers that will write the signal back as unbriefed.
Holders(s) == {c \in Callers : Busy(c) /\ Waiting(buf[c], s)}

InBrief(s) == s[1] \in DOMAIN brief /\ brief[s[1]].gen = s[2]

\* The list the run's next round will start from, if no caller saves before.
RunCopy == IF Busy(Run) THEN buf[Run] ELSE Load

Left(s) == Waiting(RunCopy, s) \/ (~Overlap /\ Holders(s) # {})

\* May the run show the signal once more?  Between the sending and the mark a
\* signal of the brief is about to be marked.
Pending(s) ==
    /\ pc[Run] = "refreshed" => InBrief(s) \/ Left(s)
    /\ pc[Run] = "notified" => ~InBrief(s) /\ Left(s)
    /\ pc[Run] \notin {"refreshed", "notified"} => Left(s)

Bit(b) == IF b THEN 1 ELSE 0

Paid(s) ==
    IF Overlap
    THEN shown[s] + Bit(Pending(s)) + Cardinality(Holders(s)) + s[2] <= 1 + faults + calls
    ELSE shown[s] + Bit(Pending(s)) <= 1 + faults

OldBook(book, n) == \A t \in DOMAIN book : book[t].gen <= n

Underway == {c \in Callers : pc[c] # "idle"}

\* Every list holds created signals only, and a signal that was created has paid.
AccountInv ==
    /\ IsFiniteSet(Underway)
    /\ OldBook(disk.rows, calls)
    /\ OldBook(brief, calls)
    /\ \A p \in Threads : OldBook(buf[p], calls)
    /\ \A s \in Signals : s[2] > calls => shown[s] = 0
    /\ \A s \in Signals : s[2] <= calls => Paid(s)

\* Nothing waits in the empty table, and all of it is old.
LEMMA EmptyAccount ==
    /\ \A s : ~Waiting(EmptyBook, s)
    /\ \A n : OldBook(EmptyBook, n)
BY EmptyBookType DEF Waiting, OldBook

\* The types an account is computed from.
LEMMA AccountTypes ==
    ASSUME TypeOK, NEW s \in Signals
    PROVE  /\ shown[s] \in Nat /\ s[2] \in Nat /\ s[2] \in Gens
           /\ faults \in Nat /\ calls \in Nat
           /\ s[1] \in Tids /\ s = <<s[1], s[2]>>
           /\ Run \in Threads /\ Callers \subseteq Threads /\ Run \notin Callers
BY InboxAssumption DEF TypeOK, Signals, Gens, Threads

\* Only finitely many calls are underway, so the holders of a signal can be counted.
LEMMA HoldersFinite ==
    ASSUME AccountInv, NEW s
    PROVE  IsFiniteSet(Holders(s)) /\ Cardinality(Holders(s)) \in Nat
<1>1. Holders(s) \subseteq Underway
  BY DEF Holders, Underway, Busy, Writing, Opened
<1>2. QED
  BY <1>1, FS_Subset, FS_CardinalityType DEF AccountInv

\* How the number of holders follows their set.
LEMMA CountHolders ==
    ASSUME NEW H, IsFiniteSet(H), NEW G
    PROVE  /\ Cardinality(H) \in Nat
           /\ G \subseteq H => Cardinality(G) \in Nat /\ Cardinality(G) <= Cardinality(H)
           /\ \A c : G \subseteq H \cup {c} =>
                 Cardinality(G) \in Nat /\ Cardinality(G) <= Cardinality(H) + 1
           /\ \A c \in H : G \subseteq H \ {c} =>
                 Cardinality(G) \in Nat /\ Cardinality(G) + 1 <= Cardinality(H)
<1>1. Cardinality(H) \in Nat
  BY FS_CardinalityType
<1>2. G \subseteq H => Cardinality(G) \in Nat /\ Cardinality(G) <= Cardinality(H)
  BY FS_Subset, FS_CardinalityType
<1>3. ASSUME NEW c, G \subseteq H \cup {c}
      PROVE  Cardinality(G) \in Nat /\ Cardinality(G) <= Cardinality(H) + 1
  <2>1. IsFiniteSet(H \cup {c}) /\ Cardinality(H \cup {c}) <= Cardinality(H) + 1
    BY <1>1, FS_AddElement
  <2>2. Cardinality(H \cup {c}) \in Nat
    BY <2>1, FS_CardinalityType
  <2>3. Cardinality(G) \in Nat /\ Cardinality(G) <= Cardinality(H \cup {c})
    BY <1>3, <2>1, FS_Subset, FS_CardinalityType
  <2>4. QED
    BY <1>1, <2>1, <2>2, <2>3
<1>4. ASSUME NEW c \in H, G \subseteq H \ {c}
      PROVE  Cardinality(G) \in Nat /\ Cardinality(G) + 1 <= Cardinality(H)
  <2>1. IsFiniteSet(H \ {c}) /\ Cardinality(H \ {c}) = Cardinality(H) - 1
    BY FS_RemoveElement
  <2>2. Cardinality(H \ {c}) \in Nat
    BY <2>1, FS_CardinalityType
  <2>3. Cardinality(G) \in Nat /\ Cardinality(G) <= Cardinality(H \ {c})
    BY <1>4, <2>1, FS_Subset, FS_CardinalityType
  <2>4. QED
    BY <1>1, <2>1, <2>2, <2>3
<1>5. QED
  BY <1>1, <1>2, <1>3, <1>4

\* What a load that waits for nobody leaves unsaid: without overlap, a thread
\* that loads finds no holder.
LEMMA LoaderAlone ==
    ASSUME MayLoad(Run), ~Overlap, NEW s
    PROVE  Holders(s) = {}
<1>1. \A c \in Callers : c # Run
  BY InboxAssumption
<1>2. QED
  BY <1>1 DEF MayLoad, Holders, Threads

\* A step that shows nothing and adds no copy keeps the account, and so does one
\* that pays for a copy with a fault.
LEMMA QuietPaid ==
    ASSUME TypeOK, TypeOK', AccountInv, NEW s \in Signals, Paid(s),
           shown'[s] = shown[s], calls' = calls, faults' >= faults,
           Holders(s)' \subseteq Holders(s),
           Pending(s)' => Pending(s) \/ faults' = faults + 1
    PROVE  Paid(s)'
<1>1. /\ shown[s] \in Nat /\ s[2] \in Nat /\ faults \in Nat /\ calls \in Nat /\ faults' \in Nat
  BY AccountTypes DEF TypeOK
<1>2. IsFiniteSet(Holders(s))
  BY HoldersFinite
<1>3. /\ Cardinality(Holders(s)) \in Nat /\ Cardinality(Holders(s)') \in Nat
      /\ Cardinality(Holders(s)') <= Cardinality(Holders(s))
  BY <1>2, CountHolders
<1>4. /\ Bit(Pending(s)) \in {0, 1} /\ Bit(Pending(s)') \in {0, 1}
      /\ Bit(Pending(s)') <= Bit(Pending(s)) \/ faults' = faults + 1
  BY DEF Bit
<1>5. Paid(s)' <=>
        IF Overlap
        THEN shown'[s] + Bit(Pending(s)') + Cardinality(Holders(s)') + s[2] <= 1 + faults' + calls'
        ELSE shown'[s] + Bit(Pending(s)') <= 1 + faults'
  BY DEF Paid, Bit
<1> DEFINE P == Bit(Pending(s))
           Q == Bit(Pending(s)')
           H == Cardinality(Holders(s))
           G == Cardinality(Holders(s)')
<1>6. IF Overlap THEN shown[s] + P + H + s[2] <= 1 + faults + calls
      ELSE shown[s] + P <= 1 + faults
  BY DEF Paid
<1> HIDE DEF P, Q, H, G
<1>7. /\ P \in {0, 1} /\ Q \in {0, 1} /\ H \in Nat /\ G \in Nat /\ G <= H
      /\ Q <= P \/ faults' = faults + 1
  BY <1>3, <1>4 DEF P, Q, H, G
<1>8. IF Overlap THEN shown'[s] + Q + G + s[2] <= 1 + faults' + calls'
      ELSE shown'[s] + Q <= 1 + faults'
  BY <1>1, <1>6, <1>7
<1>9. QED
  BY <1>5, <1>8 DEF Q, G

\* What a load finds is old, and what it finds waiting the file holds.
LEMMA LoadOld ==
    ASSUME AccountInv
    PROVE  OldBook(Load, calls)
BY EmptyAccount DEF Load, AccountInv

\* A row an upsert creates carries the call's serial number.
LEMMA UpsertCreates ==
    ASSUME NEW book \in Books, NEW b \in Store!Batches, NEW g \in Gens
    PROVE  \A t \in DOMAIN b \ DOMAIN book : Store!Upsert(book, b, g)[t].gen = g
BY DEF Store!Upsert

\* What an upsert leaves waiting was waiting, or is new.
LEMMA UpsertWaiting ==
    ASSUME NEW book \in Books, NEW b \in Store!Batches, NEW g \in Gens, NEW s
    PROVE  Waiting(Store!Upsert(book, b, g), s) => Waiting(book, s) \/ s[2] = g
<1> DEFINE up == Store!Upsert(book, b, g)
<1>1. /\ DOMAIN up = DOMAIN book \cup DOMAIN b
      /\ \A t \in DOMAIN book : up[t].gen = book[t].gen /\ (up[t].briefed <=> book[t].briefed)
  BY UpsertKeeps
<1>2. \A t \in DOMAIN b \ DOMAIN book : up[t].gen = g
  BY UpsertCreates
<1> HIDE DEF up
<1>3. Waiting(up, s) => Waiting(book, s) \/ s[2] = g
  BY <1>1, <1>2 DEF Waiting
<1>4. QED
  BY <1>3 DEF up

\* What an upsert returns is old once its call has begun.
LEMMA UpsertOld ==
    ASSUME NEW book \in Books, NEW b \in Store!Batches, NEW g \in Gens,
           NEW n \in Nat, OldBook(book, n), n <= g
    PROVE  OldBook(Store!Upsert(book, b, g), g)
<1> DEFINE up == Store!Upsert(book, b, g)
<1>1. /\ DOMAIN up = DOMAIN book \cup DOMAIN b
      /\ \A t \in DOMAIN book : up[t].gen = book[t].gen
  BY UpsertKeeps
<1>2. \A t \in DOMAIN b \ DOMAIN book : up[t].gen = g
  BY UpsertCreates
<1>3. \A t \in DOMAIN book : book[t].gen \in Nat
  BY BookElim DEF Row, Store!Row, Gens
<1> HIDE DEF up
<1>4. OldBook(up, g)
  BY <1>1, <1>2, <1>3 DEF OldBook, Gens
<1>5. QED
  BY <1>4 DEF up

\* What a marking leaves waiting was waiting and is not marked.
LEMMA MarksWaiting ==
    ASSUME NEW book \in Books, NEW ts, NEW s, NEW n
    PROVE  /\ Waiting(Store!WithMarks(book, ts), s) => Waiting(book, s) /\ s[1] \notin ts
           /\ OldBook(book, n) => OldBook(Store!WithMarks(book, ts), n)
<1> DEFINE wm == Store!WithMarks(book, ts)
<1>1. /\ DOMAIN wm = DOMAIN book
      /\ \A t \in DOMAIN book : wm[t].gen = book[t].gen /\ (wm[t].briefed <=> (book[t].briefed \/ t \in ts))
  BY WithMarksKeeps
<1> HIDE DEF wm
<1>2. /\ Waiting(wm, s) => Waiting(book, s) /\ s[1] \notin ts
      /\ OldBook(book, n) => OldBook(wm, n)
  BY <1>1 DEF Waiting, OldBook
<1>3. QED
  BY <1>2 DEF wm

\* What two steps of a save, Save and Flush, have in common.
Written(p) ==
    /\ pc[p] \in Writing \cup Opened
    /\ disk'.rows = buf[p]
    /\ disk'.state \in {"ok", "garbled"}
    /\ Saved(p)

\* Save and Flush put the thread's list into the file.
LEMMA SaveWrites ==
    ASSUME TypeOK, NEW p \in Threads, Save(p) \/ Flush(p)
    PROVE  Written(p)
BY DEF Save, Flush, Written

\* Nothing is waiting in what a write left behind that the list did not hold.
LEMMA WrittenLoad ==
    ASSUME TypeOK, NEW p \in Threads, Written(p), NEW s
    PROVE  Waiting(Load, s)' => Waiting(buf[p], s)
BY EmptyAccount DEF Written, Load, Waiting

\* A caller's step leaves the run alone.
LEMMA CallerWritten ==
    ASSUME TypeOK, NEW c \in Callers, Written(c)
    PROVE  /\ pc'[Run] = pc[Run] /\ buf'[Run] = buf[Run] /\ brief' = brief
           /\ pc'[c] = "idle"
           /\ \A d \in Threads \ {c} : pc'[d] = pc[d] /\ buf'[d] = buf[d]
           /\ buf'[c] = EmptyBook
           /\ UNCHANGED <<shown, calls, faults>>
BY InboxAssumption DEF Written, Saved, TypeOK, Threads

\* The run's write moves the run on and leaves the callers alone.
LEMMA RunWritten ==
    ASSUME TypeOK, Written(Run)
    PROVE  /\ \A c \in Callers : pc'[c] = pc[c] /\ buf'[c] = buf[c]
           /\ buf'[Run] = EmptyBook
           /\ \/ /\ pc'[Run] = "refreshed"
                 /\ brief' = [t \in Store!Unbriefed(buf[Run]) |-> buf[Run][t]]
              \/ /\ pc'[Run] = "idle"
                 /\ brief' = EmptyBook
           /\ UNCHANGED <<shown, calls, faults>>
BY InboxAssumption DEF Written, Saved, TypeOK, Threads

\* Every step keeps the lists old and the calls underway countable.
LEMMA NextOld ==
    ASSUME TypeOK, TypeOK', AccountInv, [Next]_vars
    PROVE  /\ IsFiniteSet(Underway)'
           /\ OldBook(disk'.rows, calls')
           /\ OldBook(brief', calls')
           /\ \A p \in Threads : OldBook(buf'[p], calls')
           /\ \A s \in Signals : s[2] > calls' => shown'[s] = 0
<1> USE InboxAssumption
<1>0. Run \in Threads /\ Callers \subseteq Threads /\ calls \in Nat
  BY DEF Threads, TypeOK
<1>a. IsFiniteSet(Underway)
  BY DEF AccountInv
<1>b. ASSUME \A c \in Callers : pc'[c] # "idle" => pc[c] # "idle"
      PROVE  IsFiniteSet(Underway)'
  <2>1. Underway' \subseteq Underway
    BY <1>b DEF Underway
  <2>2. QED
    BY <1>a, <2>1, FS_Subset
<1>1. ASSUME NEW c \in Callers, NEW b \in Store!Batches, IngestLoad(c, b)
      PROVE  /\ IsFiniteSet(Underway)'
             /\ OldBook(disk'.rows, calls')
             /\ OldBook(brief', calls')
             /\ \A p \in Threads : OldBook(buf'[p], calls')
             /\ \A s \in Signals : s[2] > calls' => shown'[s] = 0
  <2>1. calls' = calls + 1 /\ calls' \in Gens /\ UNCHANGED <<disk, brief, shown>>
    BY <1>1 DEF IngestLoad, TypeOK, Gens
  <2>2. Underway' \subseteq Underway \cup {c}
    BY <1>1 DEF IngestLoad, TypeOK, Underway
  <2>3. IsFiniteSet(Underway)'
    BY <1>a, <2>2, FS_AddElement, FS_Subset
  <2>4. \A book \in Books : OldBook(book, calls) => OldBook(book, calls')
    <3> SUFFICES ASSUME NEW book \in Books, OldBook(book, calls), NEW t \in DOMAIN book
                 PROVE  book[t].gen <= calls'
      BY DEF OldBook
    <3>1. book[t].gen \in Nat
      BY BookElim DEF Row, Store!Row, Gens
    <3>2. QED
      BY <1>0, <2>1, <3>1 DEF OldBook
  <2>5. OldBook(buf'[c], calls')
    <3>1. OldBook(Store!Upsert(Load, b, calls'), calls')
      BY <1>0, <2>1, LoadType, LoadOld, UpsertOld
    <3>2. buf'[c] = Store!Upsert(Load, b, calls')
      BY <1>0, <1>1 DEF IngestLoad, TypeOK
    <3>3. QED
      BY <3>1, <3>2
  <2>6. \A p \in Threads : OldBook(buf'[p], calls')
    <3>1. \A p \in Threads \ {c} : buf'[p] = buf[p] /\ buf[p] \in Books
      BY <1>1 DEF IngestLoad, TypeOK
    <3>2. QED
      BY <2>4, <2>5, <3>1 DEF AccountInv
  <2>7. OldBook(disk'.rows, calls') /\ OldBook(brief', calls')
    BY <2>1, <2>4 DEF AccountInv, TypeOK, Disk
  <2>8. \A s \in Signals : s[2] > calls' => shown'[s] = 0
    BY <1>0, <2>1 DEF AccountInv, Signals, Gens
  <2>9. QED
    BY <2>3, <2>6, <2>7, <2>8
<1>2. CASE RefreshLoad
  <2>1. \A p \in Threads : OldBook(buf'[p], calls)
    BY <1>2, LoadOld DEF RefreshLoad, TypeOK, AccountInv
  <2>2. IsFiniteSet(Underway)'
    BY <1>b, <1>2 DEF RefreshLoad, TypeOK
  <2>3. QED
    BY <1>2, <2>1, <2>2, EmptyAccount DEF RefreshLoad, AccountInv
<1>3. ASSUME NEW cards, shown' = ShownWith(cards), cards \subseteq DOMAIN brief, calls' = calls
      PROVE  \A s \in Signals : s[2] > calls' => shown'[s] = 0
  <2> SUFFICES ASSUME NEW s \in Signals, s[2] > calls PROVE shown'[s] = 0
    BY <1>3
  <2>1. ~(s[1] \in cards /\ s[2] = brief[s[1]].gen)
    <3>1. s[2] \in Nat
      BY DEF Signals, Gens
    <3>2. QED
      BY <1>0, <1>3, <3>1 DEF AccountInv, OldBook
  <2>2. QED
    BY <1>3, <2>1 DEF ShownWith, AccountInv, TypeOK
<1>4. CASE NotifySent
  <2>1. \A s \in Signals : s[2] > calls' => shown'[s] = 0
    BY <1>3, <1>4 DEF NotifySent, CardSets
  <2>2. IsFiniteSet(Underway)'
    BY <1>b, <1>4 DEF NotifySent, TypeOK
  <2>3. QED
    BY <1>4, <2>1, <2>2 DEF NotifySent, AccountInv
<1>5. CASE NotifyFails
  <2>1. \A s \in Signals : s[2] > calls' => shown'[s] = 0
    BY <1>3, <1>5 DEF NotifyFails, CardSets
  <2>2. IsFiniteSet(Underway)'
    BY <1>b, <1>5 DEF NotifyFails, TypeOK
  <2>3. QED
    BY <1>5, <2>1, <2>2, EmptyAccount DEF NotifyFails, AccountInv
<1>6. CASE MarkLoad
  <2>1. OldBook(Store!WithMarks(Load, Marked(Load)), calls)
    BY LoadType, LoadOld, MarksWaiting
  <2>2. \A p \in Threads : OldBook(buf'[p], calls)
    BY <1>6, <2>1, EmptyAccount DEF MarkLoad, TypeOK, AccountInv
  <2>3. IsFiniteSet(Underway)'
    BY <1>b, <1>6 DEF MarkLoad, TypeOK
  <2>4. QED
    BY <1>6, <2>2, <2>3, EmptyAccount DEF MarkLoad, AccountInv
<1>7. ASSUME NEW p \in Threads, SaveStep(p)
      PROVE  /\ IsFiniteSet(Underway)'
             /\ OldBook(disk'.rows, calls')
             /\ OldBook(brief', calls')
             /\ \A q \in Threads : OldBook(buf'[q], calls')
             /\ \A s \in Signals : s[2] > calls' => shown'[s] = 0
  <2>1. CASE Truncate(p)
    <3>1. IsFiniteSet(Underway)'
      BY <1>b, <2>1 DEF Truncate, TypeOK, Writing
    <3>2. disk'.rows = disk.rows
      BY <2>1 DEF Truncate, TypeOK, Disk
    <3>3. QED
      BY <2>1, <3>1, <3>2 DEF Truncate, AccountInv
  <2>2. CASE Save(p) \/ Flush(p)
    <3>1. Written(p)
      BY <2>2, SaveWrites
    <3>2. CASE p = Run
      <4>1. IsFiniteSet(Underway)'
        BY <1>b, <3>1, <3>2, RunWritten
      <4>2. OldBook([t \in Store!Unbriefed(buf[Run]) |-> buf[Run][t]], calls)
        BY <1>0 DEF AccountInv, OldBook, Store!Unbriefed
      <4>3. OldBook(brief', calls)
        BY <3>1, <3>2, <4>2, RunWritten, EmptyAccount
      <4>4. \A q \in Threads : OldBook(buf'[q], calls)
        BY <3>1, <3>2, RunWritten, EmptyAccount DEF AccountInv, Threads
      <4>5. UNCHANGED <<shown, calls>> /\ disk'.rows = buf[Run]
        BY <3>1, <3>2, RunWritten DEF Written
      <4>6. QED
        BY <1>0, <4>1, <4>3, <4>4, <4>5 DEF AccountInv
    <3>3. CASE p \in Callers
      <4>1. IsFiniteSet(Underway)'
        BY <1>b, <3>1, <3>3, <1>0, CallerWritten
      <4>2. \A q \in Threads : OldBook(buf'[q], calls)
        BY <3>1, <3>3, CallerWritten, EmptyAccount DEF AccountInv
      <4>3. UNCHANGED <<shown, calls, brief>> /\ disk'.rows = buf[p]
        BY <3>1, <3>3, CallerWritten DEF Written
      <4>4. QED
        BY <1>0, <4>1, <4>2, <4>3 DEF AccountInv
    <3>4. QED
      BY <3>2, <3>3 DEF Threads
  <2>3. QED
    BY <1>7, <2>1, <2>2 DEF SaveStep
<1>8. ASSUME NEW p \in Threads, Abort(p)
      PROVE  /\ IsFiniteSet(Underway)'
             /\ OldBook(disk'.rows, calls')
             /\ OldBook(brief', calls')
             /\ \A q \in Threads : OldBook(buf'[q], calls')
             /\ \A s \in Signals : s[2] > calls' => shown'[s] = 0
  <2>1. IsFiniteSet(Underway)'
    BY <1>b, <1>8 DEF Abort, TypeOK
  <2>2. QED
    BY <1>8, <2>1, EmptyAccount DEF Abort, AccountInv, TypeOK
<1>9. CASE Crash
  <2>1. IsFiniteSet(Underway)'
    BY <1>b, <1>9, <1>0 DEF Crash
  <2>2. QED
    BY <1>9, <2>1, EmptyAccount DEF Crash, AccountInv
<1>10. CASE UNCHANGED vars
  <2>1. IsFiniteSet(Underway)'
    BY <1>b, <1>10 DEF vars
  <2>2. QED
    BY <1>10, <2>1 DEF vars, AccountInv
<1>11. QED
  BY <1>0, <1>1, <1>2, <1>4, <1>5, <1>6, <1>7, <1>8, <1>9, <1>10 DEF Next, RunStep

\* Without a created row there is nothing to wait for.
LEMMA NotCreated ==
    ASSUME TypeOK, AccountInv, NEW s \in Signals, s[2] > calls
    PROVE  /\ \A p \in Threads : ~Waiting(buf[p], s)
           /\ ~Waiting(Load, s) /\ ~InBrief(s) /\ shown[s] = 0
<1>1. calls \in Nat /\ s[2] \in Nat
  BY AccountTypes
<1>2. \A book : OldBook(book, calls) /\ s[1] \in DOMAIN book => book[s[1]].gen # s[2]
  BY <1>1 DEF OldBook
<1>3. OldBook(Load, calls)
  BY LoadOld
<1>4. QED
  BY <1>2, <1>3 DEF AccountInv, Waiting, InBrief

\* A call begun after the signal was created pays for the copy it loads; where
\* calls do not overlap its copy replaces the file's.
LEMMA IngestPaid ==
    ASSUME TypeOK, TypeOK', AccountInv, NEW c \in Callers, NEW b \in Store!Batches,
           IngestLoad(c, b), NEW s \in Signals, s[2] <= calls'
    PROVE  Paid(s)'
<1>0. /\ shown[s] \in Nat /\ s[2] \in Nat /\ faults \in Nat /\ calls \in Nat
      /\ Run \in Threads /\ Callers \subseteq Threads /\ Run \notin Callers
  BY AccountTypes
<1>1. /\ calls' = calls + 1 /\ calls' \in Gens
      /\ buf'[c] = Store!Upsert(Load, b, calls')
      /\ pc[c] = "idle"
      /\ \A p \in Threads \ {c} : pc'[p] = pc[p] /\ buf'[p] = buf[p]
      /\ UNCHANGED <<disk, brief, shown, faults>>
      /\ MayLoad(c)
  BY <1>0 DEF IngestLoad, TypeOK, Gens
<1>2. pc'[Run] = pc[Run] /\ buf'[Run] = buf[Run] /\ Load' = Load
  BY <1>0, <1>1 DEF Load
<1>3. Waiting(RunCopy, s)' <=> Waiting(RunCopy, s)
  BY <1>2 DEF RunCopy, Busy, Waiting
<1>4. InBrief(s)' <=> InBrief(s)
  BY <1>1 DEF InBrief
<1>5. Holders(s)' \subseteq Holders(s) \cup {c}
  BY <1>0, <1>1 DEF Holders, Busy, Waiting
<1>6. /\ IsFiniteSet(Holders(s)) /\ Cardinality(Holders(s)) \in Nat
      /\ Cardinality(Holders(s)') \in Nat
      /\ Cardinality(Holders(s)') <= Cardinality(Holders(s)) + 1
  BY <1>5, HoldersFinite, CountHolders
<1>7. CASE s[2] <= calls
  <2>1. Paid(s)
    BY <1>7 DEF AccountInv
  <2>2. CASE Overlap
    <3>1. Left(s)' <=> Left(s)
      BY <1>3, <2>2 DEF Left
    <3>2. Pending(s)' <=> Pending(s)
      BY <1>2, <1>4, <3>1 DEF Pending
    <3>3. Bit(Pending(s)') = Bit(Pending(s)) /\ Bit(Pending(s)) \in {0, 1}
      BY <3>2 DEF Bit
    <3>4. shown[s] + Bit(Pending(s)) + Cardinality(Holders(s)) + s[2] <= 1 + faults + calls
      BY <2>1, <2>2 DEF Paid
    <3> DEFINE Q == Bit(Pending(s)')
               G == Cardinality(Holders(s)')
    <3>5. shown[s] + Q + G + s[2] <= 1 + faults + (calls + 1)
      <4> DEFINE P == Bit(Pending(s))
                 H == Cardinality(Holders(s))
      <4> HIDE DEF P, Q, H, G
      <4>1. Q = P /\ P \in {0, 1} /\ H \in Nat /\ G \in Nat /\ G <= H + 1
            /\ shown[s] + P + H + s[2] <= 1 + faults + calls
        BY <1>6, <3>3, <3>4 DEF P, Q, H, G
      <4>2. QED
        BY <1>0, <4>1
    <3>6. QED
      BY <1>1, <2>2, <3>5 DEF Paid, Bit
  <2>3. CASE ~Overlap
    <3>1. Left(s)' => Left(s)
      <4> SUFFICES ASSUME Left(s)', ~Waiting(RunCopy, s)
                   PROVE  Holders(s) # {}
        BY <2>3 DEF Left
      <4>1. Holders(s)' # {}
        BY <1>3 DEF Left
      <4>2. CASE c \in Holders(s)'
        <5>1. Waiting(Store!Upsert(Load, b, calls'), s)
          BY <1>1, <4>2 DEF Holders, Waiting
        <5>2. Waiting(Load, s)
          BY <1>0, <1>1, <1>7, <5>1, LoadType, UpsertWaiting
        <5>3. ~Busy(Run)
          BY <1>0, <1>1, <2>3 DEF MayLoad
        <5>4. QED
          BY <5>2, <5>3 DEF RunCopy
      <4>3. QED
        BY <1>5, <4>1, <4>2
    <3>2. Pending(s)' => Pending(s)
      BY <1>2, <1>4, <3>1 DEF Pending
    <3>3. Bit(Pending(s)') <= Bit(Pending(s)) /\ Bit(Pending(s)) \in Nat /\ Bit(Pending(s)') \in Nat
      BY <3>2 DEF Bit
    <3>4. shown[s] + Bit(Pending(s)) <= 1 + faults
      BY <2>1, <2>3 DEF Paid
    <3>5. shown[s] + Bit(Pending(s)') <= 1 + faults
      BY <1>0, <3>3, <3>4
    <3>6. QED
      BY <1>1, <2>3, <3>5 DEF Paid, Bit
  <2>4. QED
    BY <2>2, <2>3
<1>8. CASE s[2] = calls'
  <2>1. /\ \A p \in Threads : ~Waiting(buf[p], s)
        /\ ~Waiting(Load, s) /\ ~InBrief(s) /\ shown[s] = 0
    BY <1>0, <1>1, <1>8, NotCreated
  <2>2. Holders(s) = {}
    BY <1>0, <2>1 DEF Holders
  <2>3. CASE Overlap
    <3>1. ~Left(s)'
      BY <1>0, <1>3, <2>1, <2>3 DEF Left, RunCopy
    <3>2. ~Pending(s)'
      BY <1>4, <2>1, <3>1 DEF Pending
    <3>3. Bit(Pending(s)') = 0
      BY <3>2 DEF Bit
    <3>4. Cardinality(Holders(s)') \in Nat /\ Cardinality(Holders(s)') <= 1
      BY <1>6, <2>2, FS_EmptySet
    <3>5. shown[s] + Bit(Pending(s)') + Cardinality(Holders(s)') + s[2] <= 1 + faults + calls'
      BY <1>0, <1>1, <1>8, <2>1, <3>3, <3>4
    <3>6. QED
      BY <1>1, <2>3, <3>5 DEF Paid, Bit
  <2>4. CASE ~Overlap
    <3>1. Bit(Pending(s)') \in {0, 1}
      BY DEF Bit
    <3>2. shown[s] + Bit(Pending(s)') <= 1 + faults
      BY <1>0, <2>1, <3>1
    <3>3. QED
      BY <1>1, <2>4, <3>2 DEF Paid, Bit
  <2>5. QED
    BY <2>3, <2>4
<1>9. QED
  BY <1>0, <1>1, <1>7, <1>8

\* A step that leaves every caller alone leaves the holders alone.
LEMMA SameHolders ==
    ASSUME NEW s, \A c \in Callers : pc'[c] = pc[c] /\ buf'[c] = buf[c]
    PROVE  Holders(s)' = Holders(s)
BY DEF Holders, Busy, Waiting

\* Sending trades the brief's copy of a signal for a card, or for the mark to come.
LEMMA NotifySentPaid ==
    ASSUME TypeOK, TypeOK', AccountInv, NotifySent, NEW s \in Signals, s[2] <= calls'
    PROVE  Paid(s)'
<1>0. /\ shown[s] \in Nat /\ s[2] \in Nat /\ faults \in Nat /\ calls \in Nat
      /\ Run \in Threads /\ Callers \subseteq Threads /\ Run \notin Callers
  BY AccountTypes
<1>1. /\ pc[Run] = "refreshed" /\ UNCHANGED <<disk, buf, brief, calls, faults>>
      /\ \A c \in Callers : pc'[c] = pc[c] /\ buf'[c] = buf[c]
      /\ pc'[Run] = IF DOMAIN brief = {} THEN "idle" ELSE "notified"
  BY <1>0 DEF NotifySent, TypeOK
<1>2. Holders(s)' = Holders(s)
  BY <1>1, SameHolders
<1>3. Load' = Load /\ ~Busy(Run) /\ ~Busy(Run)'
  BY <1>1 DEF Load, Busy, Writing, Opened
<1>4. Left(s)' <=> Left(s)
  BY <1>2, <1>3 DEF Left, RunCopy, Waiting
<1>5. InBrief(s)' <=> InBrief(s)
  BY <1>1 DEF InBrief
<1>6. Pending(s) <=> InBrief(s) \/ Left(s)
  BY <1>1 DEF Pending
<1>7. Pending(s)' <=> ~InBrief(s) /\ Left(s)
  BY <1>1, <1>4, <1>5 DEF Pending, InBrief
<1>8. shown'[s] = shown[s] \/ (InBrief(s) /\ shown'[s] = shown[s] + 1)
  BY <1>0 DEF NotifySent, ShownWith, InBrief, CardSets
<1>9. Paid(s)
  BY <1>1 DEF AccountInv
<1>10. shown'[s] + Bit(Pending(s)') <= shown[s] + Bit(Pending(s)) /\ shown'[s] \in Nat
       /\ Bit(Pending(s)) \in Nat /\ Bit(Pending(s)') \in Nat
  BY <1>0, <1>6, <1>7, <1>8 DEF Bit
<1> DEFINE P == Bit(Pending(s))
           Q == Bit(Pending(s)')
<1>11. Cardinality(Holders(s)) \in Nat
  BY HoldersFinite
<1>12. IF Overlap THEN shown[s] + P + Cardinality(Holders(s)) + s[2] <= 1 + faults + calls
       ELSE shown[s] + P <= 1 + faults
  BY <1>9 DEF Paid
<1>13. IF Overlap THEN shown'[s] + Q + Cardinality(Holders(s)) + s[2] <= 1 + faults + calls
       ELSE shown'[s] + Q <= 1 + faults
  <2> HIDE DEF P, Q
  <2>1. shown'[s] + Q <= shown[s] + P /\ shown'[s] \in Nat /\ P \in Nat /\ Q \in Nat
    BY <1>10 DEF P, Q
  <2>2. QED
    BY <1>0, <1>11, <1>12, <2>1
<1>14. QED
  BY <1>1, <1>2, <1>13 DEF Paid, Bit

\* A notification that failed may have shown the signal and leaves it unmarked:
\* the fault pays.
LEMMA NotifyFailsPaid ==
    ASSUME TypeOK, TypeOK', AccountInv, NotifyFails, NEW s \in Signals, s[2] <= calls'
    PROVE  Paid(s)'
<1>0. /\ shown[s] \in Nat /\ s[2] \in Nat /\ faults \in Nat /\ calls \in Nat
      /\ Run \in Threads /\ Callers \subseteq Threads /\ Run \notin Callers
  BY AccountTypes
<1>1. /\ pc[Run] = "refreshed" /\ UNCHANGED <<disk, buf, calls>> /\ faults' = faults + 1
      /\ \A c \in Callers : pc'[c] = pc[c] /\ buf'[c] = buf[c]
      /\ pc'[Run] = "idle"
  BY <1>0 DEF NotifyFails, TypeOK
<1>2. Holders(s)' = Holders(s)
  BY <1>1, SameHolders
<1>3. Load' = Load /\ ~Busy(Run) /\ ~Busy(Run)'
  BY <1>1 DEF Load, Busy, Writing, Opened
<1>4. Left(s)' <=> Left(s)
  BY <1>2, <1>3 DEF Left, RunCopy, Waiting
<1>5. Pending(s) <=> InBrief(s) \/ Left(s)
  BY <1>1 DEF Pending
<1>6. Pending(s)' <=> Left(s)
  BY <1>1, <1>4 DEF Pending
<1>7. shown'[s] = shown[s] \/ (InBrief(s) /\ shown'[s] = shown[s] + 1)
  BY <1>0 DEF NotifyFails, ShownWith, InBrief, CardSets
<1>8. Paid(s)
  BY <1>1 DEF AccountInv
<1>9. shown'[s] + Bit(Pending(s)') <= shown[s] + Bit(Pending(s)) + 1 /\ shown'[s] \in Nat
      /\ Bit(Pending(s)) \in Nat /\ Bit(Pending(s)') \in Nat
  BY <1>0, <1>5, <1>6, <1>7 DEF Bit
<1> DEFINE P == Bit(Pending(s))
           Q == Bit(Pending(s)')
<1>10. Cardinality(Holders(s)) \in Nat
  BY HoldersFinite
<1>11. IF Overlap THEN shown[s] + P + Cardinality(Holders(s)) + s[2] <= 1 + faults + calls
       ELSE shown[s] + P <= 1 + faults
  BY <1>8 DEF Paid
<1>12. IF Overlap THEN shown'[s] + Q + Cardinality(Holders(s)) + s[2] <= 1 + faults' + calls
       ELSE shown'[s] + Q <= 1 + faults'
  <2> HIDE DEF P, Q
  <2>1. shown'[s] + Q <= shown[s] + P + 1 /\ shown'[s] \in Nat /\ P \in Nat /\ Q \in Nat
    BY <1>9 DEF P, Q
  <2>2. QED
    BY <1>0, <1>1, <1>10, <1>11, <2>1
<1>13. QED
  BY <1>1, <1>2, <1>12 DEF Paid, Bit

\* A caller's write takes the caller's copy to the file.
LEMMA CallerPaid ==
    ASSUME TypeOK, TypeOK', AccountInv, NEW c \in Callers, Written(c),
           NEW s \in Signals, s[2] <= calls'
    PROVE  Paid(s)'
<1>0. /\ shown[s] \in Nat /\ s[2] \in Nat /\ faults \in Nat /\ calls \in Nat
      /\ Run \in Threads /\ Callers \subseteq Threads /\ Run \notin Callers
  BY AccountTypes
<1>1. /\ pc'[Run] = pc[Run] /\ buf'[Run] = buf[Run] /\ brief' = brief
      /\ pc'[c] = "idle"
      /\ \A d \in Threads \ {c} : pc'[d] = pc[d] /\ buf'[d] = buf[d]
      /\ UNCHANGED <<shown, calls, faults>>
  BY CallerWritten
<1>2. Paid(s)
  BY <1>1 DEF AccountInv
<1>3. Holders(s)' \subseteq Holders(s) \ {c}
  BY <1>0, <1>1 DEF Holders, Busy, Waiting, Writing, Opened
<1>4. InBrief(s)' <=> InBrief(s)
  BY <1>1 DEF InBrief
<1>5. Waiting(Load, s)' => Waiting(buf[c], s)
  BY <1>0, WrittenLoad
<1>6. Waiting(RunCopy, s)' => Waiting(RunCopy, s) \/ Waiting(buf[c], s)
  BY <1>1, <1>5 DEF RunCopy, Busy, Waiting
<1>7. CASE c \notin Holders(s)
  <2>1. ~Waiting(buf[c], s)
    BY <1>7 DEF Holders, Written, Busy
  <2>2. Left(s)' => Left(s)
    BY <1>3, <1>6, <2>1 DEF Left
  <2>3. Pending(s)' => Pending(s)
    BY <1>1, <1>4, <2>2 DEF Pending
  <2>4. QED
    BY <1>0, <1>1, <1>2, <1>3, <2>3, QuietPaid
<1>8. CASE c \in Holders(s) /\ ~Overlap
  <2>1. Left(s)
    BY <1>8 DEF Left
  <2>2. Pending(s)' => Pending(s)
    BY <1>1, <1>4, <2>1 DEF Pending
  <2>3. QED
    BY <1>0, <1>1, <1>2, <1>3, <2>2, QuietPaid
<1>9. CASE c \in Holders(s) /\ Overlap
  <2>1. /\ IsFiniteSet(Holders(s)) /\ Cardinality(Holders(s)) \in Nat
        /\ Cardinality(Holders(s)') \in Nat
        /\ Cardinality(Holders(s)') + 1 <= Cardinality(Holders(s))
    BY <1>3, <1>9, HoldersFinite, CountHolders
  <2> DEFINE P == Bit(Pending(s))
             Q == Bit(Pending(s)')
             H == Cardinality(Holders(s))
             G == Cardinality(Holders(s)')
  <2>2. P \in {0, 1} /\ Q \in {0, 1}
    BY DEF Bit
  <2>3. shown[s] + P + H + s[2] <= 1 + faults + calls
    BY <1>2, <1>9 DEF Paid
  <2>4. shown[s] + Q + G + s[2] <= 1 + faults + calls
    <3>1. H \in Nat /\ G \in Nat /\ G + 1 <= H
      BY <2>1
    <3> HIDE DEF P, Q, H, G
    <3>2. QED
      BY <1>0, <2>2, <2>3, <3>1
  <2>5. QED
    BY <1>1, <1>9, <2>4 DEF Paid, Bit
<1>10. QED
  BY <1>7, <1>8, <1>9

\* The run's write takes its copy to the file and, after a refresh, to the brief.
LEMMA RunPaid ==
    ASSUME TypeOK, TypeOK', AccountInv, Written(Run), NEW s \in Signals, s[2] <= calls'
    PROVE  Paid(s)'
<1>0. /\ faults \in Nat /\ Run \in Threads
  BY AccountTypes
<1>1. /\ \A c \in Callers : pc'[c] = pc[c] /\ buf'[c] = buf[c]
      /\ UNCHANGED <<shown, calls, faults>>
  BY RunWritten
<1>2. Paid(s)
  BY <1>1 DEF AccountInv
<1>3. Holders(s)' = Holders(s)
  BY <1>1, SameHolders
<1>4. pc[Run] \in Writing \cup Opened /\ pc'[Run] \in {"refreshed", "idle"}
  BY RunWritten DEF Written
<1>5. Waiting(RunCopy, s) <=> Waiting(buf[Run], s)
  BY <1>4 DEF RunCopy, Busy
<1>6. Waiting(RunCopy, s)' => Waiting(buf[Run], s)
  <2>1. ~Busy(Run)'
    BY <1>4 DEF Busy, Writing, Opened
  <2>2. RunCopy' = Load'
    BY <2>1 DEF RunCopy
  <2>3. Waiting(Load, s)' => Waiting(buf[Run], s)
    BY <1>0, WrittenLoad
  <2>4. QED
    BY <2>2, <2>3 DEF Waiting
<1>7. pc'[Run] = "refreshed" => (InBrief(s)' => Waiting(buf[Run], s))
  <2> SUFFICES ASSUME pc'[Run] = "refreshed", InBrief(s)'
               PROVE  Waiting(buf[Run], s)
    OBVIOUS
  <2>1. brief' = [t \in Store!Unbriefed(buf[Run]) |-> buf[Run][t]]
    BY RunWritten
  <2>2. QED
    BY <2>1 DEF InBrief, Waiting, Store!Unbriefed
<1>8. Pending(s)' => Left(s)
  BY <1>3, <1>4, <1>5, <1>6, <1>7 DEF Pending, Left
<1>9. Left(s) => Pending(s)
  BY <1>4 DEF Pending, Writing, Opened
<1>10. QED
  BY <1>0, <1>1, <1>2, <1>3, <1>8, <1>9, QuietPaid

\* A refresh starts from what the file holds.
LEMMA RefreshPaid ==
    ASSUME TypeOK, TypeOK', AccountInv, RefreshLoad, NEW s \in Signals, s[2] <= calls'
    PROVE  Paid(s)'
<1>0. faults \in Nat /\ Run \in Threads /\ Callers \subseteq Threads /\ Run \notin Callers
  BY AccountTypes
<1>1. /\ \A c \in Callers : pc'[c] = pc[c] /\ buf'[c] = buf[c]
      /\ UNCHANGED <<disk, shown, calls, faults>>
      /\ buf'[Run] = Load /\ pc'[Run] \in {"refresh", "refreshed"} /\ brief' = EmptyBook
      /\ pc[Run] = "idle"
  BY <1>0 DEF RefreshLoad, TypeOK
<1>2. Paid(s)
  BY <1>1 DEF AccountInv
<1>3. Holders(s)' = Holders(s)
  BY <1>1, SameHolders
<1>4. RunCopy = Load /\ RunCopy' = Load
  BY <1>1 DEF RunCopy, Busy, Writing, Opened, Load
<1>5. Waiting(RunCopy, s)' <=> Waiting(RunCopy, s)
  BY <1>4 DEF Waiting
<1>6. ~InBrief(s)'
  BY <1>1, EmptyBookType DEF InBrief
<1>7. Pending(s)' => Pending(s)
  BY <1>1, <1>3, <1>5, <1>6 DEF Pending, Left
<1>8. QED
  BY <1>0, <1>1, <1>2, <1>3, <1>7, QuietPaid

\* The marks take what the brief held out of what is waiting.
LEMMA MarkPaid ==
    ASSUME TypeOK, TypeOK', AccountInv, MarkLoad, NEW s \in Signals, s[2] <= calls'
    PROVE  Paid(s)'
<1>0. faults \in Nat /\ Run \in Threads /\ Callers \subseteq Threads /\ Run \notin Callers
  BY AccountTypes
<1>1. /\ \A c \in Callers : pc'[c] = pc[c] /\ buf'[c] = buf[c]
      /\ UNCHANGED <<disk, shown, calls, faults>>
      /\ pc[Run] = "notified" /\ MayLoad(Run)
      /\ pc'[Run] = IF Marked(Load) = {} THEN "idle" ELSE "mark"
      /\ Marked(Load) # {} => buf'[Run] = Store!WithMarks(Load, Marked(Load))
  BY <1>0 DEF MarkLoad, TypeOK
<1>2. Paid(s)
  BY <1>1 DEF AccountInv
<1>3. Holders(s)' = Holders(s)
  BY <1>1, SameHolders
<1>4. RunCopy = Load /\ Load' = Load
  BY <1>1 DEF RunCopy, Busy, Writing, Opened, Load
<1>5. Waiting(Load, s) /\ InBrief(s) => s[1] \in Marked(Load)
  BY DEF Waiting, InBrief, Marked, Store!Unbriefed
<1>6. Waiting(RunCopy, s)' => Waiting(Load, s) /\ ~InBrief(s)
  <2>1. CASE Marked(Load) = {}
    <3>1. RunCopy' = Load
      BY <1>1, <1>4, <2>1 DEF RunCopy, Busy, Writing, Opened
    <3>2. QED
      BY <1>5, <2>1, <3>1 DEF Waiting
  <2>2. CASE Marked(Load) # {}
    <3>1. RunCopy' = Store!WithMarks(Load, Marked(Load))
      BY <1>1, <2>2 DEF RunCopy, Busy, Writing
    <3>2. Waiting(Store!WithMarks(Load, Marked(Load)), s) => Waiting(Load, s) /\ s[1] \notin Marked(Load)
      BY LoadType, MarksWaiting
    <3>3. Waiting(RunCopy, s)' <=> Waiting(Store!WithMarks(Load, Marked(Load)), s)
      BY <3>1 DEF Waiting
    <3>4. QED
      BY <1>5, <3>2, <3>3
  <2>3. QED
    BY <2>1, <2>2
<1>7. ~Overlap => Holders(s) = {}
  BY <1>1, LoaderAlone
<1>8. Left(s)' => Left(s) /\ ~InBrief(s)
  BY <1>3, <1>4, <1>6, <1>7 DEF Left
<1>9. Pending(s)' => Pending(s)
  BY <1>1, <1>8 DEF Pending
<1>10. QED
  BY <1>0, <1>1, <1>2, <1>3, <1>9, QuietPaid

\* Truncating the file takes its copies away for as long as it is empty.
LEMMA TruncatePaid ==
    ASSUME TypeOK, TypeOK', AccountInv, NEW p \in Threads, Truncate(p),
           NEW s \in Signals, s[2] <= calls'
    PROVE  Paid(s)'
<1>0. faults \in Nat /\ Run \in Threads /\ Callers \subseteq Threads /\ Run \notin Callers
  BY AccountTypes
<1>1. /\ UNCHANGED <<buf, brief, shown, calls, faults>>
      /\ Load' = EmptyBook
      /\ \A q \in Threads : pc'[q] = pc[q] \/ (pc[q] \in Writing /\ pc'[q] \in Opened)
  BY DEF Truncate, TypeOK, Disk, Load, Writing, Opened
<1>2. Paid(s)
  BY <1>1 DEF AccountInv
<1>3. \A q \in Threads : Busy(q)' <=> Busy(q)
  BY <1>1 DEF Busy
<1>4. Holders(s)' = Holders(s)
  BY <1>0, <1>1, <1>3 DEF Holders, Waiting
<1>5. Waiting(RunCopy, s)' => Waiting(RunCopy, s)
  BY <1>0, <1>1, <1>3, EmptyAccount DEF RunCopy, Waiting
<1>6. InBrief(s)' <=> InBrief(s)
  BY <1>1 DEF InBrief
<1>7. /\ pc'[Run] = "refreshed" <=> pc[Run] = "refreshed"
      /\ pc'[Run] = "notified" <=> pc[Run] = "notified"
  BY <1>0, <1>1 DEF Writing, Opened
<1>8. Pending(s)' => Pending(s)
  BY <1>4, <1>5, <1>6, <1>7 DEF Pending, Left
<1>9. QED
  BY <1>0, <1>1, <1>2, <1>4, <1>8, QuietPaid

\* Every step keeps the account.
LEMMA NextAccount ==
    ASSUME TypeOK, TypeOK', AccountInv, [Next]_vars
    PROVE  AccountInv'
<1>0. Run \in Threads /\ Callers \subseteq Threads /\ Run \notin Callers
  BY InboxAssumption DEF Threads
<1>1. SUFFICES ASSUME NEW s \in Signals, s[2] <= calls'
               PROVE  Paid(s)'
  BY NextOld DEF AccountInv
<1>2. ASSUME NEW p \in Threads, SaveStep(p)
      PROVE  Paid(s)'
  <2>1. CASE Truncate(p)
    BY <1>1, <2>1, TruncatePaid
  <2>2. CASE Save(p) \/ Flush(p)
    BY <1>1, <2>2, SaveWrites, CallerPaid, RunPaid DEF Threads
  <2>3. QED
    BY <1>2, <2>1, <2>2 DEF SaveStep
<1>3. ASSUME faults' = faults + 1, UNCHANGED <<shown, calls>>,
             \A c \in Callers :
                 pc'[c] = "idle" \/ (pc'[c] = pc[c] /\ buf'[c] = buf[c])
      PROVE  Paid(s)'
  <2>1. Holders(s)' \subseteq Holders(s)
    BY <1>3 DEF Holders, Busy, Writing, Opened, Waiting
  <2>2. Paid(s) /\ faults \in Nat
    BY <1>1, <1>3, AccountTypes DEF AccountInv
  <2>3. QED
    BY <1>3, <2>1, <2>2, QuietPaid
<1>4. ASSUME NEW p \in Threads, Abort(p)
      PROVE  Paid(s)'
  BY <1>0, <1>3, <1>4 DEF Abort, TypeOK
<1>5. CASE Crash
  BY <1>0, <1>3, <1>5 DEF Crash
<1>6. CASE UNCHANGED vars
  <2>1. /\ Holders(s)' = Holders(s) /\ (Pending(s)' <=> Pending(s))
        /\ UNCHANGED <<shown, calls, faults>>
    BY <1>6 DEF vars, Holders, Busy, Waiting, Pending, Left, RunCopy, Load, InBrief
  <2>2. Paid(s) /\ faults \in Nat
    BY <1>1, <2>1, AccountTypes DEF AccountInv
  <2>3. QED
    BY <2>1, <2>2, QuietPaid
<1>7. QED
  BY <1>0, <1>1, <1>2, <1>4, <1>5, <1>6, IngestPaid, RefreshPaid, NotifySentPaid,
     NotifyFailsPaid, MarkPaid DEF Next, RunStep

\* Nothing is shown at the start, and no copy waits.
LEMMA InitAccount == Init => AccountInv
<1> SUFFICES ASSUME Init PROVE AccountInv
  OBVIOUS
<1>1. disk.rows = EmptyBook /\ brief = EmptyBook /\ \A p \in Threads : buf[p] = EmptyBook
  BY DEF Init
<1>2. Underway = {} /\ IsFiniteSet({})
  BY FS_EmptySet DEF Init, Underway, Threads
<1>3. \A s \in Signals : shown[s] = 0 /\ s[2] > calls
  BY DEF Init, Signals, Gens
<1>4. \A s \in Signals : ~(s[2] <= calls)
  BY <1>3 DEF Init, Signals, Gens
<1>5. QED
  BY <1>1, <1>2, <1>3, <1>4, EmptyAccount DEF AccountInv

\* A signal is shown once, plus once for every fault and, where operations on
\* the file may overlap, for every ingest call begun after the one that created
\* it: for any number of threads, with torn writes, aborts and crashes.
THEOREM RepeatsArePaid == Spec => []RepeatsAreExplained
<1>1. TypeOK /\ AccountInv => RepeatsAreExplained
  <2> SUFFICES ASSUME TypeOK, AccountInv, NEW s \in Signals, shown[s] > 0
               PROVE  shown[s] <= 1 + faults + (IF Overlap THEN calls - s[2] ELSE 0)
    BY DEF RepeatsAreExplained
  <2>1. /\ shown[s] \in Nat /\ s[2] \in Nat /\ faults \in Nat /\ calls \in Nat
    BY AccountTypes
  <2>2. s[2] <= calls
    BY <2>1 DEF AccountInv
  <2>3. Paid(s)
    BY <2>2 DEF AccountInv
  <2>4. Bit(Pending(s)) \in Nat /\ Cardinality(Holders(s)) \in Nat
    BY HoldersFinite DEF Bit
  <2>5. IF Overlap THEN shown[s] + s[2] <= 1 + faults + calls ELSE shown[s] <= 1 + faults
    <3> DEFINE P == Bit(Pending(s))
               H == Cardinality(Holders(s))
    <3>1. IF Overlap THEN shown[s] + P + H + s[2] <= 1 + faults + calls
          ELSE shown[s] + P <= 1 + faults
      BY <2>3 DEF Paid
    <3>2. P \in Nat /\ H \in Nat
      BY <2>4
    <3> HIDE DEF P, H
    <3>3. QED
      BY <2>1, <3>1, <3>2
  <2>6. QED
    BY <2>1, <2>5
<1>2. TypeOK /\ TypeOK' /\ AccountInv /\ [Next]_vars => AccountInv'
  BY NextAccount
<1>3. QED
  BY <1>1, <1>2, InitAccount, TypeCorrect, PTL DEF Spec
=============================================================================
