------------------------------- MODULE Inbox --------------------------------
(***************************************************************************)
(* The user inbox of the monitoring agent: inbox_signals.json, the threads *)
(* that submit links and notes to it (Telegram poller, DingTalk stream,    *)
(* API workers) and the monitoring run that briefs them.                   *)
(*                                                                         *)
(* InboxEngine has no lock.  Every operation loads the whole file, changes *)
(* the list in memory and writes the whole list back, so an operation is   *)
(* two steps here: the load, and the save of what the load returned.       *)
(***************************************************************************)
EXTENDS Naturals, FiniteSets

CONSTANTS
    Tids, Urls,
    Callers,            \* threads that call ingest_user_signals
    Run,                \* the run thread: run_once admits one run at a time
    Overlap,            \* may two load-save sequences overlap?  (the code lets them)
    TornWrites,         \* is write_text's truncate a step of its own?
    TemplateFallback,   \* does every selected signal get a composed block?
    MaxCards,           \* cards a channel renders (max_signals = 3 in both renderers)
    MaxCalls,           \* bound: ingest calls in a behaviour
    MaxFaults           \* bound: crashes, aborted operations, failed notifications

ASSUME InboxAssumption ==
    /\ Run \notin Callers
    /\ Overlap \in BOOLEAN
    /\ TornWrites \in BOOLEAN
    /\ TemplateFallback \in BOOLEAN
    /\ MaxCards \in Nat \ {0}
    /\ MaxCalls \in Nat
    /\ MaxFaults \in Nat

VARIABLES
    disk,      \* inbox_signals.json: what a read of it would find
    pc,        \* where each thread is
    buf,       \* the list each thread loaded, with its changes applied
    batch,     \* the inputs of each caller's call
    brief,     \* the unbriefed user signals the run selected for its brief
    shown,     \* ghost: how often each signal reached the user
    selected,  \* ghost: what the briefs held whose notification was sent, <<t, gen, urls>>
    acked,     \* ghost: submissions <<t, urls>> whose call returned
    calls,     \* ingest calls begun; also the serial number of a created signal
    faults     \* faults so far

vars == <<disk, pc, buf, batch, brief, shown, selected, acked, calls, faults>>

Gens == 1..MaxCalls
Threads == Callers \cup {Run}
Signals == Tids \X Gens

Store == INSTANCE InboxStore WITH rows <- disk.rows

Books == Store!Books
EmptyBook == Store!EmptyBook

\* "empty": truncated and not yet written; "garbled": two writes into one file.
Disk == [state: {"ok", "empty", "garbled"}, rows: Books]

Writing == {"ingest", "refresh", "mark"}
Opened == {"ingestOpen", "refreshOpen", "markOpen"}
PCs == {"idle", "refreshed", "notified"} \cup Writing \cup Opened

\* Mutant of Load: the test for malformed JSON is inverted.
LoadInverted == IF disk.state = "ok" THEN EmptyBook ELSE disk.rows

\* load_inbox_signals: a missing file reads as [], and so does malformed JSON.
Load == IF disk.state = "ok" THEN disk.rows ELSE EmptyBook

Busy(p) == pc[p] \in Writing \cup Opened
MayLoad(p) == Overlap \/ \A q \in Threads \ {p} : ~Busy(q)

Init ==
    /\ disk = [state |-> "ok", rows |-> EmptyBook]
    /\ pc = [p \in Threads |-> "idle"]
    /\ buf = [p \in Threads |-> EmptyBook]
    /\ batch = [c \in Callers |-> EmptyBook]
    /\ brief = EmptyBook
    /\ shown = [s \in Signals |-> 0]
    /\ selected = {}
    /\ acked = {}
    /\ calls = 0
    /\ faults = 0

-----------------------------------------------------------------------------
(* Submitting.  ingest_user_signals up to its call of _save_signals; the   *)
(* resolver ran before and touches no shared state.                        *)

IngestLoad(c, b) ==
    /\ pc[c] = "idle"
    /\ MayLoad(c)
    /\ calls < MaxCalls
    /\ calls' = calls + 1
    /\ pc' = [pc EXCEPT ![c] = "ingest"]
    /\ buf' = [buf EXCEPT ![c] = Store!Upsert(Load, b, calls')]
    /\ batch' = [batch EXCEPT ![c] = b]
    /\ UNCHANGED <<disk, brief, shown, selected, acked, faults>>

-----------------------------------------------------------------------------
(* The run.  refresh_with_system_signals rewrites every unbriefed row with *)
(* its matches, texts the properties do not tell apart, and saves the list *)
(* it loaded; an empty inbox is not written back.                          *)

RefreshLoad ==
    /\ pc[Run] = "idle"
    /\ MayLoad(Run)
    /\ LET empty == DOMAIN Load = {} IN
        /\ pc' = [pc EXCEPT ![Run] = IF empty THEN "refreshed" ELSE "refresh"]
        /\ buf' = [buf EXCEPT ![Run] = Load]
        /\ brief' = EmptyBook
    /\ UNCHANGED <<disk, batch, shown, selected, acked, calls, faults>>

\* Which cards a channel can send: the generator drops a signal that has no
\* composed block, and the renderers keep the first MaxCards.
CardSets ==
    {cards \in SUBSET DOMAIN brief :
        /\ Cardinality(cards) <= MaxCards
        /\ TemplateFallback =>
              (Cardinality(cards) = MaxCards \/ cards = DOMAIN brief)}

ShownWith(cards) ==
    [s \in Signals |->
        shown[s] + (IF s[1] \in cards /\ s[2] = brief[s[1]].gen THEN 1 ELSE 0)]

\* notify returned sent = True: some channel sent all its messages.  Without
\* user signals in the brief mark_briefed([]) returns at once.
NotifySent ==
    /\ pc[Run] = "refreshed"
    /\ \E cards \in CardSets : shown' = ShownWith(cards)
    /\ selected' = selected \cup {<<t, brief[t].gen, brief[t].urls>> : t \in DOMAIN brief}
    /\ pc' = [pc EXCEPT ![Run] = IF DOMAIN brief = {} THEN "idle" ELSE "notified"]
    /\ UNCHANGED <<disk, buf, batch, brief, acked, calls, faults>>

\* Every channel failed, perhaps after some messages were out: NotificationError
\* is caught, the run completes and nothing is marked.
NotifyFails ==
    /\ pc[Run] = "refreshed"
    /\ faults < MaxFaults
    /\ \E cards \in CardSets : \E out \in SUBSET cards : shown' = ShownWith(out)
    /\ pc' = [pc EXCEPT ![Run] = "idle"]
    /\ brief' = EmptyBook
    /\ faults' = faults + 1
    /\ UNCHANGED <<disk, buf, batch, selected, acked, calls>>

\* Mutant of Marked: every unbriefed row is marked, not the rows of the brief.
MarkedEverything(book) == Store!Unbriefed(book)

\* mark_briefed looks the ids up in a fresh load and writes only if a row changed.
Marked(book) ==
    {t \in Store!Unbriefed(book) : t \in DOMAIN brief /\ book[t].gen = brief[t].gen}

MarkLoad ==
    /\ pc[Run] = "notified"
    /\ MayLoad(Run)
    /\ LET none == Marked(Load) = {} IN
        /\ pc' = [pc EXCEPT ![Run] = IF none THEN "idle" ELSE "mark"]
        /\ buf' = [buf EXCEPT ![Run] =
                      IF none THEN EmptyBook ELSE Store!WithMarks(Load, Marked(Load))]
        /\ brief' = EmptyBook
    /\ UNCHANGED <<disk, batch, shown, selected, acked, calls, faults>>

-----------------------------------------------------------------------------
(* Saving.  save_inbox_signals opens the file for writing, which truncates *)
(* it, and then writes the text.                                           *)

\* What the thread does once its save returned.
Saved(p) ==
    /\ buf' = [buf EXCEPT ![p] = EmptyBook]
    /\ IF p = Run
       THEN /\ pc' = [pc EXCEPT ![Run] =
                         IF pc[Run] \in {"refresh", "refreshOpen"} THEN "refreshed" ELSE "idle"]
            /\ brief' = IF pc[Run] \in {"refresh", "refreshOpen"}
                        THEN [t \in Store!Unbriefed(buf[Run]) |-> buf[Run][t]]
                        ELSE EmptyBook
            /\ UNCHANGED <<batch, acked>>
       ELSE /\ pc' = [pc EXCEPT ![p] = "idle"]
            /\ acked' = acked \cup {<<t, batch[p][t]>> : t \in DOMAIN batch[p]}
            /\ batch' = [batch EXCEPT ![p] = EmptyBook]
            /\ UNCHANGED brief
    /\ UNCHANGED <<shown, selected, calls, faults>>

Save(p) ==
    /\ ~TornWrites
    /\ pc[p] \in Writing
    /\ disk' = [state |-> "ok", rows |-> buf[p]]
    /\ Saved(p)

Truncate(p) ==
    /\ TornWrites
    /\ pc[p] \in Writing
    /\ disk' = [disk EXCEPT !.state = "empty"]
    /\ pc' = [pc EXCEPT ![p] = CASE pc[p] = "ingest" -> "ingestOpen"
                                 [] pc[p] = "refresh" -> "refreshOpen"
                                 [] OTHER -> "markOpen"]
    /\ UNCHANGED <<buf, batch, brief, shown, selected, acked, calls, faults>>

\* A file that is no longer empty was written by another thread since this
\* thread truncated it: this write lands over that text, and a longer text
\* leaves its tail behind.
Flush(p) ==
    /\ pc[p] \in Opened
    /\ \E st \in {"ok"} \cup (IF disk.state = "empty" THEN {} ELSE {"garbled"}) :
          disk' = [state |-> st, rows |-> buf[p]]
    /\ Saved(p)

-----------------------------------------------------------------------------
(* Faults.                                                                 *)

\* An exception ends an operation (disk full, a failed stage of the run, no
\* channel configured).  The caller gets an error and no acknowledgement.
Abort(p) ==
    /\ pc[p] # "idle"
    /\ faults < MaxFaults
    /\ faults' = faults + 1
    /\ pc' = [pc EXCEPT ![p] = "idle"]
    /\ buf' = [buf EXCEPT ![p] = EmptyBook]
    /\ batch' = [c \in Callers |-> IF c = p THEN EmptyBook ELSE batch[c]]
    /\ brief' = IF p = Run THEN EmptyBook ELSE brief
    /\ UNCHANGED <<disk, shown, selected, acked, calls>>

\* The process dies and restarts: every thread is gone, the file is as it was.
Crash ==
    /\ \E p \in Threads : pc[p] # "idle"
    /\ faults < MaxFaults
    /\ faults' = faults + 1
    /\ pc' = [p \in Threads |-> "idle"]
    /\ buf' = [p \in Threads |-> EmptyBook]
    /\ batch' = [c \in Callers |-> EmptyBook]
    /\ brief' = EmptyBook
    /\ UNCHANGED <<disk, shown, selected, acked, calls>>

-----------------------------------------------------------------------------

SaveStep(p) == Save(p) \/ Truncate(p) \/ Flush(p)
RunStep == RefreshLoad \/ NotifySent \/ NotifyFails \/ MarkLoad \/ SaveStep(Run)

Next ==
    \/ \E c \in Callers : \E b \in Store!Batches : IngestLoad(c, b)
    \/ \E c \in Callers : SaveStep(c)
    \/ RunStep
    \/ \E p \in Threads : Abort(p)
    \/ Crash

Spec == Init /\ [][Next]_vars

\* The scheduler starts a run at every interval and a run that has started
\* goes on; a caller that loaded the inbox goes on to save it.  Nobody has to
\* submit anything.
Fairness ==
    /\ WF_vars(RunStep)
    /\ \A c \in Callers : WF_vars(SaveStep(c))

FairSpec == Spec /\ Fairness

-----------------------------------------------------------------------------
(* Properties.                                                             *)

\* Type invariant: what each variable may hold.
TypeOK ==
    /\ disk \in Disk
    /\ pc \in [Threads -> PCs]
    /\ \A c \in Callers : pc[c] \in {"idle", "ingest", "ingestOpen"}
    /\ pc[Run] \notin {"ingest", "ingestOpen"}
    /\ buf \in [Threads -> Books]
    /\ batch \in [Callers -> Store!Batches \cup {EmptyBook}]
    /\ brief \in Books
    /\ shown \in [Signals -> Nat]
    /\ selected \subseteq Tids \X Gens \X SUBSET Urls
    /\ acked \subseteq Tids \X SUBSET Urls
    /\ calls \in 0..MaxCalls
    /\ faults \in 0..MaxFaults

\* What ingest_user_signals returned for is in the file: the row exists and
\* carries the urls of every acknowledged submission, whatever other threads,
\* later runs, aborted operations and crashes did since.
NoLostSubmission ==
    \A s \in acked : s[1] \in DOMAIN Load /\ s[2] \subseteq Load[s[1]].urls

\* A signal marked briefed was in the brief of a run whose notification was
\* sent: no interleaving, stale write or crash marks a signal that no run took.
MarkedWasSelected ==
    \A t \in DOMAIN disk.rows : disk.rows[t].briefed =>
        \E us \in SUBSET Urls : <<t, disk.rows[t].gen, us>> \in selected

\* A signal marked briefed, which no later brief will contain, has reached the
\* user: its card was in a notification that was sent.
MarkedWasShown ==
    \A t \in DOMAIN disk.rows :
        disk.rows[t].briefed => shown[<<t, disk.rows[t].gen>>] > 0

\* A user signal is surfaced once.  Every repetition is paid for by a fault
\* between the sending and the mark or, where operations may overlap, by an
\* ingest call begun after the one that created the signal, which wrote back
\* the row as it was before the mark.
RepeatsAreExplained ==
    \A s \in Signals : shown[s] > 0 =>
        shown[s] <= 1 + faults + (IF Overlap THEN calls - s[2] ELSE 0)

\* The file implements the table of InboxStore: every save is one atomic
\* submission or one atomic marking of signals that were shown, or changes nothing.
ImplementsStore == Store!StoreSpec

\* A submission that was acknowledged is shown by some later run.
AckedIsShown ==
    \A t \in Tids :
        (\E s \in acked : s[1] = t) ~> (\E g \in Gens : shown[<<t, g>>] > 0)

\* Every acknowledged submission, a follow-up to a tracked signal as well, is
\* in the brief of a later round ("saved to the inbox, until the next round").
AckedIsBriefed ==
    \A t \in Tids, us \in SUBSET Urls :
        (<<t, us>> \in acked) ~>
            (\E s \in selected : s[1] = t /\ us \subseteq s[3])
=============================================================================
