----------------------------- MODULE InboxStore -----------------------------
(***************************************************************************)
(* What the inbox promises, with no files and no threads: a table of       *)
(* tracked signals keyed by tracking id.  A submission is one atomic       *)
(* upsert that touches only the rows it names, a signal is shown only      *)
(* while it is unbriefed, and it is marked only after it was shown.        *)
(* Inbox.tla implements this table with a JSON file that several threads   *)
(* load, modify and save.                                                  *)
(***************************************************************************)
EXTENDS Naturals

CONSTANTS
    Tids,     \* tracking ids
    Urls,     \* source urls a submission can carry
    Gens      \* serial numbers that stand for the uuid of a created signal

VARIABLES
    rows,     \* rows[t]: the tracked signal of tracking id t, a partial function
    shown     \* shown[<<t, g>>]: how often the signal (t, g) was sent to the user

storeVars == <<rows, shown>>

Row == [gen: Gens, urls: SUBSET Urls, briefed: BOOLEAN]

\* The inbox as InboxEngine holds it in memory: a dict from tracking ids.
Books == UNION {[S -> Row] : S \in SUBSET Tids}

\* One call's inputs: tracking ids, each with the urls of its submission.
Batches == UNION {[S -> SUBSET Urls] : S \in (SUBSET Tids) \ {{}}}

EmptyBook == [t \in {} |-> {}]

\* Mutants of Upsert: a follow-up is rebuilt without the row's identity; a new
\* row is created as if it had been briefed.
UpsertDropsIdentity(book, batch, g) ==
    [t \in DOMAIN book \cup DOMAIN batch |->
        IF t \notin DOMAIN batch THEN book[t]
        ELSE IF t \in DOMAIN book THEN [urls |-> batch[t], briefed |-> book[t].briefed]
             ELSE [gen |-> g, urls |-> batch[t], briefed |-> FALSE]]

UpsertBriefed(book, batch, g) ==
    [t \in DOMAIN book \cup DOMAIN batch |->
        IF t \notin DOMAIN batch THEN book[t]
        ELSE [gen |-> g, urls |-> batch[t], briefed |-> TRUE]]

\* The loop of ingest_user_signals: a known tracking id is a follow-up that
\* extends the row and keeps its mark, an unknown one creates an unbriefed row.
Upsert(book, batch, g) ==
    [t \in DOMAIN book \cup DOMAIN batch |->
        IF t \notin DOMAIN batch THEN book[t]
        ELSE IF t \in DOMAIN book
             THEN [book[t] EXCEPT !.urls = @ \cup batch[t]]
             ELSE [gen |-> g, urls |-> batch[t], briefed |-> FALSE]]

\* Mutant of Unbriefed: the run does not look at briefed_once_at.
UnbriefedAll(book) == DOMAIN book

Unbriefed(book) == {t \in DOMAIN book : ~book[t].briefed}

\* Mutant of WithMarks: briefed rows are dropped from the list.
WithMarksDrops(book, ts) == [t \in DOMAIN book \ ts |-> book[t]]

WithMarks(book, ts) ==
    [t \in DOMAIN book |->
        IF t \in ts THEN [book[t] EXCEPT !.briefed = TRUE] ELSE book[t]]

Identities(book) == {<<t, book[t].gen>> : t \in DOMAIN book}

-----------------------------------------------------------------------------

StoreInit ==
    /\ rows = EmptyBook
    /\ shown = [s \in Tids \X Gens |-> 0]

Submit(batch, g) ==
    /\ rows' = Upsert(rows, batch, g)
    /\ UNCHANGED shown

Show(ts) ==
    /\ ts \subseteq Unbriefed(rows)
    /\ shown' = [s \in Tids \X Gens |->
                    shown[s] + (IF s[1] \in ts /\ s[2] = rows[s[1]].gen THEN 1 ELSE 0)]
    /\ UNCHANGED rows

MarkShown(ts) ==
    /\ ts \subseteq Unbriefed(rows)
    /\ \A t \in ts : shown[<<t, rows[t].gen>>] > 0
    /\ rows' = WithMarks(rows, ts)
    /\ UNCHANGED shown

StoreNext ==
    \/ \E batch \in Batches, g \in Gens : Submit(batch, g)
    \/ \E ts \in SUBSET Tids : Show(ts) \/ MarkShown(ts)

StoreSpec == StoreInit /\ [][StoreNext]_storeVars
=============================================================================
