----------------------------- MODULE FeedReader -----------------------------
(***************************************************************************)
(* What incremental ingestion promises of a source, with no cursors and no *)
(* limit on what is remembered: a call brings what the source lists and no *)
(* call has recorded, and the overlap window, and records it before it     *)
(* returns it.  What a call holds when it ends before that counts as never *)
(* read; one that ends while it records may forget all.  Ingestion.tla     *)
(* implements this for feeds and browsed pages with bounded lists of ids.  *)
(***************************************************************************)
EXTENDS Naturals

CONSTANTS
    Sources,        \* the sources that are read
    Partial,        \* those of which a call may miss some items
    MaxPerSource,   \* the items a fetch sees
    OverlapCount    \* the items every fetch brings

VARIABLES
    published,   \* items 1..published[s] were published by s; a greater one is newer
    read,        \* the items that calls have recorded, by source
    delivered,   \* the items that completed calls brought, by source
    phase,       \* "idle", or what the call in progress does
    held         \* what it has brought so far, by source

readerVars == <<published, read, delivered, phase, held>>

Empty == [s \in Sources |-> {}]

ReaderInit ==
    /\ published = [s \in Sources |-> 0]
    /\ read = Empty
    /\ delivered = Empty
    /\ phase = "idle"
    /\ held = Empty

Listed(s) == {i \in 1..published[s] : i + MaxPerSource > published[s]}
Window(s) == {i \in Listed(s) : i + OverlapCount > published[s]}

\* What a fetch of a source has to bring.
Unread(s) == Window(s) \cup (Listed(s) \ read[s])

PublishOne(s) ==
    /\ published' = [published EXCEPT ![s] = @ + 1]
    /\ UNCHANGED <<read, delivered, phase, held>>

Begin ==
    /\ phase = "idle"
    /\ phase' = "ingesting"
    /\ UNCHANGED <<published, read, delivered, held>>

Fetch(s) ==
    /\ phase = "ingesting"
    /\ held[s] = {}
    /\ \E got \in (IF s \in Partial THEN SUBSET Unread(s) ELSE {Unread(s)}) :
          held' = [held EXCEPT ![s] = got]
    /\ UNCHANGED <<published, read, delivered, phase>>

Joined(done) == [s \in Sources |-> done[s] \cup held[s]]

Record ==
    /\ phase = "ingesting"
    /\ phase' = "saved"
    /\ read' = Joined(read)
    /\ UNCHANGED <<published, delivered, held>>

Return ==
    /\ phase = "saved"
    /\ delivered' = Joined(delivered)
    /\ phase' = "idle"
    /\ held' = Empty
    /\ UNCHANGED <<published, read>>

\* The call ends without its items: before it records them, amid that, or after.
CutOff ==
    /\ phase # "idle"
    /\ phase' = "idle"
    /\ held' = Empty
    /\ read' = read \/ (phase = "ingesting" /\ read' = Empty)
    /\ UNCHANGED <<published, delivered>>

ReaderNext ==
    \/ \E s \in Sources : PublishOne(s) \/ Fetch(s)
    \/ Begin \/ Record \/ Return \/ CutOff

ReaderSpec == ReaderInit /\ [][ReaderNext]_readerVars
=============================================================================
