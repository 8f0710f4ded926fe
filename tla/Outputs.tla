------------------------------ MODULE Outputs ------------------------------
(***************************************************************************)
(* StorageEngine: the files a run leaves for its readers.  The first run   *)
(* of a morning or an evening gets the plain name, the others a name with  *)
(* the time of the write and a number; the history names a run's files.    *)
(***************************************************************************)
EXTENDS Naturals, FiniteSets

CONSTANTS
    OutputKinds,    \* the files of one run
    Stamps,         \* the times of the writes, as file names have them
    MaxAttempts     \* the names tried for one time

ASSUME OutputsAssumption ==
    /\ IsFiniteSet(OutputKinds)
    /\ 0 \notin Stamps
    /\ MaxAttempts \in Nat

VARIABLES
    outputs,    \* the contents of the files, by name
    rows,       \* history.json: the runs and the names of their files
    named       \* the names the run in progress has so far, by kind

outputVars == <<outputs, rows, named>>

Nameless == [k \in {} |-> 0]
NoText == {}

\* A name: the slot, and for a name that was taken the time and a number.
Name(kind, slot, stamp, attempt) ==
    [kind |-> kind, slot |-> slot, stamp |-> stamp, attempt |-> attempt]

\* The brief is its text, with the second it was made in; no recording equals
\* another; the other files name their run and its signals.
Content(kind, id, serial, text) ==
    CASE kind = "md" -> [whole |-> TRUE, id |-> id, serial |-> 0, text |-> text]
      [] kind = "mp3" -> [whole |-> TRUE, id |-> 0, serial |-> serial, text |-> text]
      [] OTHER -> [whole |-> TRUE, id |-> id, serial |-> serial, text |-> text]

Torn == [whole |-> FALSE, id |-> 0, serial |-> 0, text |-> NoText]

OutputsInit == outputs = Nameless /\ rows = {} /\ named = Nameless

\* Mutant of Usable: a name that exists is taken to hold the same content.
UsableUnread(name, content) == TRUE

\* A name can be used if it is free or has the very content.
Usable(name, content) == name \in DOMAIN outputs => outputs[name] = content

\* The names _write_idempotent may come to: the plain one, or the first usable
\* one of the time of the write.
Targets(kind, slot, content) ==
    IF Usable(Name(kind, slot, 0, 0), content) THEN {Name(kind, slot, 0, 0)}
    ELSE {Name(kind, slot, c[1], c[2]) : c \in
            {t \in Stamps \X (0..(MaxAttempts - 1)) :
                /\ Usable(Name(kind, slot, t[1], t[2]), content)
                /\ \A m \in 0..(t[2] - 1) : ~Usable(Name(kind, slot, t[1], m), content)}}

Put(name, content) ==
    outputs' = [x \in DOMAIN outputs \cup {name} |->
                    IF x = name /\ x \notin DOMAIN outputs THEN content ELSE outputs[x]]

\* One file of the run is written, in the order of save_outputs.
WriteOutput(kind, slot, content) ==
    \E name \in Targets(kind, slot, content) :
        /\ Put(name, content)
        /\ named' = [k \in DOMAIN named \cup {kind} |-> IF k = kind THEN name ELSE named[k]]
        /\ UNCHANGED rows

\* All names of the time of the write are taken.
NamesExhausted(kind, slot, content) ==
    /\ ~Usable(Name(kind, slot, 0, 0), content)
    /\ \E stamp \in Stamps : \A n \in 0..(MaxAttempts - 1) :
          ~Usable(Name(kind, slot, stamp, n), content)

ForgetNames == named' = Nameless

\* A row is added unless one has the same run id, slot and brief.
AppendRow(id, serial, slot) ==
    /\ rows' = IF \E row \in rows : row.id = id /\ row.slot = slot /\ row.names["md"] = named["md"]
               THEN rows
               ELSE rows \cup {[id |-> id, serial |-> serial, slot |-> slot, names |-> named]}
    /\ ForgetNames
    /\ UNCHANGED outputs

\* The process dies while a new file or the history is written.
TearOutput(kind, slot, content) ==
    /\ \E name \in Targets(kind, slot, content) :
          name \notin DOMAIN outputs /\ Put(name, Torn)
    /\ UNCHANGED rows
TearRows == rows' = {} /\ UNCHANGED outputs

-----------------------------------------------------------------------------
(* Properties.                                                             *)

\* What a reader finds through the history is what the run of that row wrote,
\* all of it, although names are shared, reused and torn by crashes.
HistoryRowsAreWhole ==
    \A row \in rows : \A kind \in OutputKinds :
        /\ kind \in DOMAIN row.names \/ kind = "mp3"
        /\ kind \in DOMAIN row.names =>
              LET content == outputs[row.names[kind]] IN
              /\ row.names[kind] \in DOMAIN outputs
              /\ content.whole
              /\ kind # "mp3" => content.id = row.id
              /\ kind # "md" => content.serial = row.serial
              /\ content.text = outputs[row.names["md"]].text
=============================================================================
