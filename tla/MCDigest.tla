------------------------------ MODULE MCDigest ------------------------------
(* An instance of Digest for TLC. *)
EXTENDS Digest

CONSTANTS a, b, c, p, q, o, x, y, z

\* p is read in two ways that are about one thing, of which one matters less; q
\* has no date and is about something else, and the model may call it stale or read
\* p's story in it; o is old.
Row(report, importance, fresh) == [report |-> report, importance |-> importance, fresh |-> fresh]

MCAges == [i \in Items |-> CASE i = p -> <<-5, 10>> [] i = q -> <<-1>> [] OTHER -> <<100>>]
MCReadings ==
    [i \in Items |-> CASE i = p -> {Row(a, 8, "fresh"), Row(b, 5, "recent")}
                       [] i = q -> {Row(c, 9, "stale"), Row(a, 8, "fresh")}
                       [] OTHER -> {}]
MCPlain == [i \in Items |-> IF i = p THEN [report |-> b, importance |-> 6] ELSE [report |-> c, importance |-> 9]]
MCSimilarity ==
    [k \in Reports \X Reports |->
        IF k[1] = k[2] THEN 10 ELSE IF k = <<a, b>> \/ k = <<b, a>> THEN 8 ELSE 2]

\* Of the second only q is given to the extractor.
MCBatches == {<<p>>, <<o, q, p>>}

Update(kind, topic) == [kind |-> kind, topic |-> topic]
MCUpdates == <<Update("save", x), Update("brief_now", y), Update("save", y)>>
MCPushes == {Update("save", y), Update("brief_now", z), Update("stranger", x)}

Budget(runs, twins, days, messages, calls, faults) ==
    [runs |-> runs, twins |-> twins, days |-> days, messages |-> messages, calls |-> calls,
     faults |-> faults]

MCOrder == <<"telegram", "dingtalk">>

\* Two runs, with time passing, with the engine replaced, in one second, with a
\* fault; messages around a run, with faults, alone, with the generator replaced;
\* subscribers around a run; messages and faults.
MCBudgets ==
    {Budget(2, 0, 1, 0, 0, 0), Budget(2, 0, 0, 0, 1, 0), Budget(2, 1, 0, 0, 0, 0), Budget(2, 0, 0, 0, 0, 1),
     Budget(1, 0, 0, 1, 0, 2), Budget(1, 0, 0, 2, 0, 0), Budget(1, 0, 0, 1, 1, 0),
     Budget(1, 0, 0, 0, 3, 0), Budget(1, 0, 0, 0, 2, 1), Budget(0, 0, 0, 3, 0, 2)}
=============================================================================
