--------------------------- MODULE MCControlPlane --------------------------
(* An instance of ControlPlane for TLC. *)
EXTENDS ControlPlane

CONSTANTS t1, t2, k1, k2, site, feed

Link(u, type) == [url |-> u, type |-> type]

\* A request as text, a form with a link and a keyword.
MCAskFor ==
    {[form |-> FALSE, tokens |-> {t1}, links |-> {Link(feed, "auto")}, tags |-> {k2}],
     [form |-> TRUE, tokens |-> {t1, k1}, links |-> {Link(site, "auto")}, tags |-> {k2}]}

\* Stop tracking t1; replace t1 by t2.
MCPatchWith == {[out |-> {t1}, in |-> {}], [out |-> {t1}, in |-> {t2}]}

\* The analysis of a site finds a page, or the feed it announces.
MCAdvice ==
    [u \in {site, feed} |->
        IF u = site THEN {Link(site, "page"), Link(feed, "rss")} ELSE {Link(feed, "rss")}]

\* The file the server starts with.
MCInitial ==
    [named |-> {t2}, profile |-> {t2}, links |-> {Link(feed, "auto")}, sources |-> {},
     carried |-> 0, styled |-> 0]

Budget(calls, width, runs, ages, faults) ==
    [calls |-> calls, width |-> width, runs |-> runs, ages |-> ages, faults |-> faults]

\* Calls one after another; two at a time, with a fault; calls around a run,
\* with the time passing.
MCBudgets ==
    {Budget(3, 1, 0, 0, 0), Budget(2, 2, 0, 0, 1), Budget(1, 1, 1, 1, 1), Budget(2, 1, 1, 0, 0)}
=============================================================================
