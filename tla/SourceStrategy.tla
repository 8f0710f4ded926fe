--------------------------- MODULE SourceStrategy --------------------------
(***************************************************************************)
(* SourceStrategyEngine.suggest and its cache: a call loads the whole      *)
(* cache, analyses the urls that are due over the network and with the     *)
(* LLM, and saves the whole cache.  The suggest endpoint, the generation   *)
(* of a strategy and the start of a run call it, from their own threads.   *)
(*                                                                         *)
(* An analysis is fresh until its refresh interval has passed; one         *)
(* interval stands for those of the callers.                               *)
(***************************************************************************)
EXTENDS Naturals

CONSTANTS
    Addresses,  \* what may be a source link
    Askers      \* the threads that ask for suggestions

VARIABLES
    cache,      \* the cache file: the age of each analysis it holds
    asked,      \* the urls of each call in progress
    copy,       \* the cache it loaded, with the analyses it makes
    analysed,   \* ghost: analyses that were handed to a caller and are still fresh
    outdated,   \* ghost: calls whose loaded cache is not the file's any more
    cacheUndone \* ghost: has such a call saved?

cacheVars == <<cache, asked, copy, analysed, outdated, cacheUndone>>

Ages == {"none", "old", "fresh"}
Caches == [Addresses -> Ages]
NoCache == [u \in Addresses |-> "none"]

CacheTypeOK ==
    /\ cache \in Caches
    /\ asked \in [Askers -> SUBSET Addresses]
    /\ copy \in [Askers -> Caches]
    /\ analysed \subseteq Addresses
    /\ outdated \subseteq Askers
    /\ cacheUndone \in BOOLEAN

CacheInit ==
    /\ cache = NoCache
    /\ asked = [p \in Askers |-> {}]
    /\ copy = [p \in Askers |-> NoCache]
    /\ analysed = {} /\ outdated = {} /\ cacheUndone = FALSE

Asking == {p \in Askers : asked[p] # {}}

\* The urls a call analyses: a cached analysis is used until it is too old.
Due(seen, urls, force) == {u \in urls : force \/ seen[u] # "fresh"}

\* suggest, up to the analyses.  A load that meets the write of another call
\* reads no cache.
Suggest(p, urls, force) ==
    \E torn \in {FALSE, Asking \ {p} # {}} :
        LET seen == IF torn THEN NoCache ELSE cache
        IN  /\ asked' = [asked EXCEPT ![p] = urls]
            /\ copy' = [copy EXCEPT ![p] =
                          [u \in Addresses |-> IF u \in Due(seen, urls, force) THEN "fresh"
                                               ELSE seen[u]]]
            /\ outdated' = IF torn THEN outdated \cup {p} ELSE outdated \ {p}
            /\ UNCHANGED <<cache, analysed, cacheUndone>>

\* A call leaves its loaded cache behind.
Drop(p) ==
    /\ asked' = [asked EXCEPT ![p] = {}]
    /\ copy' = [copy EXCEPT ![p] = NoCache]

\* Mutant of SaveCache: only the urls of the call are kept.
SaveCacheOfCall(p) ==
    /\ cache' = [u \in Addresses |-> IF u \in asked[p] THEN copy[p][u] ELSE "none"]
    /\ Drop(p)
    /\ analysed' = analysed \cup {u \in asked[p] : copy[p][u] = "fresh"}
    /\ outdated' = Asking \ {p}
    /\ cacheUndone' = (cacheUndone \/ p \in outdated)

\* suggest, the end: the whole cache replaces the file.
SaveCache(p) ==
    /\ cache' = copy[p]
    /\ Drop(p)
    /\ analysed' = analysed \cup {u \in asked[p] : copy[p][u] = "fresh"}
    /\ outdated' = Asking \ {p}
    /\ cacheUndone' = (cacheUndone \/ p \in outdated)

\* A call ends with an exception: nothing is saved.
Forget(p) ==
    /\ Drop(p)
    /\ outdated' = outdated \ {p}
    /\ UNCHANGED <<cache, analysed, cacheUndone>>

\* The process dies, perhaps while a call writes the file.
CrashCache ==
    /\ asked' = [p \in Askers |-> {}]
    /\ copy' = [p \in Askers |-> NoCache]
    /\ outdated' = {}
    /\ \/ UNCHANGED <<cache, cacheUndone>>
       \/ Asking # {} /\ cache' = NoCache /\ cacheUndone' = TRUE
    /\ UNCHANGED analysed

Aged(seen) == [u \in Addresses |-> IF seen[u] = "fresh" THEN "old" ELSE seen[u]]

\* The refresh interval passes.
Age ==
    /\ cache' = Aged(cache)
    /\ copy' = [p \in Askers |-> Aged(copy[p])]
    /\ analysed' = {}
    /\ UNCHANGED <<asked, outdated, cacheUndone>>

-----------------------------------------------------------------------------
(* Properties.                                                             *)

\* An analysis that was handed to a caller is found in the cache until its
\* refresh interval has passed, unless a call saved a cache that another had
\* replaced meanwhile (source_strategy_engine.py:57 and :83 have no lock) or
\* the process died while one was written.
AnalysesAreKept ==
    ~cacheUndone => \A u \in analysed : cache[u] = "fresh"
=============================================================================
