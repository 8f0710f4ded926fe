------------------------------ MODULE Webhooks ------------------------------
(***************************************************************************)
(* WebhookManager: API workers add and remove subscriptions under a lock,  *)
(* and a run calls the subscribers of the moment it lists them, without    *)
(* the lock.                                                               *)
(***************************************************************************)
EXTENDS FiniteSets

CONSTANTS
    Hookers,        \* API workers
    Subscriptions,  \* bound: the subscription ids
    NoHooker        \* the free lock

ASSUME WebhooksAssumption == NoHooker \notin Hookers

VARIABLES
    subs,       \* webhook_subscriptions.json: the ids
    hookLock,   \* WebhookManager._lock
    loaded,     \* the subscriptions each worker loaded that changes them
    asked,      \* ghost: the ids that were acknowledged and not removed
    toCall,     \* the subscribers the publication in progress has still to call
    called,     \* ghost: those it has called
    listed      \* ghost: the acknowledged ids when it listed them

hookVars == <<subs, hookLock, loaded, asked, toCall, called, listed>>

NoLoads == [w \in {} |-> {}]

WebhooksInit ==
    /\ subs = {} /\ hookLock = NoHooker /\ loaded = NoLoads /\ asked = {}
    /\ toCall = {} /\ called = {} /\ listed = {}

\* Mutant of LoadSubs: no lock.
LoadSubsUnlocked(w) ==
    /\ w \notin DOMAIN loaded
    /\ hookLock' = w
    /\ loaded' = [v \in DOMAIN loaded \cup {w} |-> IF v = w THEN subs ELSE loaded[v]]
    /\ UNCHANGED <<subs, asked, toCall, called, listed>>

\* subscribe and unsubscribe: take the lock, load the file.
LoadSubs(w) ==
    /\ hookLock = NoHooker
    /\ hookLock' = w
    /\ loaded' = [v \in DOMAIN loaded \cup {w} |-> IF v = w THEN subs ELSE loaded[v]]
    /\ UNCHANGED <<subs, asked, toCall, called, listed>>

ReleaseHooks(w) ==
    /\ hookLock' = NoHooker
    /\ loaded' = [v \in DOMAIN loaded \ {w} |-> loaded[v]]

\* subscribe: save the longer list, release the lock; the id is new.
Subscribe(w, id) ==
    /\ w \in DOMAIN loaded
    /\ id \notin loaded[w]
    /\ subs' = loaded[w] \cup {id}
    /\ asked' = asked \cup {id}
    /\ ReleaseHooks(w)
    /\ UNCHANGED <<toCall, called, listed>>

\* unsubscribe: save the list without the id, if it was there.
Unsubscribe(w, id) ==
    /\ w \in DOMAIN loaded
    /\ subs' = IF id \in loaded[w] THEN loaded[w] \ {id} ELSE subs
    /\ asked' = asked \ {id}
    /\ ReleaseHooks(w)
    /\ UNCHANGED <<toCall, called, listed>>

\* publish_run_outputs, the list of subscribers.
ListSubs ==
    /\ hookLock = NoHooker
    /\ toCall' = subs
    /\ called' = {}
    /\ listed' = asked
    /\ UNCHANGED <<subs, hookLock, loaded, asked>>

\* Mutant of Call: the publication ends at the first call that fails.
CallUntilFailure(id, fails) ==
    /\ id \in toCall
    /\ toCall' = IF fails THEN {} ELSE toCall \ {id}
    /\ called' = called \cup {id}
    /\ UNCHANGED <<subs, hookLock, loaded, asked, listed>>

\* A call that fails is recorded, and the next subscriber is called.
Call(id, fails) ==
    /\ id \in toCall
    /\ toCall' = toCall \ {id}
    /\ called' = called \cup {id}
    /\ UNCHANGED <<subs, hookLock, loaded, asked, listed>>

\* A publication is over, or broken off.
EndCalls == toCall' = {} /\ called' = {} /\ listed' = {}

\* The process dies; a file that was being written reads as empty.
CrashHooks ==
    /\ hookLock' = NoHooker /\ loaded' = NoLoads
    /\ EndCalls
    /\ \/ UNCHANGED <<subs, asked>>
       \/ hookLock # NoHooker /\ subs' = {} /\ asked' = {}

-----------------------------------------------------------------------------
(* Properties.                                                             *)

\* Acknowledged subscriptions stay in the file until they are removed, whoever
\* subscribes and unsubscribes at the same time (webhooks.py:62 and :74).
SubscriptionsAreKept == asked = subs

\* A publication calls exactly the subscribers that were acknowledged when it
\* listed them: a failing one costs the others nothing, one that subscribes
\* meanwhile waits for the next run, and one that unsubscribes meanwhile is
\* still called (webhooks.py:82).
ListedAreCalled == toCall \cup called = listed
=============================================================================
