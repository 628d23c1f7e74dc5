------------------------------ MODULE Throttle ------------------------------
(***************************************************************************)
(* InMemoryRateLimiter (server/src/ratelimit.rs): one map under one mutex, *)
(* shared by every call site.  A key belongs to one call site and so has   *)
(* one budget and one window; windows differ between call sites.           *)
(***************************************************************************)
EXTENDS Clock, Sequences, FiniteSets

CONSTANTS
    Key,
    max_attempts,   \* of each key's call site
    window,         \* of each key's call site, in ticks
    Capacity        \* entries beyond which a call cleans the map up

ASSUME ThrottleAssumption ==
    /\ IsFiniteSet(Key) /\ Capacity \in Nat
    /\ max_attempts \in [Key -> Nat \ {0}] /\ window \in [Key -> Nat]

VARIABLES
    kept,       \* the keys of the map
    windows,    \* their entries
    granted,    \* history: the attempts of each key that were allowed
    answer,     \* history: the last answer
    forgotten   \* history: keys that a clean-up removed within their window

throttle_vars == <<kept, windows, granted, answer, forgotten>>

Window == [count : Nat, started : Nat]
Grant == [at : Nat, started : Nat]
NoAnswer == [refused |-> {}, at |-> 0]

ThrottleInit ==
    /\ kept = {}
    /\ windows = [k \in Key |-> [count |-> 0, started |-> 0]]
    /\ granted = [k \in Key |-> <<>>]
    /\ answer = NoAnswer
    /\ forgotten = {}

\* Mutation: a full map is emptied.
EmptyWhenFull(k) == IF Cardinality(kept) > Capacity THEN {} ELSE kept

\* The clean-up goes by the window of the call that finds the map full.
retained(k) ==
    IF Cardinality(kept) > Capacity
    THEN {j \in kept : Within(windows[j].started, window[k])} ELSE kept

\* Mutation: an entry that has lasted longer than its window is not restarted.
EntryAsFound(k) ==
    IF k \in retained(k) THEN windows[k] ELSE [count |-> 0, started |-> now]

entry(k) ==
    IF k \in retained(k) /\ Within(windows[k].started, window[k])
    THEN windows[k] ELSE [count |-> 0, started |-> now]

check(k) ==
    LET e == entry(k)
        allowed == e.count < max_attempts[k]
    IN  /\ kept' = retained(k) \cup {k}
        /\ windows' = [windows EXCEPT ![k] = IF allowed THEN [e EXCEPT !.count = @ + 1] ELSE e]
        /\ granted' = IF allowed
                      THEN [granted EXCEPT ![k] = Append(@, [at |-> now, started |-> e.started])]
                      ELSE granted
        /\ answer' = [refused |-> IF allowed THEN {} ELSE {k}, at |-> now]
        /\ forgotten' = forgotten \cup
               {j \in kept \ retained(k) : Within(windows[j].started, window[j])}

-----------------------------------------------------------------------------
ThrottleTypeOK ==
    /\ kept \subseteq Key /\ forgotten \subseteq Key
    /\ windows \in [Key -> Window]
    /\ granted \in [Key -> Seq(Grant)]
    /\ answer.refused \subseteq Key /\ answer.at \in Nat

Shortest(k) == \A j \in Key : window[k] <= window[j]

\* A key is never allowed more than twice its budget within the length of one
\* window (two windows may meet there), for the process's whole life.  A key of a
\* longer window has this only while no clean-up removes its running entry, which
\* a call with a shorter window does once the map is full; nothing can do so to a
\* key of the shortest window.
BudgetKept ==
    \A k \in Key : k \notin forgotten \/ Shortest(k) =>
        \A i \in 1..Len(granted[k]) :
            i + 2 * max_attempts[k] <= Len(granted[k]) =>
                granted[k][i + 2 * max_attempts[k]].at > granted[k][i].at + window[k]

\* A call is refused only if its own key, and no other, was allowed its whole
\* budget within the last window.
RefusalEarned ==
    \A k \in answer.refused :
        LET n == Len(granted[k])
        IN  /\ max_attempts[k] <= n
            /\ answer.at <= granted[k][n + 1 - max_attempts[k]].at + window[k]
=============================================================================
