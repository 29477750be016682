---------------------------- MODULE DedupeWindow ---------------------------
(***************************************************************************)
(* The dedupe cache on its own, with the history its promise is about: it  *)
(* refuses a replay as long as fewer than MaxSize other executions were    *)
(* accepted in between, and no longer.                                     *)
(***************************************************************************)
EXTENDS DedupeCache

CONSTANTS
    Keys,       \* execution ids
    MaxSize     \* 100_000 in EngineState::new

ASSUME MaxSizeAssumption == MaxSize \in Nat \ {0}

VARIABLES
    cache,
    age       \* key -> keys accepted since it was, MaxSize standing for "never"
              \* and for every larger number

window == <<cache, age>>

EmptyWindow == cache = EmptyCache /\ age = [k \in Keys |-> MaxSize]

Older(n) == IF n < MaxSize THEN n + 1 ELSE MaxSize

Accept(k) ==
    /\ IsFresh(cache, k)
    /\ cache' = AddKey(cache, k, MaxSize)
    /\ age' = [j \in Keys |-> IF j = k THEN 0 ELSE Older(age[j])]

Reject(k) == ~IsFresh(cache, k) /\ UNCHANGED window

AddOrRefuse == \E k \in Keys : Accept(k) \/ Reject(k)

WindowSpec == EmptyWindow /\ [][AddOrRefuse]_window
-----------------------------------------------------------------------------
\* Type invariant: the queue never outgrows its limit.
WindowTypeOK ==
    /\ cache \in [seen : SUBSET Keys, queue : Seq(Keys)]
    /\ Len(cache.queue) <= MaxSize
    /\ age \in [Keys -> 0..MaxSize]

\* The set and the queue describe the same keys, each queued once: a key that
\* is refused can be evicted again, and an evicted key is forgotten in both.
SetMatchesQueue ==
    /\ cache.seen = {cache.queue[i] : i \in DOMAIN cache.queue}
    /\ \A i, j \in DOMAIN cache.queue :
           cache.queue[i] = cache.queue[j] => i = j

\* A replay is refused exactly while fewer than MaxSize other keys have been
\* accepted since: the cache is a window over the last MaxSize executions.
RemembersLastMaxSize == \A k \in Keys : k \in cache.seen <=> age[k] < MaxSize
=============================================================================
