---------------------------- MODULE DedupeCache ----------------------------
(***************************************************************************)
(* The bounded replay filter of engine-rs/src/state.rs: a hash set for     *)
(* membership and a queue for eviction, changed together by add.           *)
(***************************************************************************)
EXTENDS Integers, Sequences

EmptyCache == [seen |-> {}, queue |-> <<>>]

\* DedupeCache::add answers FALSE for a key it holds ...
IsFresh(cache, key) == key \notin cache.seen

AddKeyForgotten(cache, key, maxSize) == cache               \* faulty variants
AddKeyUnbounded(cache, key, maxSize) ==
    [seen |-> cache.seen \cup {key}, queue |-> Append(cache.queue, key)]
AddKeyEvictEarly(cache, key, maxSize) ==
    LET queue == Append(cache.queue, key)
        seen  == cache.seen \cup {key}
    IN  IF Len(queue) >= maxSize
        THEN [seen |-> seen \ {Head(queue)}, queue |-> Tail(queue)]
        ELSE [seen |-> seen, queue |-> queue]

\* ... and otherwise appends it and evicts from the front while too long: one
\* eviction is enough, since the queue grows by one key at a time.
AddKey(cache, key, maxSize) ==
    LET queue == Append(cache.queue, key)
        seen  == cache.seen \cup {key}
    IN  IF Len(queue) > maxSize
        THEN [seen |-> seen \ {Head(queue)}, queue |-> Tail(queue)]
        ELSE [seen |-> seen, queue |-> queue]
=============================================================================
