------------------------------- MODULE FifoCache -------------------------------
(***************************************************************************)
(* A cache with first-in first-out replacement: it holds at most Capacity  *)
(* associations of a key with a value, at most one for each key, and a new *)
(* one replaces the oldest when the cache is full.  It says what the TLB   *)
(* and the page frames of Project 8 are meant to be.                       *)
(***************************************************************************)
EXTENDS Naturals, Sequences

CONSTANTS Capacity, Keys, Values

VARIABLE cache   \* the associations, oldest first

Insert(k, v) ==
    /\ \A i \in DOMAIN cache : cache[i].key # k
    /\ cache' = Append(IF Len(cache) = Capacity THEN Tail(cache) ELSE cache,
                       [key |-> k, value |-> v])

Init == cache = <<>>
Next == \E k \in Keys, v \in Values : Insert(k, v)
Spec == Init /\ [][Next]_cache
=============================================================================
