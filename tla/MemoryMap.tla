------------------------------- MODULE MemoryMap -------------------------------
(***************************************************************************)
(* What the allocator of Project 7 promises its user: processes own        *)
(* disjoint regions of a memory of Capacity units, nobody's region changes *)
(* but by the release of its owner or by a compaction, and a compaction    *)
(* slides the regions down without changing their order or their sizes.   *)
(***************************************************************************)
EXTENDS Integers, FiniteSetsExt

CONSTANTS Capacity, Owners

VARIABLE regions   \* records [owner, begin, end]

Size(r)   == r.end - r.begin + 1
Below(r)  == {s \in regions : s.end < r.begin}

Disjoint(r, s) == r.end < s.begin \/ s.end < r.begin

Place(owner) ==
    \E begin, end \in 0 .. Capacity - 1 :
        LET new == [owner |-> owner, begin |-> begin, end |-> end]
        IN  /\ begin <= end
            /\ \A r \in regions : Disjoint(new, r)
            /\ regions' = regions \cup {new}

(* The lowest region of the owner is given back. *)
Free(owner) ==
    \E r \in regions :
        /\ r.owner = owner
        /\ \A s \in Below(r) : s.owner # owner
        /\ regions' = regions \ {r}

Slid(r) == LET begin == SumFunctionOnSet([s \in regions |-> Size(s)], Below(r))
           IN  [owner |-> r.owner, begin |-> begin, end |-> begin + Size(r) - 1]

Compact == regions' = {Slid(r) : r \in regions}

Init == regions = {}
Next == Compact \/ \E owner \in Owners : Place(owner) \/ Free(owner)
Spec == Init /\ [][Next]_regions
=============================================================================
